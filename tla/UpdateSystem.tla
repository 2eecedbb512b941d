---------------------------- MODULE UpdateSystem ----------------------------
(***************************************************************************)
(* Setup, updater and update service over one drive. The guest is one      *)
(* thread, the host runs beside it and writes at any time; power can be    *)
(* cut at any time.                                                        *)
(***************************************************************************)
EXTENDS Updater

vars == <<disk, setupVars, hostVars, updateVars>>

TypeOK ==
    /\ SetupTypeOK /\ HostTypeOK
    /\ available \in BOOLEAN
    /\ upd.at \in {"idle", "read", "write"}
    /\ upd.buffer \in Seq(Content) /\ Len(upd.buffer) <= ImageSize
    /\ upd.at = "write" => ~Idle
    /\ touched \subseteq Sectors \X {"host", "record", "update"} /\ mixed \in BOOLEAN

(* An installed machine: without partitions before the account was made,   *)
(* with partitions afterwards.                                             *)
Init ==
    /\ SetupInit /\ HostInit /\ UpdateInit
    /\ \E t \in {r \in Regions : RoomFor(r)}, b \in Media, a \in Account :
          disk = [l \in Sectors |->
                    CASE l = 0 /\ t # Whole -> Table
                      [] l = t.start -> Header
                      [] l - t.start \in Parts -> Data(b, l - t.start)
                      [] l = StateSector(t) -> IF t = Whole THEN Record("NEEDS_OOBE", t, NoAccount)
                                                            ELSE Record("READY", t, a)
                      [] OTHER -> Blank]

(* What other steps do to the guest's update state. *)
GuestStays == UNCHANGED guestVars
GuestStops == available' = FALSE /\ upd' = NoUpdate

Touches(who) ==
    LET written == {l \in StagedSectors \cup {PackageSector} : disk'[l] # disk[l]}
    IN  touched' = {x \in touched : x[1] \notin written} \cup (written \X {who})

(* A header the host writes while nobody reads stands for all its blobs.   *)
Announces == touched' = {x \in touched : x[2] # "host"}

SetupStep ==
    /\ ~Updating
    /\ SetupNext
    /\ IF phase' = "OFF" /\ phase # "OFF" THEN GuestStops ELSE GuestStays
    /\ Touches("record")
    /\ UNCHANGED <<hostVars, mixed, done>>

PowerCutDuringUpdate ==
    /\ Updating /\ PowerCut /\ GuestStops
    /\ UNCHANGED <<hostVars, touched, mixed, done>>

HostStep ==
    /\ HostNext
    /\ IF StageHeader /\ ~Updating THEN Announces ELSE Touches("host")
    /\ UNCHANGED <<setupVars, guestVars, mixed, done>>

GuestStep ==
    /\ \E bad \in {{}} \cup {{l} : l \in Missed} : Poll(bad) \/ Begin(bad)
    /\ UNCHANGED <<disk, setupVars, hostVars, touched, mixed, done>>

(* A small drive has its image, or part of it, where updates are staged.   *)
InstallStep ==
    /\ \/ (UpdateFails \/ ReadBlob \/ WriteBegins) /\ UNCHANGED touched
       \/ (\E ok \in BOOLEAN : UpdateWrites(ok)) /\ Touches("update")
    /\ UNCHANGED <<phase, media, seen, region, install, account, lock, created,
                   hostVars, mixed, done>>

FinishStep ==
    \E ok \in BOOLEAN :
        /\ UpdateEnds(ok)
        /\ mixed' = (touched # {})
        /\ done' = [done EXCEPT !.installed = @ \cup {upd.pkg},
                                !.unclear = IF ok THEN @ ELSE @ \cup {upd.pkg}]
        /\ UNCHANGED <<phase, media, seen, region, install, account, lock, created, hostVars, touched>>

Next ==
    \/ SetupStep \/ PowerCutDuringUpdate \/ HostStep
    \/ GuestStep \/ InstallStep \/ FinishStep

Spec == Init /\ [][Next]_vars

-----------------------------------------------------------------------------
(* An installed update is the build its header announced, unless staged    *)
(* sectors were written after that header: by the host, which may be       *)
(* staging the next build while the guest reads, by setup, whose state     *)
(* sector on an unpartitioned drive is the last staged one, or by the      *)
(* update itself where the image reaches into them                         *)
(* (install_staged_update, stage_iso_into_disk, install_state_sector_lba). *)
InstallGivesStagedBuild ==
    upd.at = "write" /\ JobDone /\ touched = {} => HoldsImage(job.target, upd.pkg.build)

(* A machine whose image is torn - by a power cut or a failed write in the *)
(* middle - still has what it takes to repair it: the pending record of    *)
(* setup, or the package on offer. The header is cleared last              *)
(* (install_staged_update, update_setup_state). That is so on a drive with *)
(* at most one partition: of two installations an update may repair the    *)
(* other one, when a header cannot be read.                                *)
TornMeansOnOffer ==
    LET e == Existing({})
    IN  e # <<>> /\ (\A b \in Build : ~HoldsImage(e[1], b))
            => \/ Announced # NoOffer \/ Pending({}) # <<>>
               \/ touched # {} \/ mixed

(* The guest takes a package off the drive only after it has installed it, *)
(* unless the host wrote in between (clear_update_package_header).         *)
ClearedMeansInstalled ==
    [][ Announced # NoOffer /\ Announced' = NoOffer
            => Announced \in done'.installed \/ touched # {} ]_vars

(* A package that was installed is not offered again, unless clearing its  *)
(* header failed or the host broke off after announcing it and staged it   *)
(* once more (install_staged_update, process_iso).                         *)
InstalledNotOfferedAgain ==
    Announced \in done.installed => Announced \in done.unclear \/ Announced.version \in slipped
=============================================================================

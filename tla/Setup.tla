-------------------------------- MODULE Setup --------------------------------
(***************************************************************************)
(* First-run setup, from the welcome screen through the installation and   *)
(* the account to the lock screen, across restarts. Everything runs in the *)
(* one thread of the desktop loop; power can be cut between any two writes.*)
(* Seconds spent on a screen are a nondeterministic delay.                 *)
(***************************************************************************)
EXTENDS Disk

VARIABLES
    phase,     \* setup_phase, or "OFF"
    media,     \* the build the machine was started from
    seen,      \* storage_info.partitions, read at start
    region,    \* install_state_target_lba and _sectors
    install,   \* oobe_install_complete, _failed and _write_started
    account,   \* account_username and account_password
    lock,      \* lockscreen_prompt_visible, login_password_input, login_error
    job,       \* the installation that is being written
    created    \* history: the account the user was told is created, per target

setupVars == <<phase, media, seen, region, install, account, lock, job, created>>

NoRegion == [start |-> 0, count |-> 0]
NoJob == [next |-> 0, image |-> <<>>, target |-> NoRegion]
Clean == [complete |-> FALSE, failed |-> FALSE, started |-> FALSE]
Closed == [visible |-> FALSE, input |-> NoAccount, error |-> FALSE]
Phases == {"OFF", "NONE", "WELCOME", "INSTALLER", "INSTALLING", "USER_OOBE", "OOBE_HI",
           "OOBE_SETTING_UP", "OOBE_PREPARE", "OOBE_ALMOST_THERE", "LOCKSCREEN"}

SetupTypeOK ==
    /\ disk \in [Sectors -> Content]
    /\ phase \in Phases
    /\ media \in Build
    /\ seen \in {Partitions, <<>>}
    /\ region \in Regions \cup {NoRegion}
    /\ install \in [complete : BOOLEAN, failed : BOOLEAN, started : BOOLEAN]
    /\ account \in Account \cup {NoAccount}
    /\ lock \in [visible : BOOLEAN, input : Account \cup {NoAccount}, error : BOOLEAN]
    /\ job.next \in 0 .. ImageSize + 1
    /\ job.target \in Regions \cup {NoRegion}
    /\ created \in [Regions -> Account \cup {NoAccount}]

-----------------------------------------------------------------------------
(* The installer writes the header, then the image, one sector at a time.  *)

Idle == job = NoJob

(* 1u + kernel_sectors + initrd_sectors *)
Fits(t) == 1 + ImageSize <= t.count

(* install_required_sectors *)
RoomFor(t) == 3 + ImageSize <= t.count

StartJob(image, t) == [next |-> 0, image |-> image, target |-> t]

JobSector(j) == IF j.next = 0 THEN Header ELSE j.image[j.next]

(* One write of installer_install_to_target or of its write_blob; after    *)
(* the last one next is beyond the image.                                  *)
JobWrites(ok) ==
    /\ ~Idle /\ job.next <= ImageSize
    /\ Write(job.target.start + job.next, JobSector(job), ok)
    /\ job' = IF ok THEN [job EXCEPT !.next = @ + 1] ELSE NoJob

JobDone == ~Idle /\ job.next = ImageSize + 1

-----------------------------------------------------------------------------
(* build_install_state_sector and write_install_state_sector               *)
Persist(stage, t, a, ok) ==
    IF StateSector(t) = 0 THEN ~ok /\ UNCHANGED disk
    ELSE Write(StateSector(t), Record(stage, t, a), ok)

SetupInit ==
    /\ phase = "OFF" /\ media \in Media
    /\ seen = <<>> /\ region = NoRegion /\ install = Clean
    /\ account = NoAccount /\ lock = Closed /\ job = NoJob
    /\ created = [t \in Regions |-> NoAccount]

(* desktop_initialize: the stored stage decides where setup goes on.       *)
PowerOn(bad) ==
    LET pending == Pending(bad)
        loaded == Loaded(bad)
    IN  /\ phase = "OFF"
        /\ media' \in Media
        /\ seen' = Visible(bad)
        /\ install' = Clean /\ lock' = Closed /\ job' = NoJob
        /\ CASE pending # <<>> ->
                  /\ phase' = "INSTALLING"
                  /\ region' = pending[1].target /\ account' = NoAccount
             [] pending = <<>> /\ loaded # <<>> ->
                  /\ phase' = IF loaded[1].stage = "READY" THEN "LOCKSCREEN" ELSE "USER_OOBE"
                  /\ region' = loaded[1].target /\ account' = loaded[1].account
             [] OTHER ->
                  /\ phase' = IF Existing(bad) = <<>> THEN "WELCOME" ELSE "NONE"
                  /\ region' = NoRegion /\ account' = NoAccount
        /\ UNCHANGED <<disk, created>>

(* Power is cut, or the user resets the machine. *)
PowerCut ==
    /\ phase # "OFF"
    /\ phase' = "OFF" /\ seen' = <<>> /\ region' = NoRegion /\ install' = Clean
    /\ account' = NoAccount /\ lock' = Closed /\ job' = NoJob
    /\ UNCHANGED <<disk, media, created>>

-----------------------------------------------------------------------------
ClickNext ==
    /\ phase = "WELCOME"
    /\ phase' = "INSTALLER"
    /\ UNCHANGED <<disk, media, seen, region, install, account, lock, job, created>>

ClickSkip ==
    /\ phase = "INSTALLER"
    /\ phase' = "NONE"
    /\ UNCHANGED <<disk, media, seen, region, install, account, lock, job, created>>

(* get_install_target *)
Targets == IF seen = <<>> THEN {Whole} ELSE {seen[i] : i \in DOMAIN seen}

(* A target without room is refused before anything is written. *)
ClickInstallRefused(t) ==
    /\ phase = "INSTALLER" /\ t \in Targets /\ ~RoomFor(t)
    /\ install' = [install EXCEPT !.failed = TRUE]
    /\ UNCHANGED <<disk, phase, media, seen, region, account, lock, job, created>>

(* The choice is recorded on the target, then the machine restarts into    *)
(* the installation. The account of a target whose record is in the same   *)
(* sector is given up with it: the last partition's and the whole drive's  *)
(* are, when that partition ends with the drive.                           *)
ClickInstall(t, ok) ==
    /\ phase = "INSTALLER" /\ t \in Targets /\ RoomFor(t)
    /\ Persist("PENDING_INSTALL", t, NoAccount, ok)
    /\ created' = [u \in Regions |-> IF StateSector(u) = StateSector(t) THEN NoAccount ELSE created[u]]
    /\ install' = IF ok THEN Clean ELSE [install EXCEPT !.failed = TRUE]
    /\ phase' = IF ok THEN "OFF" ELSE phase
    /\ seen' = IF ok THEN <<>> ELSE seen
    /\ UNCHANGED <<media, region, account, lock, job>>

-----------------------------------------------------------------------------
(* update_setup_state in INSTALLING *)
Image(b) == [i \in Parts |-> Data(b, i)]

(* The next stage recorded before the image it speaks of. *)
InstallBegins_recordFirst ==
    /\ phase = "INSTALLING" /\ Idle /\ ~install.started /\ RoomFor(region)
    /\ job' = StartJob(Image(media), region)
    /\ Persist("NEEDS_OOBE", region, NoAccount, TRUE)
    /\ UNCHANGED <<phase, media, seen, region, install, account, lock, created>>

InstallRefused ==
    /\ phase = "INSTALLING" /\ Idle /\ ~install.started /\ ~RoomFor(region)
    /\ install' = [complete |-> FALSE, failed |-> TRUE, started |-> FALSE]
    /\ UNCHANGED <<disk, phase, media, seen, region, account, lock, job, created>>

InstallBegins ==
    /\ phase = "INSTALLING" /\ Idle /\ ~install.started /\ RoomFor(region)
    /\ job' = StartJob(Image(media), region)
    /\ UNCHANGED <<disk, phase, media, seen, region, install, account, lock, created>>

InstallWrites(ok) ==
    /\ phase = "INSTALLING" /\ JobWrites(ok)
    /\ install' = IF ok THEN install ELSE [complete |-> FALSE, failed |-> TRUE, started |-> TRUE]
    /\ UNCHANGED <<phase, media, seen, region, account, lock, created>>

InstallEnds(ok) ==
    /\ phase = "INSTALLING" /\ JobDone
    /\ Persist("NEEDS_OOBE", region, NoAccount, ok)
    /\ install' = [complete |-> ok, failed |-> ~ok, started |-> TRUE]
    /\ job' = NoJob
    /\ UNCHANGED <<phase, media, seen, region, account, lock, created>>

Reboots ==
    /\ phase = "INSTALLING" /\ install.complete /\ ~install.failed
    /\ phase' = "OFF" /\ seen' = <<>> /\ region' = NoRegion /\ install' = Clean
    /\ UNCHANGED <<disk, media, account, lock, job, created>>

-----------------------------------------------------------------------------
(* begin_oobe_account_creation *)
CreateAccount(a, ok) ==
    /\ phase = "USER_OOBE"
    /\ Persist("READY", region, a, ok)
    /\ install' = [install EXCEPT !.failed = ~ok]
    /\ account' = IF ok THEN a ELSE account
    /\ phase' = IF ok THEN "OOBE_HI" ELSE phase
    /\ created' = IF ok THEN [created EXCEPT ![region] = a] ELSE created
    /\ UNCHANGED <<media, seen, region, lock, job>>

(* The screens that follow, each after its seconds. *)
After == [OOBE_HI |-> "OOBE_SETTING_UP", OOBE_SETTING_UP |-> "OOBE_PREPARE",
          OOBE_PREPARE |-> "OOBE_ALMOST_THERE"]

OobeGoesOn ==
    /\ phase \in DOMAIN After
    /\ phase' = After[phase]
    /\ UNCHANGED <<disk, media, seen, region, install, account, lock, job, created>>

(* The last screen storing the fields of the form, which are empty by then. *)
OobeEnds_form(ok) ==
    /\ phase = "OOBE_ALMOST_THERE"
    /\ Persist("READY", region, NoAccount, ok)
    /\ phase' = IF ok THEN "NONE" ELSE phase
    /\ lock' = IF ok THEN lock ELSE [lock EXCEPT !.error = TRUE]
    /\ UNCHANGED <<media, seen, region, install, account, job, created>>

(* The last screen stores the account again. *)
OobeEnds(ok) ==
    /\ phase = "OOBE_ALMOST_THERE"
    /\ Persist("READY", region, account, ok)
    /\ phase' = IF ok THEN "NONE" ELSE phase
    /\ lock' = IF ok THEN lock ELSE [lock EXCEPT !.error = TRUE]
    /\ UNCHANGED <<media, seen, region, install, account, job, created>>

-----------------------------------------------------------------------------
(* The lock screen: the first key or click shows the field, keys fill it,  *)
(* Enter or the button compares. Whole passwords stand for keys.           *)
ShowPrompt ==
    /\ phase = "LOCKSCREEN" /\ ~lock.visible
    /\ lock' = [lock EXCEPT !.visible = TRUE, !.error = FALSE]
    /\ UNCHANGED <<disk, phase, media, seen, region, install, account, job, created>>

TypePassword(p) ==
    /\ phase = "LOCKSCREEN" /\ lock.visible
    /\ lock' = [lock EXCEPT !.input = p, !.error = FALSE]
    /\ UNCHANGED <<disk, phase, media, seen, region, install, account, job, created>>

(* try_unlock_lockscreen *)
Unlock ==
    /\ phase = "LOCKSCREEN" /\ lock.visible
    /\ lock' = [lock EXCEPT !.input = NoAccount, !.error = lock.input # account]
    /\ phase' = IF lock.input = account THEN "NONE" ELSE phase
    /\ UNCHANGED <<disk, media, seen, region, install, account, job, created>>

-----------------------------------------------------------------------------
(* handle_setup_click: what there is to click in each phase.               *)
SetupClick ==
    \/ ClickNext \/ ClickSkip
    \/ \E t \in Regions : ClickInstallRefused(t)
    \/ \E t \in Regions, ok \in BOOLEAN : ClickInstall(t, ok)
    \/ \E a \in Account, ok \in BOOLEAN : CreateAccount(a, ok)
    \/ ShowPrompt \/ Unlock

SetupNext ==
    \/ \E bad \in BadSectors : PowerOn(bad)
    \/ PowerCut
    \/ SetupClick
    \/ \E p \in Account : TypePassword(p)
    \/ InstallRefused \/ InstallBegins \/ Reboots
    \/ \E ok \in BOOLEAN : InstallWrites(ok) \/ InstallEnds(ok) \/ OobeEnds(ok)
    \/ OobeGoesOn

-----------------------------------------------------------------------------
(* What a start finds as installed, with its account or waiting for one,   *)
(* is a complete image of one build: power may be cut and writes may fail  *)
(* anywhere in an installation, and two installations may follow each      *)
(* other on one target (update_setup_state, load_existing_install_state).  *)
BootFindsWholeImage ==
    Loaded({}) # <<>> => \E b \in Build : HoldsImage(Existing({})[1], b)

(* The account the user was told is created is the one on the disk, until  *)
(* that target, or one whose record shares its sector, is chosen for       *)
(* another installation: not lost in the second write at the end of setup, *)
(* by a failed write or a power cut, nor when another target is installed  *)
(* to (begin_oobe_account_creation, update_setup_state).                   *)
AccountSurvives ==
    \A t \in Regions :
        created[t] # NoAccount /\ disk[t.start] = Header /\ (t = Whole \/ disk[0] = Table)
            => disk[StateSector(t)] = Record("READY", t, created[t])

=============================================================================

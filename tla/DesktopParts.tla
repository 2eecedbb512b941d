---------------------------- MODULE DesktopParts ----------------------------
(***************************************************************************)
(* Parts of the system that share the desktop loop but no state with each  *)
(* other: what a behaviour does with one of them is the same whatever the  *)
(* others do, so each behaviour is about one part, chosen at the start.    *)
(***************************************************************************)
EXTENDS Naturals, Sequences

CONSTANTS
    Archive, Partition, Installed, MaxEntries, RowsVisible,
    Texts, Bookmarks, Fields, MaxRedirects, BodyLength, BodyCapacity,
    Block, TagLists, Frames, MaxItems,
    Reload, PerMs, MaxCycles, Minute, Hour, Day, Starts, MaxSeconds, Notice,
    GridWidth, GridHeight, Capacity, FirstBody, FirstFood, MaxScore,
    MaxWire, MaxMoves, MaxKeys,
    FileSizes, ImageSizes, Sections, Offsets, DosHeader, CoffHeader, OptionalHeader,
    SectionHeader, FrameSize, FrameNumbers,
    MaxVersion,
    Total, KernelSectors, InitrdSectors, Partitions, Build, Media, Unreadable,
    Account, NoAccount

VARIABLES
    part,                                                         \* the one that moves
    fm,                                                           \* FileManager
    fetch, server, shown,                                         \* Browser
    boot,                                                         \* Initrd
    pit, timer, rtc, reader, began, latest,                       \* Clock
    snake, ttt, screen,                                           \* Games
    wire, typing, packet, hand, poll, mouse, flags, history,      \* Ps2Input
    pe,                                                           \* PeLoader
    issued, staged, offer, prompt, attempt, page, settings, turned, newest,  \* UpdatePrompt
    disk, phase, media, seen, region, install, account, lock, job, created   \* Setup

Files == INSTANCE FileManager
Web == INSTANCE Browser
Start == INSTANCE Initrd
Clocks == INSTANCE Clock
Arcade == INSTANCE Games
Devices == INSTANCE Ps2Input
Apps == INSTANCE PeLoader
Updates == INSTANCE UpdatePrompt
Oobe == INSTANCE Setup

(* An archive is a sequence of files; what is mounted and what the boot    *)
(* loader hands over is one, and the loader's list consists of tags.       *)
ASSUME ArchiveAssumption ==
    /\ Archive \in Seq([path : Seq(STRING), kind : Files!Kinds]) /\ Partition \in Seq(STRING)
    /\ MaxEntries \in Nat /\ RowsVisible \subseteq Nat
    /\ Block \in Nat \ {0} /\ MaxItems \in Nat
    /\ Frames \in Seq(STRING) /\ TagLists \subseteq Seq(Start!Tag)

(* Lengths of bodies and buffers are unsigned. *)
ASSUME BodyAssumption == BodyLength \subseteq Nat /\ BodyCapacity \in Nat

(* The timer divides; a minute, an hour and a day are not empty; no wait   *)
(* is followed for a whole day; and the flag of the clock is up for at     *)
(* least as long as the three registers take to be read.                   *)
ASSUME ClockAssumption ==
    /\ Reload \in Nat \ {0} /\ PerMs \in Nat \ {0}
    /\ Minute \in Nat \ {0} /\ Hour \in Nat \ {0} /\ Day \in Nat \ {0}
    /\ Starts \subseteq 0 .. Clocks!SecondsOfDay - 1
    /\ MaxSeconds \in Nat /\ MaxSeconds < Clocks!SecondsOfDay
    /\ Notice \in Nat /\ Notice >= 3

(* The grid has more cells than the snake has segments, and steps of five  *)
(* reach every one of them (twelve by nine, 48 segments); a game begins    *)
(* with a snake in one piece, and food beside it.                          *)
ASSUME SnakeAssumption ==
    /\ GridWidth \in Nat \ {0} /\ GridHeight \in Nat \ {0} /\ Capacity \in Nat
    /\ Capacity < Arcade!TotalCells /\ Arcade!TotalCells % 5 # 0
    /\ FirstBody \in Seq(Arcade!Grid) /\ Len(FirstBody) \in 1 .. Capacity
    /\ FirstFood \in Arcade!Grid
    /\ \A k \in DOMAIN FirstBody : FirstBody[k] # FirstFood
    /\ \A j, k \in DOMAIN FirstBody : FirstBody[j] = FirstBody[k] => j = k
    /\ \A k \in 1 .. Len(FirstBody) - 1 : Arcade!Beside(FirstBody[k], FirstBody[k + 1])

(* Sizes, addresses and numbers of frames are unsigned. *)
ASSUME ImageAssumption ==
    /\ FileSizes \subseteq Nat /\ ImageSizes \subseteq Nat
    /\ Offsets \subseteq Nat /\ {DosHeader, CoffHeader, OptionalHeader, SectionHeader} \subseteq Nat
    /\ FrameSize \in Nat \ {0} /\ FrameNumbers \subseteq Nat
    /\ Sections \subseteq
          Seq([virtual_address : Nat, virtual_size : Nat, raw_at : Nat, raw_size : Nat])

(* The drive setup writes to. *)
ASSUME DriveAssumption ==
    /\ Total \in Nat \ {0} /\ KernelSectors \in Nat \ {0} /\ InitrdSectors \in Nat \ {0}
    /\ Partitions \in Seq([start : 1 .. Total - 1, count : 1 .. Total - 1])
    /\ Media \subseteq Build /\ Unreadable \subseteq 0 .. Total - 1
    /\ NoAccount \notin Account

(* Partitions lie on the drive, side by side. *)
ASSUME PartitionsAssumption ==
    /\ \A i \in DOMAIN Partitions : Partitions[i].start + Partitions[i].count <= Total
    /\ \A i, j \in DOMAIN Partitions : i # j =>
          \/ Partitions[i].start + Partitions[i].count <= Partitions[j].start
          \/ Partitions[j].start + Partitions[j].count <= Partitions[i].start

filesVars == fm
webVars == <<fetch, server, shown>>
bootVars == boot
timerVars == <<pit, timer>>
rtcVars == <<rtc, reader, began, latest>>
gameVars == snake
boardVars == <<ttt, screen>>
deviceVars == <<wire, typing, packet, hand, poll, mouse, flags, history>>
appVars == pe
updateVars == <<issued, staged, offer, prompt, attempt, page, settings, turned, newest>>
setupVars == <<disk, phase, media, seen, region, install, account, lock, job, created>>

partsVars == <<part, filesVars, webVars, bootVars, timerVars, rtcVars, gameVars, boardVars,
               deviceVars, appVars, updateVars, setupVars>>

(* Setup begins on a drive without an image, with or without partitions.   *)
(* What the other parts begin with makes no difference to the chosen one.  *)
Init ==
    /\ part \in {"files", "web", "boot", "timer", "rtc", "game", "board", "devices", "apps",
                "updates", "setup"}
    /\ Files!FileManagerInit /\ (part # "files" => fm.live)
    /\ Web!BrowserInit
    /\ Start!BootInit /\ (part # "boot" => boot.tags = CHOOSE tags \in TagLists : TRUE)
    /\ Clocks!TimerInit /\ Clocks!RtcInit
    /\ part # "rtc" => rtc.start = (CHOOSE second \in Starts : TRUE) /\ rtc.binary
    /\ Arcade!SnakeInit /\ Arcade!BoardInit
    /\ Devices!InputInit /\ (part # "devices" => mouse.initialized)
    /\ Apps!PeInit /\ Updates!PromptInit /\ Oobe!SetupInit
    /\ \E first \in {Oobe!Table, Oobe!Blank} :
          disk = [l \in Oobe!Sectors |-> IF l = 0 THEN first ELSE Oobe!Blank]
    /\ part # "setup" => disk[0] = Oobe!Blank /\ media = CHOOSE b \in Media : TRUE

Next ==
    /\ UNCHANGED part
    /\ \/ part = "files" /\ Files!FileManagerNext
          /\ UNCHANGED <<webVars, bootVars, timerVars, rtcVars, gameVars,
                        boardVars, deviceVars, appVars, updateVars, setupVars>>
       \/ part = "web" /\ Web!BrowserNext
          /\ UNCHANGED <<filesVars, bootVars, timerVars, rtcVars, gameVars,
                        boardVars, deviceVars, appVars, updateVars, setupVars>>
       \/ part = "boot" /\ Start!BootNext
          /\ UNCHANGED <<filesVars, webVars, timerVars, rtcVars, gameVars,
                        boardVars, deviceVars, appVars, updateVars, setupVars>>
       \/ part = "timer" /\ Clocks!TimerNext
          /\ UNCHANGED <<filesVars, webVars, bootVars, rtcVars, gameVars,
                        boardVars, deviceVars, appVars, updateVars, setupVars>>
       \/ part = "rtc" /\ Clocks!RtcNext
          /\ UNCHANGED <<filesVars, webVars, bootVars, timerVars, gameVars,
                        boardVars, deviceVars, appVars, updateVars, setupVars>>
       \/ part = "game" /\ Arcade!SnakeNext
          /\ UNCHANGED <<filesVars, webVars, bootVars, timerVars, rtcVars,
                        boardVars, deviceVars, appVars, updateVars, setupVars>>
       \/ part = "board" /\ Arcade!BoardNext
          /\ UNCHANGED <<filesVars, webVars, bootVars, timerVars, rtcVars,
                        gameVars, deviceVars, appVars, updateVars, setupVars>>
       \/ part = "devices" /\ Devices!InputNext
          /\ UNCHANGED <<filesVars, webVars, bootVars, timerVars, rtcVars,
                        gameVars, boardVars, appVars, updateVars, setupVars>>
       \/ part = "apps" /\ Apps!PeNext
          /\ UNCHANGED <<filesVars, webVars, bootVars, timerVars, rtcVars,
                        gameVars, boardVars, deviceVars, updateVars, setupVars>>
       \/ part = "updates" /\ Updates!PromptNext
          /\ UNCHANGED <<filesVars, webVars, bootVars, timerVars, rtcVars,
                        gameVars, boardVars, deviceVars, appVars, setupVars>>
       \/ part = "setup" /\ Oobe!SetupNext
          /\ UNCHANGED <<filesVars, webVars, bootVars, timerVars, rtcVars,
                        gameVars, boardVars, deviceVars, appVars, updateVars>>

Spec == Init /\ [][Next]_partsVars

-----------------------------------------------------------------------------
(* File Manager: the rows are the children of the place they stand for.    *)
RowsAreThePlace == part = "files" => Files!RowsAreThePlace

(* Browser: what is shown under an address is what that address answered.  *)
ShownIsItsAnswer == part = "web" => Web!ShownIsItsAnswer

(* Boot: of a whole or a torn archive what is there is found.              *)
FoundIsWhatIsHeld == part = "boot" => Start!FoundIsWhatIsHeld

(* Clocks: the uptime is the cycles but for rounds nobody has looked at,   *)
(* a time of day is of one moment, and waits are as long as they seem.     *)
ClocksKeepTime ==
    /\ part = "timer" => Clocks!UptimeIsCycles
    /\ part = "rtc" => Clocks!TimeIsOneMoment

(* Games: the snake stays in one piece and the food beside it; the verdict *)
(* of tic-tac-toe is that of its board.                                    *)
GamesByTheRules ==
    /\ part = "game" => Arcade!SnakeInOnePiece
    /\ part = "board" => Arcade!VerdictIsRight

(* Devices: once nothing waits, modifiers and mouse follow the user.       *)
InputFollowsHand == part = "devices" => Devices!InputFollowsHand

(* Applications: they run in an image as linked, and its memory returns.   *)
RunsAsLinked == part = "apps" => Apps!RunsAsLinked

(* Updates: a newer version than the dismissed one prompts, unless it was  *)
(* attempted or Settings shows the Update page.                           *)
NewerPromptsUntilAttempt == Updates!NewerPromptsUntilAttempt

(* First run: no start goes past the installer with a torn image, and the  *)
(* account the user was told is created is the one that unlocks.           *)
BootFindsWholeImage == part = "setup" => Oobe!BootFindsWholeImage
AccountSurvives == part = "setup" => Oobe!AccountSurvives

(* "JabulOS archive" (gui.cpp:7758): a partition with an installed system  *)
(* is listed as one that can be opened.                                    *)
InstalledIsListed == part = "files" => Files!InstalledIsListed
=============================================================================

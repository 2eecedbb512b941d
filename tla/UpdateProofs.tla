---------------------------- MODULE UpdateProofs ----------------------------
(***************************************************************************)
(* For every drive, partition table and set of builds: what an update      *)
(* installs is what its header announced, a package leaves the drive only  *)
(* by being installed, and one that was installed is not offered again. On *)
(* a drive with at most one partition a torn image can be repaired.        *)
(* Setup, host and updater write to one drive; the invariant says of each  *)
(* of its structures who may be in the middle of it.                       *)
(***************************************************************************)
EXTENDS UpdateSystem, WellFoundedInduction, TLAPS

(* A set of naturals that is not empty has a smallest member. *)
LEMMA LeastOfNaturals ==
    ASSUME NEW S, S \subseteq Nat, S # {}
    PROVE  \E k \in S : \A j \in S : k <= j
<1> DEFINE Less == {ss \in Nat \X Nat : ss[1] < ss[2]}
<1>1. IsWellFoundedOn(Less, Nat)
  BY NatLessThanWellFounded DEF OpToRel
<1>2. PICK k \in S : \A j \in S : <<j, k>> \notin Less
  BY <1>1, WFMin
<1>3. \A j \in S : ~(j < k)
  BY <1>2
<1>4. QED
  BY <1>3

(* An image that begins at l ends before the package header. *)
Clear(l) == l + ImageSize < PackageSector

(* What is in a staged sector or in a buffer. *)
Loose == {c \in Content : c # Header /\ c.kind # "package"}

Offers == [version : 1 .. MaxVersion, build : Build]
Jobs == [next : 0 .. ImageSize + 1, image : Seq(Content), target : Regions \cup {NoRegion}]
Updates == [at : {"idle", "read", "write"}, pkg : Offers \cup {NoOffer},
            target : Regions \cup {NoRegion}, buffer : Seq(Content)]

Types ==
    /\ SetupTypeOK /\ HostTypeOK
    /\ job \in Jobs /\ available \in BOOLEAN /\ upd \in Updates
    /\ touched \subseteq Sectors \X {"host", "record", "update"} /\ mixed \in BOOLEAN
    /\ done \in [installed : SUBSET Offers, unclear : SUBSET Offers]

(* Headers of images are where an image has room, a package only in the    *)
(* last sector.                                                            *)
DiskOk ==
    \A l \in Sectors :
        /\ disk[l] = Header => Clear(l)
        /\ disk[l].kind = "package" => l = PackageSector /\ disk[l].version \in 1 .. MaxVersion

(* An installation is setup's or the updater's; it never writes a header   *)
(* but its first sector, and never reaches the last sector of the drive.   *)
JobOk ==
    /\ job # NoJob =>
          /\ Len(job.image) = ImageSize /\ \A i \in Parts : job.image[i] \in Loose
          /\ job.target \in Regions /\ Clear(job.target.start)
          /\ upd.at = "write" \/ (phase = "INSTALLING" /\ ~install.started)
    /\ install.complete => install.started

UpdOk ==
    /\ upd.at = "idle" => upd = NoUpdate
    /\ upd.at # "idle" =>
          /\ upd.pkg \in Offers /\ upd.target \in Regions /\ Clear(upd.target.start)
          /\ Len(upd.buffer) <= ImageSize /\ \A i \in 1 .. Len(upd.buffer) : upd.buffer[i] \in Loose
    /\ upd.at = "read" => job = NoJob
    /\ upd.at = "write" => job # NoJob /\ job.target = upd.target

HostOk ==
    /\ host.step = "poll" => host = AtRest
    /\ host.step # "poll" => host.version = saved.version + 1 /\ host.build \in Build
    /\ host.step = "stage" => host.next \in 1 .. ImageSize + 1
    /\ host.step \in {"stage", "archive"} => inbox # <<>>

(* A version that was once in the header. *)
Published(v) ==
    \/ v \in 1 .. saved.version
    \/ v \in slipped
    \/ host.step \in {"archive", "save"} /\ v = host.version

LedgerOk ==
    /\ Announced # NoOffer => Published(Announced.version)
    /\ upd.at # "idle" => Published(upd.pkg.version)
    /\ \A p \in done.installed : Published(p.version)
    /\ InstalledNotOfferedAgain

Overwritten(l) == <<l, "record">> \in touched \/ <<l, "update">> \in touched

(* The blobs the host has written are there, but for those the guest wrote *)
(* over; those of the announced package are all there.                     *)
StagedOk ==
    /\ host.step = "stage" =>
          \A i \in Parts : i < host.next =>
              disk[StagedSector(i)] = Data(host.build, i) \/ Overwritten(StagedSector(i))
    /\ touched = {} /\ Announced # NoOffer =>
          \A i \in Parts : disk[StagedSector(i)] = Data(Announced.build, i)

(* As long as nothing was written to it, what the updater has read of the  *)
(* package and what it has written of the image are of the announced build.*)
GuestOk ==
    touched = {} /\ upd.at # "idle" =>
        /\ Announced = upd.pkg
        /\ upd.at = "read" =>
              \A i \in 1 .. Len(upd.buffer) : upd.buffer[i] = Data(upd.pkg.build, i)
        /\ upd.at = "write" =>
              /\ \A i \in Parts : job.image[i] = Data(upd.pkg.build, i)
              /\ job.next > 0 => disk[job.target.start] = Header
              /\ \A i \in Parts : i < job.next => disk[job.target.start + i] = job.image[i]

IInv == Types /\ DiskOk /\ JobOk /\ UpdOk /\ HostOk /\ LedgerOk /\ StagedOk /\ GuestOk
-----------------------------------------------------------------------------
LEMMA LayoutFacts ==
    /\ Total \in Nat \ {0} /\ ImageSize \in Nat \ {0} /\ ImageSize < Total - 1
    /\ PackageSector \in Sectors /\ PackageSector = Total - 1
    /\ Sectors = 0 .. Total - 1 /\ Parts = 1 .. ImageSize
    /\ \A i \in Parts : StagedSector(i) \in Sectors /\ StagedSector(i) < PackageSector
    /\ \A i \in Parts : StagedSector(i) + ImageSize >= PackageSector
    /\ \A i, j \in Parts : i # j => StagedSector(i) # StagedSector(j)
BY DiskAssumption, ServiceAssumption
   DEF ImageSize, PackageSector, Sectors, Parts, StagedSector

LEMMA ElementOf ==
    ASSUME NEW S, NEW s \in Seq(S), NEW i \in DOMAIN s
    PROVE  s[i] \in S /\ i \in Nat
OBVIOUS

LEMMA RegionFacts ==
    ASSUME NEW t \in Regions
    PROVE  /\ t = [start |-> t.start, count |-> t.count]
           /\ t.start \in Sectors /\ t.count \in 1 .. Total
           /\ t.start + t.count <= Total
<1>1. CASE t = Whole
  BY <1>1, DiskAssumption DEF Whole, Sectors
<1>2. CASE \E i \in DOMAIN Partitions : t = Partitions[i]
  <2>1. PICK i \in DOMAIN Partitions : t = Partitions[i]
    BY <1>2
  <2>2. t \in [start : 1 .. Total - 1, count : 1 .. Total - 1]
    <3>1. Partitions \in Seq([start : 1 .. Total - 1, count : 1 .. Total - 1])
      BY DiskAssumption
    <3>2. Partitions[i] \in [start : 1 .. Total - 1, count : 1 .. Total - 1]
      BY <3>1, ElementOf
    <3>3. QED
      BY <2>1, <3>2
  <2>3. t.start + t.count <= Total
    BY <2>1, DiskAssumption
  <2>4. QED
    BY <2>2, <2>3, DiskAssumption DEF Sectors
<1>3. QED
  BY <1>1, <1>2 DEF Regions

LEMMA RegionConstants ==
    /\ Whole \in Regions
    /\ NoRegion \notin Regions
    /\ \A r \in Regions : RoomFor(r) => Clear(r.start)
<1>1. NoRegion \notin Regions
  <2>1. SUFFICES ASSUME NoRegion \in Regions PROVE FALSE
    OBVIOUS
  <2>2. NoRegion.count \in 1 .. Total
    BY <2>1, RegionFacts
  <2>3. QED
    BY <2>2 DEF NoRegion
<1>2. ASSUME NEW r \in Regions, RoomFor(r) PROVE Clear(r.start)
  BY <1>2, RegionFacts, LayoutFacts DEF RoomFor, Clear, Sectors
<1>3. QED
  BY <1>1, <1>2 DEF Regions

(* The kinds of sectors are told apart by what is in them. *)
LEMMA ContentFacts ==
    /\ Blank \in Loose /\ Table \in Loose /\ Header \in Content
    /\ Header.kind = "header" /\ Blank.kind = "blank"
    /\ \A b \in Build, i \in Parts : Data(b, i) \in Loose
    /\ \A s \in Stages, t \in Regions, a \in Account \cup {NoAccount} : Record(s, t, a) \in Loose
    /\ \A v \in Nat, b \in Build : /\ Package(v, b) \in Content /\ Package(v, b).kind = "package"
                                   /\ Package(v, b).version = v /\ Package(v, b).build = b
    /\ Loose \subseteq Content
    /\ \A c \in Loose : c # Header /\ c.kind # "package"
BY DEF Loose, Content, Blank, Table, Header, Data, Record, Package

LEMMA ContentKinds ==
    ASSUME NEW c \in Content
    PROVE  /\ c.kind = "record" =>
                 c.stage \in Stages /\ c.target \in Regions /\ c.account \in Account \cup {NoAccount}
           /\ c.kind = "package" => c.version \in Nat /\ c.build \in Build
           /\ c # Header /\ c.kind # "package" => c \in Loose
BY DEF Loose, Content, Blank, Table, Header

LEMMA FirstIsMember ==
    ASSUME NEW S, S \subseteq Nat, S # {}
    PROVE  First(S) \in S
BY LeastOfNaturals DEF First
-----------------------------------------------------------------------------
(* Every write but the host's leaves the last sector alone, is no package  *)
(* and puts a header only where an image has room.                         *)
Harmless ==
    \/ disk' = disk
    \/ \E l \in Sectors, c \in Content :
          /\ l < PackageSector /\ c.kind # "package" /\ (c = Header => Clear(l))
          /\ disk' = [disk EXCEPT ![l] = c]

LEMMA WriteIsHarmless ==
    ASSUME NEW l \in Sectors, NEW c \in Content, NEW ok \in BOOLEAN, Write(l, c, ok),
           l < PackageSector, c.kind # "package", c = Header => Clear(l)
    PROVE  Harmless
BY DEF Write, Harmless

LEMMA HarmlessKeepsDisk ==
    ASSUME disk \in [Sectors -> Content], DiskOk, Harmless
    PROVE  /\ disk' \in [Sectors -> Content] /\ DiskOk'
           /\ disk'[PackageSector] = disk[PackageSector] /\ Announced' = Announced
<1>1. CASE disk' = disk
  BY <1>1 DEF DiskOk, Announced
<1>2. CASE disk' # disk
  <2>1. PICK l \in Sectors, c \in Content :
            /\ l < PackageSector /\ c.kind # "package" /\ (c = Header => Clear(l))
            /\ disk' = [disk EXCEPT ![l] = c]
    BY <1>2 DEF Harmless
  <2>2. disk' \in [Sectors -> Content]
    BY <2>1
  <2>3. disk'[PackageSector] = disk[PackageSector]
    BY <2>1, LayoutFacts
  <2>4. DiskOk'
    BY <2>1, <2>2 DEF DiskOk, Clear
  <2>5. QED
    BY <2>2, <2>3, <2>4 DEF Announced
<1>3. QED
  BY <1>1, <1>2

LEMMA PersistIsHarmless ==
    ASSUME NEW s \in Stages, NEW t \in Regions \cup {NoRegion}, NEW a \in Account \cup {NoAccount},
           NEW ok \in BOOLEAN, Persist(s, t, a, ok)
    PROVE  Harmless
<1>1. CASE StateSector(t) = 0
  BY <1>1 DEF Persist, Harmless
<1>2. CASE StateSector(t) # 0
  <2>1. t \in Regions
    BY <1>2 DEF StateSector, NoRegion
  <2>2. StateSector(t) \in Sectors /\ StateSector(t) < PackageSector
    BY <1>2, <2>1, RegionFacts, LayoutFacts DEF StateSector
  <2>3. Record(s, t, a) \in Loose
    BY <2>1, ContentFacts
  <2>4. Write(StateSector(t), Record(s, t, a), ok)
    BY <1>2 DEF Persist
  <2>5. QED
    BY <2>2, <2>3, <2>4, ContentFacts, WriteIsHarmless
<1>3. QED
  BY <1>1, <1>2

(* One write of an installation, setup's or the updater's. *)
LEMMA JobWritesFacts ==
    ASSUME Types, JobOk, NEW ok \in BOOLEAN, JobWrites(ok)
    PROVE  /\ Harmless /\ job' \in Jobs
           /\ job # NoJob /\ job.next \in 0 .. ImageSize
           /\ job.target.start + job.next \in Sectors
           /\ job.target.start + job.next < PackageSector
           /\ Write(job.target.start + job.next, JobSector(job), ok)
           /\ ok => job' = [job EXCEPT !.next = @ + 1]
           /\ ~ok => job' = NoJob
<1> USE LayoutFacts DEF Types
<1>1. job # NoJob /\ job.next \in 0 .. ImageSize /\ job.target \in Regions /\ Clear(job.target.start)
  BY DEF JobWrites, Idle, Jobs, JobOk
<1>2. /\ job.target.start + job.next \in Sectors
      /\ job.target.start + job.next < PackageSector
  BY <1>1, RegionFacts, SMTT(30) DEF Clear
<1>3. /\ JobSector(job) \in Content /\ JobSector(job).kind # "package"
      /\ JobSector(job) = Header => Clear(job.target.start + job.next)
  <2>1. CASE job.next = 0
    BY <2>1, <1>1, RegionFacts, ContentFacts DEF JobSector
  <2>2. CASE job.next # 0
    <3>1. job.image[job.next] \in Loose
      BY <1>1, <2>2 DEF JobOk
    <3>2. QED
      BY <2>2, <3>1, ContentFacts DEF JobSector
  <2>3. QED
    BY <2>1, <2>2
<1>4. /\ Write(job.target.start + job.next, JobSector(job), ok)
      /\ ok => job' = [job EXCEPT !.next = @ + 1]
      /\ ~ok => job' = NoJob
  BY DEF JobWrites
<1>5. Harmless
  BY <1>2, <1>3, <1>4, WriteIsHarmless
<1>6. job' \in Jobs
  <2>1. NoJob \in Jobs
    BY DEF NoJob, Jobs
  <2>2. CASE ok
    <3>1. job \in Jobs /\ job' = [job EXCEPT !.next = @ + 1]
      BY <1>4, <2>2
    <3>2. QED
      BY <1>1, <3>1 DEF Jobs
  <2>3. QED
    BY <1>4, <2>1, <2>2
<1>7. QED
  BY <1>1, <1>2, <1>4, <1>5, <1>6
-----------------------------------------------------------------------------
LEMMA RecordFacts ==
    ASSUME NEW t \in Regions, NEW bad, disk \in [Sectors -> Content], RecordReadable(t, bad)
    PROVE  /\ disk[StateSector(t)].target \in Regions
           /\ disk[StateSector(t)].account \in Account \cup {NoAccount}
<1>1. StateSector(t) \in Sectors
  BY RegionFacts, LayoutFacts DEF RecordReadable, StateSector
<1>2. QED
  BY <1>1, ContentKinds DEF RecordReadable

(* What a start or an update finds on the drive. *)
LEMMA ExistingFacts ==
    ASSUME NEW bad, Existing(bad) # <<>>
    PROVE  /\ Existing(bad)[1] \in Regions
           /\ disk[Existing(bad)[1].start] = Header
<1>1. Visible(bad) \in Seq(Regions) /\ \A i \in DOMAIN Visible(bad) : Visible(bad)[i] \in Regions
  BY DiskAssumption, ElementOf DEF Visible, Regions
<1>2. CASE HeaderAt(0, bad)
  BY <1>2, RegionConstants DEF Existing, HeaderAt, Whole
<1>3. CASE ~HeaderAt(0, bad)
  <2> DEFINE found == {i \in DOMAIN Visible(bad) : HeaderAt(Visible(bad)[i].start, bad)}
  <2>1. found # {} /\ Existing(bad) = <<Visible(bad)[First(found)]>>
    BY <1>3 DEF Existing
  <2>2. found \subseteq Nat
    BY <1>1, ElementOf
  <2>3. First(found) \in found
    BY <2>1, <2>2, FirstIsMember
  <2>4. QED
    BY <1>1, <2>1, <2>3 DEF HeaderAt
<1>4. QED
  BY <1>2, <1>3

LEMMA PendingFacts ==
    ASSUME NEW bad, disk \in [Sectors -> Content], Pending(bad) # <<>>
    PROVE  Pending(bad)[1].target \in Regions
<1> DEFINE places == IF Visible(bad) = <<>> THEN <<Whole>> ELSE Visible(bad)
           found == {i \in DOMAIN places : /\ RecordReadable(places[i], bad)
                                           /\ disk[StateSector(places[i])].stage = "PENDING_INSTALL"}
<1>1. DOMAIN places \subseteq Nat /\ \A i \in DOMAIN places : places[i] \in Regions
  <2>1. CASE Visible(bad) = <<>>
    <3>1. places = <<Whole>>
      BY <2>1
    <3>2. QED
      BY <3>1, RegionConstants
  <2>2. CASE Visible(bad) # <<>>
    BY <2>2, DiskAssumption, ElementOf, SMTT(30) DEF Visible, Regions
  <2>3. QED
    BY <2>1, <2>2
<1>2. found # {} /\ Pending(bad) = <<disk[StateSector(places[First(found)])]>>
  BY DEF Pending
<1>3. First(found) \in found
  BY <1>1, <1>2, FirstIsMember
<1>4. PICK t \in Regions : RecordReadable(t, bad) /\ Pending(bad) = <<disk[StateSector(t)]>>
  BY <1>1, <1>2, <1>3
<1>5. disk[StateSector(t)].target \in Regions
  BY <1>4, RecordFacts
<1>6. QED
  BY <1>4, <1>5

LEMMA LoadedFacts ==
    ASSUME NEW bad, disk \in [Sectors -> Content], Loaded(bad) # <<>>
    PROVE  /\ Loaded(bad)[1].target \in Regions
           /\ Loaded(bad)[1].account \in Account \cup {NoAccount}
<1>1. /\ Existing(bad) # <<>> /\ RecordReadable(Existing(bad)[1], bad)
      /\ Loaded(bad) = <<disk[StateSector(Existing(bad)[1])]>>
  BY DEF Loaded
<1>2. QED
  BY <1>1, ExistingFacts, RecordFacts
-----------------------------------------------------------------------------
(* What setup keeps in memory. *)
MemoryOk ==
    /\ phase \in Phases /\ media \in Build /\ seen \in {Partitions, <<>>}
    /\ region \in Regions \cup {NoRegion}
    /\ install \in [complete : BOOLEAN, failed : BOOLEAN, started : BOOLEAN]
    /\ account \in Account \cup {NoAccount}
    /\ lock \in [visible : BOOLEAN, input : Account \cup {NoAccount}, error : BOOLEAN]
    /\ created \in [Regions -> Account \cup {NoAccount}]
    /\ job \in Jobs /\ JobOk

LEMMA NoJobOk == NoJob \in Jobs
BY LayoutFacts DEF NoJob, Jobs

LEMMA PowerOnStep ==
    ASSUME Types, MemoryOk, upd.at = "idle", upd' = upd, NEW bad \in BadSectors, PowerOn(bad)
    PROVE  Harmless /\ MemoryOk'
<1>1. /\ disk' = disk /\ created' = created /\ media' \in Media
      /\ seen' = Visible(bad) /\ install' = Clean /\ lock' = Closed /\ job' = NoJob
  BY DEF PowerOn
<1>2. disk \in [Sectors -> Content]
  BY DEF Types, SetupTypeOK
<1>3. /\ region' \in Regions \cup {NoRegion}
      /\ account' \in Account \cup {NoAccount}
      /\ phase' \in Phases
  <2>1. CASE Pending(bad) # <<>>
    BY <2>1, <1>2, PendingFacts DEF PowerOn, Phases
  <2>2. CASE Pending(bad) = <<>> /\ Loaded(bad) # <<>>
    BY <2>2, <1>2, LoadedFacts DEF PowerOn, Phases
  <2>3. CASE Pending(bad) = <<>> /\ Loaded(bad) = <<>>
    BY <2>3 DEF PowerOn, Phases
  <2>4. QED
    BY <2>1, <2>2, <2>3
<1>4. QED
  BY <1>1, <1>3, NoJobOk, DiskAssumption
     DEF MemoryOk, JobOk, Harmless, Clean, Closed, Visible

LEMMA PowerCutStep ==
    ASSUME Types, MemoryOk, PowerCut, upd' \in {upd, NoUpdate}
    PROVE  Harmless /\ MemoryOk'
BY NoJobOk DEF PowerCut, MemoryOk, JobOk, Harmless, Clean, Closed, Phases

LEMMA ImageFacts ==
    ASSUME NEW b \in Build
    PROVE  /\ Image(b) \in Seq(Content) /\ Len(Image(b)) = ImageSize
           /\ \A i \in Parts : Image(b)[i] \in Loose
<1>1. \A i \in Parts : Image(b)[i] = Data(b, i) /\ Data(b, i) \in Loose
  BY ContentFacts DEF Image
<1>2. Image(b) \in [1 .. ImageSize -> Content]
  BY <1>1, LayoutFacts, ContentFacts DEF Image
<1>3. QED
  BY <1>1, <1>2, LayoutFacts

LEMMA InstallingStep ==
    ASSUME Types, MemoryOk, upd.at = "idle", upd' = upd,
           \/ InstallRefused \/ InstallBegins \/ Reboots
           \/ \E ok \in BOOLEAN : InstallWrites(ok) \/ InstallEnds(ok)
    PROVE  Harmless /\ MemoryOk'
<1> USE DEF MemoryOk
<1>1. CASE InstallRefused
  BY <1>1 DEF InstallRefused, JobOk, Harmless, Idle
<1>2. CASE InstallBegins
  <2>1. /\ disk' = disk /\ phase = "INSTALLING" /\ ~install.started /\ RoomFor(region)
        /\ job' = StartJob(Image(media), region)
        /\ UNCHANGED <<phase, media, seen, region, install, account, lock, created>>
    BY <1>2 DEF InstallBegins
  <2>2. region \in Regions
    BY <2>1, LayoutFacts DEF RoomFor, NoRegion
  <2>3. Clear(region.start)
    BY <2>1, <2>2, RegionConstants
  <2>4. job' \in Jobs
    BY <2>1, <2>2, ImageFacts, LayoutFacts DEF Jobs, StartJob
  <2>5. JobOk'
    BY <2>1, <2>2, <2>3, ImageFacts DEF JobOk, StartJob, Clear
  <2>6. QED
    BY <2>1, <2>4, <2>5 DEF Harmless
<1>3. CASE Reboots
  <2>1. job = NoJob
    BY <1>3 DEF Reboots, JobOk
  <2>2. QED
    BY <1>3, <2>1, NoJobOk DEF Reboots, JobOk, Harmless, Clean, Phases
<1>4. ASSUME NEW ok \in BOOLEAN, InstallWrites(ok)
      PROVE  Harmless /\ MemoryOk'
  <2>1. /\ JobWrites(ok) /\ phase = "INSTALLING"
        /\ install' = IF ok THEN install ELSE [complete |-> FALSE, failed |-> TRUE, started |-> TRUE]
        /\ UNCHANGED <<phase, media, seen, region, account, lock, created>>
    BY <1>4 DEF InstallWrites
  <2>2. /\ Harmless /\ job' \in Jobs /\ job # NoJob
        /\ ok => job' = [job EXCEPT !.next = @ + 1]
        /\ ~ok => job' = NoJob
    BY <2>1, JobWritesFacts
  <2>3. JobOk'
    <3>1. CASE ok
      BY <2>1, <2>2, <3>1 DEF JobOk, Jobs, Clear
    <3>2. CASE ~ok
      BY <2>1, <2>2, <3>2 DEF JobOk
    <3>3. QED
      BY <3>1, <3>2
  <2>4. QED
    BY <2>1, <2>2, <2>3
<1>5. ASSUME NEW ok \in BOOLEAN, InstallEnds(ok)
      PROVE  Harmless /\ MemoryOk'
  <2>1. Harmless
    <3>1. PICK s \in Stages, a \in Account \cup {NoAccount} : Persist(s, region, a, ok)
      BY <1>5 DEF InstallEnds, Stages
    <3>2. QED
      BY <3>1, PersistIsHarmless
  <2>2. QED
    BY <1>5, <2>1, NoJobOk DEF InstallEnds, JobOk
<1>6. QED
  BY <1>1, <1>2, <1>3, <1>4, <1>5

LEMMA ScreenStep ==
    ASSUME Types, MemoryOk, upd.at = "idle", upd' = upd,
           \/ SetupClick \/ \E p \in Account : TypePassword(p)
           \/ \E ok \in BOOLEAN : OobeEnds(ok)
           \/ OobeGoesOn
    PROVE  Harmless /\ MemoryOk'
<1> USE DEF MemoryOk
<1>1. CASE ClickNext \/ ClickSkip
  BY <1>1 DEF ClickNext, ClickSkip, Phases, Harmless, JobOk
<1>2. CASE ShowPrompt \/ Unlock
  BY <1>2 DEF ShowPrompt, Unlock, Phases, Harmless, JobOk
<1>3. CASE OobeGoesOn
  <2>1. phase' \in Phases /\ phase # "INSTALLING"
    BY <1>3 DEF OobeGoesOn, After, Phases
  <2>2. QED
    BY <1>3, <2>1 DEF OobeGoesOn, Harmless, JobOk
<1>4. ASSUME NEW t \in Regions, ClickInstallRefused(t)
      PROVE  Harmless /\ MemoryOk'
  BY <1>4 DEF ClickInstallRefused, Harmless, JobOk
<1>5. ASSUME NEW t \in Regions, NEW ok \in BOOLEAN, ClickInstall(t, ok)
      PROVE  Harmless /\ MemoryOk'
  <2>1. Harmless
    <3>1. PICK s \in Stages, a \in Account \cup {NoAccount} : Persist(s, t, a, ok)
      BY <1>5 DEF ClickInstall, Stages
    <3>2. QED
      BY <3>1, PersistIsHarmless
  <2>2. QED
    BY <1>5, <2>1 DEF ClickInstall, JobOk, Clean, Phases
<1>6. ASSUME NEW a \in Account, NEW ok \in BOOLEAN, CreateAccount(a, ok)
      PROVE  Harmless /\ MemoryOk'
  <2>1. Harmless
    BY <1>6, PersistIsHarmless DEF CreateAccount, Stages
  <2>2. QED
    BY <1>6, <2>1 DEF CreateAccount, JobOk, Phases
<1>7. ASSUME NEW p \in Account, TypePassword(p)
      PROVE  Harmless /\ MemoryOk'
  BY <1>7 DEF TypePassword, Harmless, JobOk
<1>8. ASSUME NEW ok \in BOOLEAN, OobeEnds(ok)
      PROVE  Harmless /\ MemoryOk'
  <2>1. Harmless
    BY <1>8, PersistIsHarmless DEF OobeEnds, Stages
  <2>2. QED
    BY <1>8, <2>1 DEF OobeEnds, JobOk, Phases
<1>9. QED
  BY <1>1, <1>2, <1>3, <1>4, <1>5, <1>6, <1>7, <1>8 DEF SetupClick
-----------------------------------------------------------------------------
LEMMA TouchesFacts ==
    ASSUME Types, NEW who \in {"host", "record", "update"}, Touches(who)
    PROVE  /\ touched' \subseteq Sectors \X {"host", "record", "update"}
           /\ disk' = disk => touched' = touched
           /\ touched' = {} => /\ touched = {} /\ disk'[PackageSector] = disk[PackageSector]
                              /\ \A l \in StagedSectors : disk'[l] = disk[l]
           /\ \A l \in StagedSectors, w \in {"host", "record", "update"} :
                 disk'[l] = disk[l] /\ <<l, w>> \in touched => <<l, w>> \in touched'
           /\ \A l \in StagedSectors : disk'[l] # disk[l] => <<l, who>> \in touched'
<1> DEFINE written == {l \in StagedSectors \cup {PackageSector} : disk'[l] # disk[l]}
<1>1. touched' = {x \in touched : x[1] \notin written} \cup (written \X {who})
  BY DEF Touches
<1>2. /\ \A i \in Parts : StagedSector(i) \in StagedSectors
      /\ StagedSectors \subseteq Sectors /\ PackageSector \in Sectors
  BY LayoutFacts DEF StagedSectors
<1>3. touched \subseteq Sectors \X {"host", "record", "update"}
  BY DEF Types
<1>4. touched' \subseteq Sectors \X {"host", "record", "update"}
  <2>1. written \subseteq Sectors
    BY <1>2
  <2>2. QED
    BY <1>1, <1>3, <2>1
<1>5. disk' = disk => touched' = touched
  <2>1. disk' = disk => written = {}
    OBVIOUS
  <2>2. QED
    BY <1>1, <2>1
<1>6. ASSUME touched' = {}
      PROVE  written = {} /\ touched = {}
  <2>1. ASSUME NEW l \in written PROVE FALSE
    <3>1. <<l, who>> \in touched'
      BY <1>1
    <3>2. QED
      BY <1>6, <3>1
  <2>2. written = {}
    BY <2>1
  <2>3. QED
    BY <1>1, <1>6, <2>2
<1>7. ASSUME NEW l \in StagedSectors
      PROVE  /\ \A w \in {"host", "record", "update"} :
                   disk'[l] = disk[l] /\ <<l, w>> \in touched => <<l, w>> \in touched'
             /\ disk'[l] # disk[l] => <<l, who>> \in touched'
  BY <1>1, <1>2
<1>8. QED
  BY <1>2, <1>4, <1>5, <1>6, <1>7

(* Setup or the updater writes while the host may be staging. *)
LEMMA OverwriteKeepsStaged ==
    ASSUME Types, HostOk, StagedOk, Harmless, disk' \in [Sectors -> Content], Announced' = Announced,
           UNCHANGED hostVars,
           NEW who \in {"record", "update"}, Touches(who)
    PROVE  StagedOk'
<1>1. host' = host
  BY DEF hostVars
<1>2. who \in {"host", "record", "update"} /\ Touches(who)
  OBVIOUS
<1>3. ASSUME NEW i \in Parts, disk'[StagedSector(i)] # disk[StagedSector(i)] \/ Overwritten(StagedSector(i))
      PROVE  Overwritten(StagedSector(i))'
  <2>1. StagedSector(i)' = StagedSector(i) /\ StagedSector(i) \in StagedSectors
    BY DEF StagedSector, StagedSectors, PackageSector
  <2>2. CASE disk'[StagedSector(i)] # disk[StagedSector(i)]
    BY <1>2, <2>1, <2>2, TouchesFacts DEF Overwritten
  <2>3. CASE disk'[StagedSector(i)] = disk[StagedSector(i)]
    BY <1>2, <1>3, <2>1, <2>3, TouchesFacts DEF Overwritten
  <2>4. QED
    BY <2>2, <2>3
<1>4. ASSUME host.step = "stage", NEW i \in Parts, i < host.next
      PROVE  disk'[StagedSector(i)] = Data(host.build, i) \/ Overwritten(StagedSector(i))'
  <2>1. disk[StagedSector(i)] = Data(host.build, i) \/ Overwritten(StagedSector(i))
    BY <1>4 DEF StagedOk
  <2>2. QED
    BY <2>1, <1>3
<1>5. ASSUME touched' = {}, Announced # NoOffer, NEW i \in Parts
      PROVE  disk'[StagedSector(i)] = Data(Announced.build, i)
  BY <1>2, <1>5, TouchesFacts DEF StagedOk, StagedSectors
<1>6. QED
  BY <1>1, <1>4, <1>5 DEF StagedOk, StagedSector, PackageSector

LEMMA LedgerStays ==
    ASSUME LedgerOk, Announced' = Announced, UNCHANGED <<hostVars, done>>,
           upd' = NoUpdate \/ (upd.at # "idle" /\ upd'.pkg = upd.pkg) \/ upd' = upd
    PROVE  LedgerOk'
BY DEF LedgerOk, Published, InstalledNotOfferedAgain, hostVars, NoUpdate

LEMMA SetupKeeps ==
    ASSUME IInv, SetupStep
    PROVE  IInv'
<1> USE DEF IInv
<1>1. upd.at = "idle" /\ upd' = upd /\ upd = NoUpdate /\ available' \in BOOLEAN
  <2>1. upd = NoUpdate
    BY DEF SetupStep, Updating
  <2>2. \/ upd' = NoUpdate /\ available' = FALSE
        \/ upd' = upd /\ available' = available
    BY DEF SetupStep, GuestStops, GuestStays, guestVars
  <2>3. QED
    BY <2>1, <2>2 DEF NoUpdate, Types
<1>2. MemoryOk
  BY DEF MemoryOk, Types, SetupTypeOK
<1>3. Harmless /\ MemoryOk'
  <2>1. SetupNext
    BY DEF SetupStep
  <2>2. CASE \E bad \in BadSectors : PowerOn(bad)
    BY <1>1, <1>2, <2>2, PowerOnStep
  <2>3. CASE PowerCut
    BY <1>1, <1>2, <2>3, PowerCutStep
  <2>4. CASE \/ SetupClick \/ \E p \in Account : TypePassword(p)
             \/ \E ok \in BOOLEAN : OobeEnds(ok)
             \/ OobeGoesOn
    BY <1>1, <1>2, <2>4, ScreenStep
  <2>5. CASE \/ InstallRefused \/ InstallBegins \/ Reboots
             \/ \E ok \in BOOLEAN : InstallWrites(ok) \/ InstallEnds(ok)
    BY <1>1, <1>2, <2>5, InstallingStep
  <2>6. QED
    BY <2>1, <2>2, <2>3, <2>4, <2>5 DEF SetupNext
<1>4. /\ disk' \in [Sectors -> Content] /\ DiskOk'
      /\ disk'[PackageSector] = disk[PackageSector] /\ Announced' = Announced
  BY <1>3, HarmlessKeepsDisk DEF Types, SetupTypeOK
<1>5. UNCHANGED <<hostVars, mixed, done>> /\ Touches("record")
  BY DEF SetupStep
<1>6. Types'
  <2>1. SetupTypeOK'
    BY <1>3, <1>4 DEF MemoryOk, SetupTypeOK, Jobs
  <2>2. HostTypeOK'
    BY <1>5 DEF Types, HostTypeOK, hostVars
  <2>3. QED
    BY <1>1, <1>3, <1>5, <2>1, <2>2, TouchesFacts DEF Types, MemoryOk
<1>7. JobOk' /\ UpdOk'
  BY <1>1, <1>3 DEF MemoryOk, UpdOk, NoUpdate, Updates
<1>8. HostOk'
  BY <1>5 DEF HostOk, hostVars
<1>9. LedgerOk'
  BY <1>1, <1>4, <1>5, LedgerStays
<1>10. StagedOk'
  BY <1>3, <1>4, <1>5, OverwriteKeepsStaged
<1>11. GuestOk'
  BY <1>1 DEF GuestOk
<1>12. QED
  BY <1>4, <1>6, <1>7, <1>8, <1>9, <1>10, <1>11
-----------------------------------------------------------------------------
(* The host's steps that write nothing. *)
LEMMA HostBookkeeping ==
    ASSUME IInv, HostStep, Duplicate \/ StageBegins \/ Archived \/ Saved \/ HostFails
    PROVE  IInv'
<1> USE DEF IInv
<1>1. disk' = disk /\ UNCHANGED <<setupVars, guestVars, mixed, done>>
  BY DEF HostStep, Duplicate, StageBegins, Archived, Saved, HostFails
<1>2. ~StageHeader
  BY DEF Duplicate, StageBegins, Archived, Saved, HostFails, StageHeader, AtRest
<1>3. touched' = touched
  BY <1>1, <1>2, TouchesFacts DEF HostStep
<1>4. HostTypeOK /\ ImageSize \in Nat /\ MaxVersion \in Nat
  BY LayoutFacts, ServiceAssumption DEF Types
<1>5. /\ HostTypeOK' /\ HostOk'
      /\ \A v \in Nat : Published(v) => Published(v)'
      /\ slipped \subseteq slipped'
      /\ host'.step = "stage" => host'.next = 1
  <2>1. CASE Duplicate
    BY <1>4, <2>1 DEF Duplicate, HostTypeOK, HostOk, Published, AtRest
  <2>2. CASE StageBegins
    BY <1>4, <2>2 DEF StageBegins, NextVersion, HostTypeOK, HostOk, Published, AtRest
  <2>3. CASE Archived
    BY <1>4, <2>3 DEF Archived, HostTypeOK, HostOk, Published, AtRest
  <2>4. CASE Saved
    BY <1>4, <2>4 DEF Saved, HostTypeOK, HostOk, Published, AtRest
  <2>5. CASE HostFails
    <3>1. /\ host' = AtRest /\ saved' = saved /\ inbox' = inbox
          /\ host.step \in {"archive", "save"} => slipped' = slipped \cup {host.version}
          /\ host.step \notin {"archive", "save"} => slipped' = slipped
      BY <2>5 DEF HostFails
    <3>2. host.step \in {"archive", "save"} => host.version \in 1 .. MaxVersion
      BY <1>4 DEF HostTypeOK, HostOk
    <3>3. slipped' \in SUBSET (1 .. MaxVersion) /\ slipped \subseteq slipped'
      BY <1>4, <3>1, <3>2 DEF HostTypeOK
    <3>4. AtRest \in [step : {"poll", "stage", "archive", "save"}, next : 0 .. ImageSize + 1,
                     build : Build \cup {None}, version : 0 .. MaxVersion]
      BY <1>4 DEF AtRest
    <3>5. HostTypeOK' /\ HostOk'
      BY <1>4, <3>1, <3>3, <3>4 DEF HostTypeOK, HostOk, AtRest
    <3>6. QED
      BY <3>1, <3>3, <3>5 DEF Published, AtRest
  <2>6. QED
    BY <2>1, <2>2, <2>3, <2>4, <2>5
<1>6. Announced' = Announced /\ upd' = upd /\ job' = job
  BY <1>1 DEF Announced, guestVars, setupVars
<1>7. Types'
  BY <1>1, <1>3, <1>5 DEF Types, SetupTypeOK, setupVars, guestVars
<1>8. DiskOk' /\ JobOk' /\ UpdOk' /\ GuestOk'
  BY <1>1, <1>3, <1>6 DEF DiskOk, JobOk, UpdOk, GuestOk, Clear, setupVars, guestVars, NoUpdate
<1>9. LedgerOk'
  <2>1. /\ Announced # NoOffer => Announced.version \in Nat
        /\ upd.at # "idle" => upd.pkg.version \in Nat
        /\ \A p \in done.installed : p.version \in Nat
    BY <1>4, LayoutFacts, ContentKinds DEF Announced, Types, SetupTypeOK, Updates, UpdOk, Offers
  <2>2. QED
    BY <1>1, <1>5, <1>6, <2>1 DEF LedgerOk, InstalledNotOfferedAgain
<1>10. StagedOk'
  BY <1>1, <1>3, <1>5, <1>6 DEF StagedOk, Overwritten, StagedSector, PackageSector, Parts
<1>11. QED
  BY <1>5, <1>7, <1>8, <1>9, <1>10

LEMMA StageBlobKeeps ==
    ASSUME IInv, HostStep, StageBlob
    PROVE  IInv'
<1> USE DEF IInv
<1> DEFINE i == host.next
           l == StagedSector(i)
<1>1. i \in Parts /\ host.build \in Build /\ host.step = "stage"
  BY LayoutFacts DEF StageBlob, HostOk
<1>2. l \in Sectors /\ l < PackageSector /\ l \in StagedSectors
  BY <1>1, LayoutFacts DEF StagedSectors
<1>3. /\ disk' = [disk EXCEPT ![l] = Data(host.build, i)]
      /\ host' = [host EXCEPT !.next = @ + 1]
      /\ UNCHANGED <<inbox, saved, slipped>>
  BY DEF StageBlob
<1>4. Data(host.build, i) \in Loose
  BY <1>1, ContentFacts
<1>5. UNCHANGED <<setupVars, guestVars, mixed, done>> /\ Touches("host")
  BY <1>1, LayoutFacts DEF HostStep, StageBlob, StageHeader, HostOk
<1>6. Harmless
  BY <1>2, <1>3, <1>4, ContentFacts DEF Harmless
<1>7. /\ disk' \in [Sectors -> Content] /\ DiskOk'
      /\ disk'[PackageSector] = disk[PackageSector] /\ Announced' = Announced
  BY <1>6, HarmlessKeepsDisk DEF Types, SetupTypeOK
<1>8. Types'
  <2>1. HostTypeOK'
    <3>1. /\ host \in [step : {"poll", "stage", "archive", "save"}, next : 0 .. ImageSize + 1,
                       build : Build \cup {None}, version : 0 .. MaxVersion]
          /\ host.next + 1 \in 0 .. ImageSize + 1
      BY <1>1, LayoutFacts DEF Types, HostTypeOK
    <3>2. QED
      BY <1>3, <3>1 DEF Types, HostTypeOK
  <2>2. SetupTypeOK'
    BY <1>5, <1>7 DEF Types, SetupTypeOK, setupVars
  <2>3. QED
    BY <1>5, <2>1, <2>2, TouchesFacts DEF Types, setupVars, guestVars
<1>9. JobOk' /\ UpdOk' /\ HostOk'
  <2>1. host \in [step : {"poll", "stage", "archive", "save"}, next : 0 .. ImageSize + 1,
                   build : Build \cup {None}, version : 0 .. MaxVersion]
    BY DEF Types, HostTypeOK
  <2>2. HostOk'
    BY <1>1, <1>3, <2>1, LayoutFacts DEF HostOk, Parts
  <2>3. QED
    BY <1>5, <2>2 DEF JobOk, UpdOk, Clear, setupVars, guestVars, NoUpdate
<1>10. LedgerOk'
  BY <1>1, <1>3, <1>5, <1>7 DEF LedgerOk, Published, InstalledNotOfferedAgain, guestVars, Types, HostTypeOK
<1>11. touched' = {} => touched = {} /\ disk' = disk
  <2>1. ASSUME touched' = {}
        PROVE  disk' = disk
    <3>1. disk'[l] = disk[l]
      BY <1>2, <2>1, TouchesFacts, <1>5
    <3>2. QED
      BY <1>2, <1>3, <3>1 DEF Types, SetupTypeOK
  <2>2. QED
    BY <1>5, <2>1, TouchesFacts
<1>12. StagedOk'
  <2>1. ASSUME NEW k \in Parts, k < host'.next
        PROVE  disk'[StagedSector(k)] = Data(host.build, k) \/ Overwritten(StagedSector(k))'
    <3>1. CASE k = i
      BY <1>2, <1>3, <3>1 DEF Types, SetupTypeOK
    <3>2. CASE k # i
      <4>1. k < host.next
        BY <1>1, <1>3, <2>1, <3>2, LayoutFacts DEF Types, HostTypeOK
      <4>2. disk[StagedSector(k)] = Data(host.build, k) \/ Overwritten(StagedSector(k))
        BY <1>1, <4>1 DEF StagedOk
      <4>3. /\ StagedSector(k) # l /\ StagedSector(k) \in Sectors /\ StagedSector(k) \in StagedSectors
            /\ StagedSector(k)' = StagedSector(k)
        BY <1>1, <3>2, LayoutFacts DEF StagedSectors, StagedSector, PackageSector
      <4>4. disk'[StagedSector(k)] = disk[StagedSector(k)]
        BY <1>3, <4>3 DEF Types, SetupTypeOK
      <4>5. Overwritten(StagedSector(k)) => Overwritten(StagedSector(k))'
        BY <1>5, <4>3, <4>4, TouchesFacts DEF Overwritten
      <4>6. QED
        BY <4>2, <4>4, <4>5
    <3>3. QED
      BY <3>1, <3>2
  <2>2. host'.build = host.build
    BY <1>3 DEF Types, HostTypeOK
  <2>3. QED
    BY <1>7, <1>11, <2>1, <2>2 DEF StagedOk, StagedSector, PackageSector, Parts
<1>13. GuestOk'
  BY <1>5, <1>7, <1>11 DEF GuestOk, guestVars, setupVars
<1>14. QED
  BY <1>7, <1>8, <1>9, <1>10, <1>12, <1>13

LEMMA StageHeaderKeeps ==
    ASSUME IInv, HostStep, StageHeader
    PROVE  IInv'
<1> USE DEF IInv
<1> DEFINE pkg == [version |-> host.version, build |-> host.build]
<1>1. /\ host.step = "stage" /\ host.next = ImageSize + 1 /\ host.build \in Build
      /\ host.version = saved.version + 1 /\ host.version \in 1 .. MaxVersion
  BY ServiceAssumption DEF StageHeader, HostOk, Types, HostTypeOK
<1>2. /\ disk' = [disk EXCEPT ![PackageSector] = Package(host.version, host.build)]
      /\ host' = [host EXCEPT !.step = "archive"]
      /\ UNCHANGED <<inbox, saved, slipped>>
      /\ UNCHANGED <<setupVars, guestVars, mixed, done>>
      /\ ~Updating => touched' = {x \in touched : x[2] # "host"}
      /\ Updating => Touches("host")
  BY DEF HostStep, StageHeader, Announces
<1>3. /\ Package(host.version, host.build) \in Content
      /\ Package(host.version, host.build).kind = "package"
      /\ Package(host.version, host.build).version = host.version
      /\ Package(host.version, host.build).build = host.build
      /\ Package(host.version, host.build) # Header
  BY <1>1, ContentFacts
<1>4. disk \in [Sectors -> Content] /\ disk' \in [Sectors -> Content]
  BY <1>2, <1>3 DEF Types, SetupTypeOK
<1>5. /\ disk'[PackageSector] = Package(host.version, host.build)
      /\ \A i \in Parts : disk'[StagedSector(i)] = disk[StagedSector(i)]
      /\ \A l \in Sectors : l < PackageSector => disk'[l] = disk[l]
  BY <1>2, <1>4, LayoutFacts
<1>6. Announced' = pkg /\ pkg \in Offers /\ pkg # NoOffer
  BY <1>1, <1>3, <1>5 DEF Announced, PackageSector, Offers, NoOffer
<1>7. Types'
  <2>1. HostTypeOK'
    BY <1>2 DEF Types, HostTypeOK
  <2>2. SetupTypeOK'
    BY <1>2, <1>4 DEF Types, SetupTypeOK, setupVars
  <2>3. touched' \subseteq Sectors \X {"host", "record", "update"}
    BY <1>2, TouchesFacts DEF Types
  <2>4. QED
    BY <1>2, <2>1, <2>2, <2>3 DEF Types, setupVars, guestVars
<1>8. DiskOk'
  <2>1. ASSUME NEW l \in Sectors
        PROVE  /\ disk'[l] = Header => Clear(l)
               /\ disk'[l].kind = "package" => l = PackageSector /\ disk'[l].version \in 1 .. MaxVersion
    <3>1. CASE l = PackageSector
      BY <1>1, <1>3, <1>5, <3>1
    <3>2. CASE l # PackageSector
      BY <1>5, <3>2, LayoutFacts DEF DiskOk
    <3>3. QED
      BY <3>1, <3>2
  <2>2. QED
    BY <2>1 DEF DiskOk, Clear, PackageSector, ImageSize, Sectors
<1>9. JobOk' /\ UpdOk'
  BY <1>2 DEF JobOk, UpdOk, Clear, setupVars, guestVars, NoUpdate
<1>10. HostOk'
  BY <1>1, <1>2 DEF HostOk, Types, HostTypeOK, StageHeader
<1>11. LedgerOk'
  <2>1. host'.step = "archive" /\ host'.version = host.version
    BY <1>2 DEF Types, HostTypeOK
  <2>2. \A v : Published(v) => Published(v)'
    BY <1>1, <1>2 DEF Published
  <2>3. Published(Announced.version)'
    BY <1>6, <2>1 DEF Published
  <2>4. pkg \in done.installed => host.version \in slipped
    <3>1. Published(host.version) => host.version \in slipped
      BY <1>1 DEF Published, Types, HostTypeOK
    <3>2. QED
      BY <3>1 DEF LedgerOk
  <2>5. upd' = upd /\ done' = done /\ slipped' = slipped
    BY <1>2 DEF guestVars
  <2>6. /\ Announced' # NoOffer => Published(Announced.version)'
        /\ Announced' \in done'.installed => Announced'.version \in slipped'
    BY <1>6, <2>3, <2>4, <2>5
  <2>7. /\ upd'.at # "idle" => Published(upd.pkg.version)'
        /\ \A p \in done'.installed : Published(p.version)'
    BY <2>2, <2>5 DEF LedgerOk
  <2>8. QED
    BY <2>6, <2>7 DEF LedgerOk, InstalledNotOfferedAgain
<1>12. (Updating /\ touched' = {}) => touched = {} /\ Announced = Announced'
  BY <1>2, TouchesFacts DEF Announced, PackageSector
<1>13. StagedOk'
  <2>1. ASSUME touched' = {}, NEW i \in Parts
        PROVE  disk[StagedSector(i)] = Data(host.build, i)
    <3>1. CASE Updating
      BY <1>6, <1>12, <2>1, <3>1 DEF StagedOk
    <3>2. CASE ~Updating
      <4>1. ~Overwritten(StagedSector(i))
        <5>1. \A x \in touched : x[2] = "host"
          BY <1>2, <2>1, <3>2
        <5>2. QED
          BY <5>1 DEF Overwritten
      <4>2. i < host.next
        BY <1>1, LayoutFacts
      <4>3. QED
        BY <1>1, <4>1, <4>2 DEF StagedOk
    <3>3. QED
      BY <3>1, <3>2
  <2>2. host'.step = "archive"
    BY <1>2 DEF Types, HostTypeOK
  <2>3. QED
    BY <1>5, <1>6, <2>1, <2>2 DEF StagedOk, StagedSector, PackageSector, Parts
<1>14. GuestOk'
  <2>1. SUFFICES ASSUME touched' = {}, upd'.at # "idle" PROVE GuestOk'
    BY DEF GuestOk
  <2>2. upd' = upd /\ job' = job /\ upd.at # "idle" /\ Updating
    BY <1>2, <2>1 DEF guestVars, setupVars, Updating, NoUpdate
  <2>3. touched = {} /\ Announced' = Announced
    BY <1>12, <2>1, <2>2
  <2>4. upd.at = "write" =>
           /\ disk'[job.target.start] = disk[job.target.start]
           /\ \A i \in Parts : disk'[job.target.start + i] = disk[job.target.start + i]
    <3>1. ASSUME upd.at = "write"
          PROVE  job.target.start \in Nat /\ job.target.start + ImageSize < PackageSector
      <4>1. job.target \in Regions /\ Clear(job.target.start)
        BY <3>1 DEF UpdOk
      <4>2. QED
        BY <4>1, RegionFacts, LayoutFacts DEF Clear
    <3>2. ASSUME upd.at = "write", NEW k \in 0 .. ImageSize
          PROVE  job.target.start + k \in Sectors /\ job.target.start + k < PackageSector
      BY <3>1, <3>2, LayoutFacts, SMTT(30)
    <3>3. ASSUME upd.at = "write"
          PROVE  job.target.start + 0 = job.target.start /\ Parts \subseteq 0 .. ImageSize /\ 0 \in 0 .. ImageSize
      BY <3>1, <3>3, LayoutFacts
    <3>4. QED
      BY <1>5, <3>2, <3>3
  <2>5. QED
    BY <2>2, <2>3, <2>4 DEF GuestOk
<1>15. QED
  BY <1>7, <1>8, <1>9, <1>10, <1>11, <1>13, <1>14

LEMMA HostKeeps ==
    ASSUME IInv, HostStep
    PROVE  IInv'
BY HostBookkeeping, StageBlobKeeps, StageHeaderKeeps DEF HostStep, HostNext
-----------------------------------------------------------------------------
(* Steps that write nothing and only let the updater go on. *)
LEMMA GuestReads ==
    ASSUME IInv,
           UNCHANGED <<disk, phase, media, seen, region, install, account, lock, created,
                       hostVars, touched, mixed, done>>,
           \/ /\ \E bad : Poll(bad) \/ Begin(bad)
              /\ job' = job
           \/ UpdateFails \/ ReadBlob \/ WriteBegins
    PROVE  IInv'
<1> USE DEF IInv
<1>1. Announced' = Announced /\ hostVars' = hostVars
  BY DEF Announced
<1>2. \A i \in Parts : /\ disk[StagedSector(i)] \in Loose
                        /\ StagedSector(i) \in Sectors
  <2>1. ASSUME NEW i \in Parts
        PROVE  disk[StagedSector(i)] \in Loose /\ StagedSector(i) \in Sectors
    <3>1. StagedSector(i) \in Sectors /\ StagedSector(i) < PackageSector /\ ~Clear(StagedSector(i))
      BY LayoutFacts DEF Clear, Sectors
    <3>2. disk[StagedSector(i)] \in Content
      BY <3>1 DEF Types, SetupTypeOK
    <3>3. disk[StagedSector(i)] # Header /\ disk[StagedSector(i)].kind # "package"
      BY <3>1, LayoutFacts DEF DiskOk
    <3>4. QED
      BY <3>1, <3>2, <3>3, ContentKinds
  <2>2. QED
    BY <2>1
<1>3. /\ available' \in BOOLEAN /\ upd' \in Updates /\ job' \in Jobs
      /\ JobOk' /\ UpdOk' /\ GuestOk'
      /\ upd'.at # "idle" => Published(upd'.pkg.version)
  <2>1. CASE \E bad : Poll(bad) /\ job' = job
    BY <1>1, <2>1 DEF Poll, Types, JobOk, UpdOk, GuestOk, LedgerOk, Clear, NoUpdate
  <2>2. CASE \E bad : Begin(bad) /\ job' = job
    <3>1. PICK bad : Begin(bad)
      BY <2>2
    <3>2. /\ phase = "NONE" /\ upd = NoUpdate /\ Announced # NoOffer /\ available' = available
          /\ upd' = [at |-> "read", pkg |-> Announced, target |-> UpdateTarget(bad), buffer |-> <<>>]
      BY <3>1 DEF Begin, Desktop, Updating
    <3>3. job = NoJob /\ job' = job
      BY <2>2, <3>2 DEF JobOk, NoUpdate
    <3>4. Announced \in Offers /\ Published(Announced.version)
      <4>1. disk[PackageSector].kind = "package"
        BY <3>2 DEF Announced
      <4>2. disk[PackageSector] \in Content /\ disk[PackageSector].version \in 1 .. MaxVersion
        BY <4>1, LayoutFacts DEF DiskOk, Types, SetupTypeOK
      <4>3. disk[PackageSector].build \in Build
        BY <4>1, <4>2, ContentKinds
      <4>4. QED
        BY <3>2, <4>1, <4>2, <4>3 DEF Announced, Offers, LedgerOk
    <3>5. UpdateTarget(bad) \in Regions /\ Clear(UpdateTarget(bad).start)
      <4>1. CASE Existing(bad) = <<>>
        BY <4>1, RegionConstants, LayoutFacts DEF UpdateTarget, Clear, Whole
      <4>2. CASE Existing(bad) # <<>>
        <5>1. /\ Existing(bad)[1] \in Regions /\ disk[Existing(bad)[1].start] = Header
          BY <4>2, ExistingFacts
        <5>2. Existing(bad)[1].start \in Sectors
          BY <5>1, RegionFacts
        <5>3. QED
          BY <4>2, <5>1, <5>2 DEF UpdateTarget, DiskOk
      <4>3. QED
        BY <4>1, <4>2
    <3>6. upd' \in Updates
      BY <3>2, <3>4, <3>5 DEF Updates
    <3>7. UpdOk' /\ GuestOk'
      BY <1>1, <3>2, <3>3, <3>4, <3>5, LayoutFacts DEF UpdOk, GuestOk, Clear, PackageSector
    <3>8. QED
      BY <3>2, <3>3, <3>4, <3>6, <3>7, NoJobOk DEF JobOk, Types
  <2>3. CASE UpdateFails
    BY <2>3 DEF UpdateFails, Types, JobOk, UpdOk, GuestOk, NoUpdate, Updates
  <2>4. CASE ReadBlob
    <3> DEFINE n == Len(upd.buffer) + 1
    <3>1. /\ upd.at = "read" /\ n \in Parts /\ job' = job /\ job = NoJob /\ available' = available
          /\ upd' = [upd EXCEPT !.buffer = Append(upd.buffer, disk[StagedSector(n)])]
      BY <2>4, LayoutFacts DEF ReadBlob, UpdOk, Types, Updates
    <3>2. upd \in Updates
      BY DEF Types
    <3>3. upd.buffer \in Seq(Content) /\ disk[StagedSector(n)] \in Content
      BY <3>1, <3>2, <1>2, ContentFacts DEF Updates
    <3>4. /\ Append(upd.buffer, disk[StagedSector(n)]) \in Seq(Content)
          /\ Len(Append(upd.buffer, disk[StagedSector(n)])) = n
          /\ \A i \in 1 .. n : Append(upd.buffer, disk[StagedSector(n)])[i]
                                = IF i = n THEN disk[StagedSector(n)] ELSE upd.buffer[i]
      BY <3>3
    <3>5. /\ upd'.at = "read" /\ upd'.pkg = upd.pkg /\ upd'.target = upd.target
          /\ upd'.buffer = Append(upd.buffer, disk[StagedSector(n)])
          /\ upd' \in Updates
      BY <3>1, <3>2, <3>4 DEF Updates
    <3>6. UpdOk'
      <4>1. \A i \in 1 .. n : upd'.buffer[i] \in Loose
        BY <3>1, <3>3, <3>4, <3>5, <1>2, LayoutFacts DEF UpdOk
      <4>2. QED
        BY <3>1, <3>4, <3>5, <4>1, LayoutFacts DEF UpdOk, Clear
    <3>7. GuestOk'
      <4>1. ASSUME touched = {}, NEW i \in 1 .. n
            PROVE  upd'.buffer[i] = Data(upd.pkg.build, i)
        <5>1. Announced = upd.pkg /\ upd.pkg # NoOffer
          BY <3>1, <4>1 DEF GuestOk, UpdOk, Offers, NoOffer
        <5>2. CASE i = n
          BY <3>1, <3>4, <3>5, <4>1, <5>1, <5>2 DEF StagedOk
        <5>3. CASE i # n
          BY <3>1, <3>3, <3>4, <3>5, <4>1, <5>3 DEF GuestOk
        <5>4. QED
          BY <5>2, <5>3
      <4>2. QED
        BY <1>1, <3>1, <3>4, <3>5, <4>1 DEF GuestOk
    <3>8. QED
      BY <3>1, <3>5, <3>6, <3>7, NoJobOk DEF JobOk, Types, LedgerOk
  <2>5. CASE WriteBegins
    <3>1. /\ upd.at = "read" /\ Len(upd.buffer) = ImageSize /\ available' = available
          /\ job' = [next |-> 0, image |-> upd.buffer, target |-> upd.target]
          /\ upd' = [upd EXCEPT !.at = "write"]
      BY <2>5 DEF WriteBegins, StartJob
    <3>2. upd \in Updates
      BY DEF Types
    <3>3. /\ upd'.at = "write" /\ upd'.pkg = upd.pkg /\ upd'.target = upd.target
          /\ upd'.buffer = upd.buffer /\ upd' \in Updates
      BY <3>1, <3>2 DEF Updates
    <3>4. job' \in Jobs /\ job' # NoJob /\ job'.target \in Regions
      BY <3>1, <3>2, LayoutFacts, RegionConstants DEF Jobs, NoJob, Updates, UpdOk
    <3>5. JobOk' /\ UpdOk'
      BY <3>1, <3>3, <3>4, LayoutFacts DEF JobOk, UpdOk, Clear
    <3>6. GuestOk'
      BY <1>1, <3>1, <3>3, LayoutFacts DEF GuestOk
    <3>7. QED
      BY <3>1, <3>3, <3>4, <3>5, <3>6 DEF LedgerOk, Types
  <2>6. QED
    BY <2>1, <2>2, <2>3, <2>4, <2>5
<1>4. Types'
  BY <1>1, <1>3 DEF Types, SetupTypeOK, HostTypeOK, hostVars, Jobs
<1>5. DiskOk' /\ HostOk' /\ StagedOk'
  BY <1>1 DEF DiskOk, HostOk, StagedOk, hostVars, Overwritten, Clear
<1>6. LedgerOk'
  BY <1>1, <1>3 DEF LedgerOk, Published, InstalledNotOfferedAgain, hostVars
<1>7. QED
  BY <1>3, <1>4, <1>5, <1>6

(* One sector of the image. *)
LEMMA GuestWrites ==
    ASSUME IInv, NEW ok \in BOOLEAN, UpdateWrites(ok), Touches("update"),
           UNCHANGED <<phase, media, seen, region, install, account, lock, created,
                       hostVars, mixed, done>>
    PROVE  IInv'
<1> USE DEF IInv
<1> DEFINE l == job.target.start + job.next
<1>1. /\ upd.at = "write" /\ JobWrites(ok) /\ available' = available
      /\ upd' = IF ok THEN upd ELSE NoUpdate
  BY DEF UpdateWrites
<1>2. /\ Harmless /\ job' \in Jobs /\ job # NoJob
      /\ job.next \in 0 .. ImageSize /\ l \in Sectors /\ l < PackageSector
      /\ Write(l, JobSector(job), ok)
      /\ ok => job' = [job EXCEPT !.next = @ + 1]
      /\ ~ok => job' = NoJob
  BY <1>1, JobWritesFacts
<1>3. /\ disk' \in [Sectors -> Content] /\ DiskOk'
      /\ disk'[PackageSector] = disk[PackageSector] /\ Announced' = Announced
  BY <1>2, HarmlessKeepsDisk DEF Types, SetupTypeOK
<1>4. NoUpdate \in Updates /\ upd' \in Updates
  BY <1>1 DEF NoUpdate, Updates, Types
<1>5. Types'
  <2>1. SetupTypeOK'
    BY <1>2, <1>3 DEF SetupTypeOK, Types, Jobs
  <2>2. HostTypeOK'
    BY DEF Types, HostTypeOK, hostVars
  <2>3. touched' \subseteq Sectors \X {"host", "record", "update"}
    BY TouchesFacts
  <2>4. QED
    BY <1>1, <1>2, <1>4, <2>1, <2>2, <2>3 DEF Types
<1>6. job \in Jobs
  BY DEF Types
<1>7. ok => /\ upd' = upd /\ job'.next = job.next + 1 /\ job'.image = job.image
            /\ job'.target = job.target /\ job' # NoJob
  BY <1>1, <1>2, <1>6, RegionConstants DEF Jobs, JobOk, NoJob
<1>8. JobOk' /\ UpdOk'
  <2>1. CASE ok
    BY <1>1, <1>7, <2>1 DEF JobOk, UpdOk, Clear
  <2>2. CASE ~ok
    BY <1>1, <1>2, <2>2 DEF JobOk, UpdOk, NoUpdate
  <2>3. QED
    BY <2>1, <2>2
<1>9. HostOk'
  BY DEF HostOk, hostVars
<1>10. LedgerOk'
  BY <1>1, <1>3, LedgerStays
<1>11. StagedOk'
  BY <1>2, <1>3, OverwriteKeepsStaged
<1>12. GuestOk'
  <2>1. CASE ~ok
    BY <1>1, <2>1 DEF GuestOk, NoUpdate
  <2>2. CASE ok
    <3>1. disk' = [disk EXCEPT ![l] = JobSector(job)] /\ disk \in [Sectors -> Content]
      BY <1>2, <2>2 DEF Write, Types, SetupTypeOK
    <3>2. ASSUME touched' = {}
          PROVE  /\ Announced' = upd.pkg
                 /\ \A i \in Parts : job.image[i] = Data(upd.pkg.build, i)
                 /\ job.next > 0 => disk[job.target.start] = Header
                 /\ \A i \in Parts : i < job.next => disk[job.target.start + i] = job.image[i]
      BY <1>1, <1>3, <3>2, TouchesFacts DEF GuestOk
    <3>3. /\ job.target.start \in Sectors /\ job.target.start \in Nat
          /\ \A i \in Parts : job.target.start + i \in Sectors
      <4>1. job.target \in Regions /\ Clear(job.target.start)
        BY <1>2 DEF JobOk
      <4>2. QED
        BY <4>1, RegionFacts, LayoutFacts DEF Clear
    <3>4. ASSUME touched' = {}
          PROVE  disk'[job.target.start] = Header
      <4>1. CASE job.next = 0
        BY <1>2, <3>1, <3>3, <4>1 DEF JobSector
      <4>2. CASE job.next # 0
        BY <1>2, <3>1, <3>2, <3>3, <3>4, <4>2
      <4>3. QED
        BY <4>1, <4>2
    <3>5. ASSUME touched' = {}, NEW i \in Parts, i < job.next + 1
          PROVE  disk'[job.target.start + i] = job.image[i]
      <4>1. CASE i = job.next
        BY <1>2, <3>1, <3>3, <4>1, LayoutFacts DEF JobSector
      <4>2. CASE i # job.next
        <5>1. i < job.next /\ job.target.start + i # l /\ job.target.start + i \in Sectors
          BY <1>2, <3>3, <3>5, <4>2, LayoutFacts
        <5>2. disk'[job.target.start + i] = disk[job.target.start + i]
          BY <3>1, <5>1
        <5>3. QED
          BY <3>2, <3>5, <5>1, <5>2
      <4>3. QED
        BY <4>1, <4>2
    <3>6. QED
      BY <1>1, <1>7, <2>2, <3>2, <3>4, <3>5 DEF GuestOk, Parts, ImageSize
  <2>3. QED
    BY <2>1, <2>2
<1>13. QED
  BY <1>3, <1>5, <1>8, <1>9, <1>10, <1>11, <1>12

(* The package is taken off the drive, or the write fails. *)
LEMMA GuestEnds ==
    ASSUME IInv, FinishStep
    PROVE  IInv'
<1> USE DEF IInv
<1>1. PICK ok \in BOOLEAN :
          /\ UpdateEnds(ok)
          /\ mixed' = (touched # {})
          /\ done' = [done EXCEPT !.installed = @ \cup {upd.pkg},
                                  !.unclear = IF ok THEN @ ELSE @ \cup {upd.pkg}]
          /\ UNCHANGED <<phase, media, seen, region, install, account, lock, created, hostVars, touched>>
  BY DEF FinishStep
<1>2. /\ upd.at = "write" /\ job' = NoJob /\ upd' = NoUpdate /\ available' = FALSE
      /\ Write(PackageSector, Blank, ok)
  BY <1>1 DEF UpdateEnds
<1>3. disk \in [Sectors -> Content] /\ Blank \in Content /\ Blank.kind = "blank" /\ Blank # Header
  BY ContentFacts DEF Types, SetupTypeOK
<1>4. /\ disk' = disk \/ disk' = [disk EXCEPT ![PackageSector] = Blank]
      /\ ok => disk' = [disk EXCEPT ![PackageSector] = Blank]
  BY <1>2 DEF Write
<1>5. /\ disk' \in [Sectors -> Content] /\ DiskOk'
      /\ \A i \in Parts : disk'[StagedSector(i)] = disk[StagedSector(i)]
      /\ Announced' = NoOffer \/ (~ok /\ Announced' = Announced)
  <2>1. CASE disk' = disk /\ ~ok
    BY <1>3, <2>1 DEF DiskOk, Announced, Clear
  <2>2. CASE disk' = [disk EXCEPT ![PackageSector] = Blank]
    <3>1. /\ disk' \in [Sectors -> Content] /\ disk'[PackageSector] = Blank
          /\ \A l \in Sectors : l # PackageSector => disk'[l] = disk[l]
      BY <1>3, <2>2, LayoutFacts
    <3>2. DiskOk'
      BY <1>3, <3>1 DEF DiskOk, Clear, PackageSector, Sectors, ImageSize
    <3>3. Announced' = NoOffer
      BY <1>3, <3>1 DEF Announced, PackageSector
    <3>4. \A i \in Parts : disk'[StagedSector(i)] = disk[StagedSector(i)]
      BY <3>1, LayoutFacts
    <3>5. QED
      BY <3>1, <3>2, <3>3, <3>4
  <2>3. QED
    BY <1>4, <2>1, <2>2
<1>6. upd.pkg \in Offers /\ done \in [installed : SUBSET Offers, unclear : SUBSET Offers]
  BY <1>2 DEF UpdOk, Types
<1>7. /\ done'.installed = done.installed \cup {upd.pkg}
      /\ done'.unclear = IF ok THEN done.unclear ELSE done.unclear \cup {upd.pkg}
      /\ done' \in [installed : SUBSET Offers, unclear : SUBSET Offers]
  BY <1>1, <1>6
<1>8. Types'
  <2>1. SetupTypeOK'
    BY <1>1, <1>2, <1>5, NoJobOk DEF Types, SetupTypeOK, Jobs
  <2>2. HostTypeOK'
    BY <1>1 DEF Types, HostTypeOK, hostVars
  <2>3. upd' \in Updates
    BY <1>2 DEF Updates, NoUpdate
  <2>4. QED
    BY <1>1, <1>2, <1>7, <2>1, <2>2, <2>3, NoJobOk DEF Types
<1>9. JobOk' /\ UpdOk' /\ HostOk' /\ GuestOk'
  BY <1>1, <1>2 DEF JobOk, UpdOk, HostOk, GuestOk, NoUpdate, hostVars
<1>10. LedgerOk'
  <2>1. \A v : Published(v)' <=> Published(v)
    BY <1>1 DEF Published, hostVars
  <2>2. Published(upd.pkg.version) /\ \A p \in done'.installed : Published(p.version)
    BY <1>2, <1>7 DEF LedgerOk
  <2>3. NoOffer \notin done'.installed
    BY <1>7 DEF Offers, NoOffer
  <2>4. ASSUME Announced' \in done'.installed
        PROVE  Announced' \in done'.unclear \/ Announced'.version \in slipped'
    <3>1. ~ok /\ Announced' = Announced
      BY <1>5, <2>3, <2>4
    <3>2. CASE Announced = upd.pkg
      BY <1>7, <3>1, <3>2
    <3>3. CASE Announced # upd.pkg
      BY <1>1, <1>7, <2>4, <3>1, <3>3 DEF LedgerOk, InstalledNotOfferedAgain, hostVars
    <3>4. QED
      BY <3>2, <3>3
  <2>5. Announced' # NoOffer => Published(Announced.version)'
    BY <1>5, <2>1 DEF LedgerOk
  <2>6. QED
    BY <1>2, <2>1, <2>2, <2>4, <2>5 DEF LedgerOk, InstalledNotOfferedAgain, NoUpdate
<1>11. StagedOk'
  BY <1>1, <1>5 DEF StagedOk, Overwritten, StagedSector, PackageSector, Parts, hostVars
<1>12. QED
  BY <1>5, <1>8, <1>9, <1>10, <1>11

LEMMA CutKeeps ==
    ASSUME IInv, PowerCutDuringUpdate
    PROVE  IInv'
<1> USE DEF IInv
<1>1. /\ PowerCut /\ available' = FALSE /\ upd' = NoUpdate /\ disk' = disk /\ job' = NoJob
      /\ UNCHANGED <<hostVars, touched, mixed, done>>
  BY DEF PowerCutDuringUpdate, GuestStops, PowerCut
<1>2. MemoryOk
  BY DEF MemoryOk, Types, SetupTypeOK
<1>3. MemoryOk'
  BY <1>1, <1>2, PowerCutStep
<1>4. Types'
  <2>1. SetupTypeOK'
    BY <1>1, <1>3 DEF MemoryOk, SetupTypeOK, Types, Jobs
  <2>2. HostTypeOK'
    BY <1>1 DEF Types, HostTypeOK, hostVars
  <2>3. upd' \in Updates
    BY <1>1 DEF Updates, NoUpdate
  <2>4. QED
    BY <1>1, <1>3, <2>1, <2>2, <2>3 DEF Types, MemoryOk
<1>5. JobOk' /\ UpdOk' /\ GuestOk'
  BY <1>1, <1>3 DEF MemoryOk, UpdOk, GuestOk, NoUpdate
<1>6. DiskOk' /\ HostOk' /\ StagedOk'
  BY <1>1 DEF DiskOk, HostOk, StagedOk, Overwritten, Clear, Announced, hostVars
<1>7. LedgerOk'
  <2>1. Announced' = Announced
    BY <1>1 DEF Announced
  <2>2. QED
    BY <1>1, <2>1, LedgerStays
<1>8. QED
  BY <1>4, <1>5, <1>6, <1>7
-----------------------------------------------------------------------------
LEMMA InitHolds ==
    ASSUME Init
    PROVE  IInv
<1>1. PICK t \in Regions, b \in Media, a \in Account :
          /\ RoomFor(t)
          /\ disk = [l \in Sectors |->
                       CASE l = 0 /\ t # Whole -> Table
                         [] l = t.start -> Header
                         [] l - t.start \in Parts -> Data(b, l - t.start)
                         [] l = StateSector(t) -> IF t = Whole THEN Record("NEEDS_OOBE", t, NoAccount)
                                                               ELSE Record("READY", t, a)
                         [] OTHER -> Blank]
  BY DEF Init
<1>2. \A l \in Sectors : disk[l] \in Loose \/ (l = t.start /\ disk[l] = Header)
  <2>1. TAKE l \in Sectors
  <2>2. /\ Table \in Loose /\ Blank \in Loose
        /\ \A i \in Parts : Data(b, i) \in Loose
        /\ Record("NEEDS_OOBE", t, NoAccount) \in Loose /\ Record("READY", t, a) \in Loose
    BY ContentFacts, DiskAssumption DEF Stages
  <2>3. QED
    BY <1>1, <2>2
<1>3. disk \in [Sectors -> Content] /\ DiskOk
  <2>1. disk \in [Sectors -> Content]
    BY <1>1, <1>2, ContentFacts
  <2>2. QED
    BY <1>1, <1>2, <2>1, ContentFacts, RegionConstants DEF DiskOk
<1>4. Announced = NoOffer
  BY <1>2, ContentFacts, LayoutFacts DEF Announced
<1>5. SetupTypeOK /\ job = NoJob /\ install = Clean
  <2>1. \A r \in Regions : r \in Regions
    OBVIOUS
  <2>2. QED
    BY <1>3, LayoutFacts, DiskAssumption
       DEF Init, SetupInit, SetupTypeOK, Phases, Clean, Closed, NoJob, NoRegion
<1>6. HostTypeOK /\ host = AtRest
  <2>1. inbox \in Seq(Build)
    BY ServiceAssumption DEF Init, HostInit
  <2>2. QED
    BY <2>1, ServiceAssumption, LayoutFacts DEF Init, HostInit, HostTypeOK, AtRest
<1>7. /\ upd = NoUpdate /\ available = FALSE /\ touched = {} /\ mixed = FALSE
      /\ done = [installed |-> {}, unclear |-> {}]
  BY DEF Init, UpdateInit
<1>8. Types
  <2>1. upd \in Updates
    BY <1>7 DEF Updates, NoUpdate
  <2>2. done \in [installed : SUBSET Offers, unclear : SUBSET Offers]
    BY <1>7
  <2>3. QED
    BY <1>5, <1>6, <1>7, <2>1, <2>2, NoJobOk DEF Types
<1>9. JobOk /\ UpdOk /\ HostOk /\ GuestOk /\ StagedOk
  BY <1>4, <1>5, <1>6, <1>7 DEF JobOk, UpdOk, HostOk, GuestOk, StagedOk, NoUpdate, Clean, AtRest
<1>10. LedgerOk
  BY <1>4, <1>7 DEF LedgerOk, InstalledNotOfferedAgain, NoUpdate
<1>11. QED
  BY <1>3, <1>8, <1>9, <1>10 DEF IInv

LEMMA NextKeeps ==
    ASSUME IInv, [Next]_vars
    PROVE  IInv'
<1>1. CASE SetupStep
  BY <1>1, SetupKeeps
<1>2. CASE PowerCutDuringUpdate
  BY <1>2, CutKeeps
<1>3. CASE HostStep
  BY <1>3, HostKeeps
<1>4. CASE GuestStep
  <2>1. UNCHANGED <<disk, phase, media, seen, region, install, account, lock, created,
                    hostVars, touched, mixed, done>> /\ job' = job
    BY <1>4 DEF GuestStep, setupVars
  <2>2. \E bad : Poll(bad) \/ Begin(bad)
    BY <1>4 DEF GuestStep
  <2>3. QED
    BY <2>1, <2>2, GuestReads
<1>5. CASE InstallStep
  <2>1. UNCHANGED <<phase, media, seen, region, install, account, lock, created,
                    hostVars, mixed, done>>
    BY <1>5 DEF InstallStep
  <2>2. CASE (UpdateFails \/ ReadBlob \/ WriteBegins) /\ UNCHANGED touched
    <3>1. disk' = disk
      BY <2>2 DEF UpdateFails, ReadBlob, WriteBegins
    <3>2. QED
      BY <2>1, <2>2, <3>1, GuestReads
  <2>3. CASE (\E ok \in BOOLEAN : UpdateWrites(ok)) /\ Touches("update")
    BY <2>1, <2>3, GuestWrites
  <2>4. QED
    BY <1>5, <2>2, <2>3 DEF InstallStep
<1>6. CASE FinishStep
  BY <1>6, GuestEnds
<1>7. CASE UNCHANGED vars
  <2>1. UNCHANGED <<disk, phase, media, seen, region, install, account, lock, job, created, inbox, saved,
                    host, slipped, available, upd, touched, mixed, done>>
    BY <1>7 DEF vars, setupVars, hostVars, updateVars, guestVars
  <2>2. QED
    BY <2>1 DEF IInv, Types, SetupTypeOK, HostTypeOK, DiskOk, JobOk, UpdOk, HostOk, LedgerOk, StagedOk,
           GuestOk, Published, Overwritten, Announced, InstalledNotOfferedAgain, Clear
<1>8. QED
  BY <1>1, <1>2, <1>3, <1>4, <1>5, <1>6, <1>7 DEF Next

(* The inductive invariant. *)
THEOREM UpdateInvariant == Spec => []IInv
<1>1. Init => IInv
  BY InitHolds
<1>2. IInv /\ [Next]_vars => IInv'
  BY NextKeeps
<1>3. QED
  BY <1>1, <1>2, PTL DEF Spec
-----------------------------------------------------------------------------
(* Every variable of setup, host and updater keeps its type                *)
(* (update_setup_state, process_iso, install_staged_update).               *)
THEOREM UpdateTypes == Spec => []TypeOK
<1>1. ASSUME IInv
      PROVE  TypeOK
  <2> USE <1>1 DEF IInv
  <2>1. upd.at \in {"idle", "read", "write"} /\ upd.buffer \in Seq(Content)
    BY DEF Types, Updates
  <2>2. Len(upd.buffer) <= ImageSize
    BY LayoutFacts DEF UpdOk, NoUpdate
  <2>3. upd.at = "write" => ~Idle
    BY DEF UpdOk, Idle
  <2>4. QED
    BY <2>1, <2>2, <2>3 DEF Types, TypeOK
<1>2. QED
  BY <1>1, UpdateInvariant, PTL

(* What the updater has written when it is done is the build that the      *)
(* header announced, whatever the host staged since and wherever power was *)
(* cut before (install_staged_update).                                     *)
THEOREM StagedIsInstalled == Spec => []InstallGivesStagedBuild
<1>1. ASSUME IInv, upd.at = "write", JobDone, touched = {}
      PROVE  HoldsImage(job.target, upd.pkg.build)
  <2>1. job.next = ImageSize + 1 /\ \A i \in Parts : i < job.next
    BY <1>1, LayoutFacts DEF JobDone
  <2>2. QED
    BY <1>1, <2>1, LayoutFacts DEF IInv, GuestOk, HoldsImage
<1>2. IInv => InstallGivesStagedBuild
  BY <1>1 DEF InstallGivesStagedBuild
<1>3. QED
  BY <1>2, UpdateInvariant, PTL

(* A package that was installed is not offered again, unless its header    *)
(* could not be cleared or the host broke off after announcing it          *)
(* (install_staged_update, process_iso).                                   *)
THEOREM InstalledOnce == Spec => []InstalledNotOfferedAgain
<1>1. IInv => InstalledNotOfferedAgain
  BY DEF IInv, LedgerOk
<1>2. QED
  BY <1>1, UpdateInvariant, PTL

(* A package leaves the drive only by being installed, unless something    *)
(* was written over it (clear_update_package_header).                      *)
THEOREM ClearedWhenInstalled == Spec => ClearedMeansInstalled
<1> DEFINE Step == Announced # NoOffer /\ Announced' = NoOffer
                     => Announced \in done'.installed \/ touched # {}
<1>1. ASSUME IInv, Next
      PROVE  Step
  <2> USE <1>1 DEF IInv
  <2> SUFFICES ASSUME Announced # NoOffer, Announced' = NoOffer, touched = {}
               PROVE  Announced \in done'.installed
    OBVIOUS
  <2>0. disk \in [Sectors -> Content] /\ PackageSector \in Sectors
    BY LayoutFacts DEF Types, SetupTypeOK
  <2>1. CASE SetupStep
    <3>1. MemoryOk /\ upd.at = "idle" /\ upd = NoUpdate /\ upd' = upd
      BY <2>1 DEF SetupStep, Updating, NoUpdate, GuestStops, GuestStays, guestVars,
                  MemoryOk, Types, SetupTypeOK
    <3>2. Harmless
      BY <2>1, <3>1, PowerOnStep, PowerCutStep, ScreenStep, InstallingStep DEF SetupStep, SetupNext
    <3>3. QED
      BY <2>0, <3>2, HarmlessKeepsDisk
  <2>2. CASE PowerCutDuringUpdate \/ GuestStep
    BY <2>2 DEF PowerCutDuringUpdate, PowerCut, GuestStep, Announced
  <2>3. CASE HostStep
    <3>1. CASE StageHeader
      <4>1. host.version \in Nat /\ host.build \in Build
        BY <3>1 DEF StageHeader, HostOk, Types, HostTypeOK
      <4>2. disk'[PackageSector] = Package(host.version, host.build)
        BY <2>0, <3>1 DEF StageHeader
      <4>3. Announced'.build = host.build
        BY <4>1, <4>2, ContentFacts DEF Announced, PackageSector
      <4>4. QED
        BY <4>1, <4>3, NoneAssumption DEF NoOffer
    <3>2. CASE StageBlob
      <4>1. disk'[PackageSector] = disk[PackageSector]
        BY <2>0, <3>2, LayoutFacts DEF StageBlob, HostOk
      <4>2. QED
        BY <4>1 DEF Announced, PackageSector
    <3>3. CASE ~StageHeader /\ ~StageBlob
      BY <2>3, <3>3 DEF HostStep, HostNext, Duplicate, StageBegins, Archived, Saved, HostFails, Announced
    <3>4. QED
      BY <3>1, <3>2, <3>3
  <2>4. CASE InstallStep
    <3>1. CASE UpdateFails \/ ReadBlob \/ WriteBegins
      BY <3>1 DEF UpdateFails, ReadBlob, WriteBegins, Announced
    <3>2. CASE \E ok \in BOOLEAN : UpdateWrites(ok)
      <4>1. Harmless
        BY <3>2, JobWritesFacts DEF UpdateWrites
      <4>2. QED
        BY <2>0, <4>1, HarmlessKeepsDisk
    <3>3. QED
      BY <2>4, <3>1, <3>2 DEF InstallStep
  <2>5. CASE FinishStep
    <3>1. upd.at = "write"
      BY <2>5 DEF FinishStep, UpdateEnds
    <3>2. Announced = upd.pkg
      BY <3>1 DEF GuestOk
    <3>3. upd.pkg \in done'.installed
      BY <2>5 DEF FinishStep, Types
    <3>4. QED
      BY <3>2, <3>3
  <2>6. QED
    BY <1>1, <2>1, <2>2, <2>3, <2>4, <2>5 DEF Next
<1>2. IInv /\ [Next]_vars => [Step]_vars
  BY <1>1
<1>3. QED
  BY <1>2, UpdateInvariant, PTL DEF Spec, ClearedMeansInstalled
-----------------------------------------------------------------------------
(* What makes up for a torn image: a package on offer, staged sectors that *)
(* were written over, or an installation completed from such.              *)
Excused == Announced # NoOffer \/ touched # {} \/ mixed

(* The record of a region says that it waits for an installation. *)
Waits(t) ==
    /\ StateSector(t) # 0 /\ disk[StateSector(t)].kind = "record"
    /\ disk[StateSector(t)].stage = "PENDING_INSTALL"

InTable(t) == t = Whole \/ disk[0] = Table
Shown(t) == disk[t.start] = Header /\ InTable(t)

(* Where setup writes: a region with room that a start can find, or whose  *)
(* record is also that of the whole drive.                                 *)
Aimed(t) == t \in Regions /\ RoomFor(t) /\ (InTable(t) \/ StateSector(t) = StateSector(Whole))

InRegion == {"INSTALLING", "USER_OOBE", "OOBE_HI", "OOBE_SETTING_UP", "OOBE_PREPARE",
             "OOBE_ALMOST_THERE", "LOCKSCREEN"}

(* An image that a start can find is whole, waits to be installed again or *)
(* is excused.                                                             *)
ShownOk ==
    \A t \in Regions : Shown(t) => Excused \/ Waits(t) \/ \E b \in Build : HoldsImage(t, b)

(* Records speak of the region they stand in, images stand where there is  *)
(* room for their record too.                                              *)
PlacesOk ==
    /\ RoomFor(Whole)
    /\ disk[0] \in {Header, Table}
    /\ \A t \in Regions : Shown(t) => RoomFor(t)
    /\ \A t \in Regions : InTable(t) /\ StateSector(t) # 0 /\ disk[StateSector(t)].kind = "record"
          => /\ StateSector(disk[StateSector(t)].target) = StateSector(t)
             /\ RoomFor(disk[StateSector(t)].target)

(* Setup and updater write to a region a start can find. *)
AimsOk ==
    /\ upd.at # "idle" =>
          /\ RoomFor(upd.target) /\ InTable(upd.target)
          /\ Announced # NoOffer /\ phase = "NONE"
    /\ job # NoJob =>
          /\ job.target = Whole /\ job.next > 0 => disk[0] = Header
          /\ upd.at = "write" \/ job.target = region
    /\ phase \in {"WELCOME", "INSTALLER"} /\ seen # <<>> => disk[0] = Table
    /\ phase \in InRegion => Aimed(region)

(* While setup installs, the record waits; once there is an account to     *)
(* make, it does not.                                                      *)
InstallOk ==
    /\ phase = "INSTALLING" /\ ~install.started => Excused \/ Waits(region)
    /\ phase = "INSTALLING" /\ job # NoJob =>
          \/ Excused
          \/ /\ job.image = Image(media)
             /\ job.next > 0 => disk[region.start] = Header
             /\ \A i \in Parts : i < job.next => disk[region.start + i] = job.image[i]
    /\ phase \in InRegion \ {"INSTALLING"} => ~Waits(region)

TornInv == ShownOk /\ PlacesOk /\ AimsOk /\ InstallOk

OneAtMost == Len(Partitions) <= 1

LEMMA OnePartition ==
    ASSUME OneAtMost, NEW q \in Regions, NEW r \in Regions, q # Whole, r # Whole
    PROVE  q = r
<1>1. PICK i \in DOMAIN Partitions : q = Partitions[i]
  BY DEF Regions
<1>2. PICK j \in DOMAIN Partitions : r = Partitions[j]
  BY DEF Regions
<1>3. DOMAIN Partitions = 1 .. Len(Partitions) /\ Len(Partitions) \in Nat
  BY DiskAssumption
<1>4. i = 1 /\ j = 1
  BY <1>3 DEF OneAtMost
<1>5. QED
  BY <1>1, <1>2, <1>4

LEMMA PlaceFacts ==
    /\ 0 \in Sectors /\ 0 \notin StagedSectors /\ 0 # PackageSector
    /\ Whole.start = 0 /\ \A r \in Regions : r.start = 0 => r = Whole
    /\ StateSector(Whole) = Total - 2 /\ StateSector(Whole) \in StagedSectors
    /\ \A r \in Regions : RoomFor(r) =>
          /\ StateSector(r) \in Sectors /\ StateSector(r) # 0 /\ StateSector(r) < PackageSector
          /\ StateSector(r) > r.start + ImageSize
          /\ StateSector(Whole) > r.start + ImageSize
    /\ Table # Header /\ Table.kind # "record" /\ Header.kind # "record"
<1>1. ASSUME NEW r \in Regions, r.start = 0
      PROVE  r = Whole
  <2>1. SUFFICES ASSUME r # Whole PROVE FALSE
    OBVIOUS
  <2>2. PICK i \in DOMAIN Partitions : r = Partitions[i]
    BY <2>1 DEF Regions
  <2>3. Partitions[i] \in [start : 1 .. Total - 1, count : 1 .. Total - 1]
    BY DiskAssumption, ElementOf
  <2>4. QED
    BY <1>1, <2>2, <2>3
<1>2. Whole.start = 0 /\ StateSector(Whole) = Total - 2
  BY LayoutFacts DEF Whole, StateSector
<1>3. StateSector(Whole) \in StagedSectors
  <2>1. ImageSize \in Parts /\ StagedSector(ImageSize) = Total - 2
    BY LayoutFacts DEF StagedSector
  <2>2. QED
    BY <1>2, <2>1 DEF StagedSectors
<1>4. 0 \notin StagedSectors
  <2>1. ASSUME NEW i \in Parts PROVE StagedSector(i) # 0
    BY LayoutFacts DEF StagedSector
  <2>2. QED
    BY <2>1 DEF StagedSectors
<1>5. ASSUME NEW r \in Regions, RoomFor(r)
      PROVE  /\ StateSector(r) \in Sectors /\ StateSector(r) # 0 /\ StateSector(r) < PackageSector
             /\ StateSector(r) > r.start + ImageSize
             /\ StateSector(Whole) > r.start + ImageSize
  <2>1. /\ r.start \in Nat /\ r.count \in Nat /\ r.start + r.count <= Total
        /\ r.count >= 3 + ImageSize
    BY <1>5, RegionFacts, LayoutFacts DEF RoomFor
  <2>2. StateSector(r) = r.start + r.count - 2
    BY <2>1, LayoutFacts DEF StateSector
  <2>3. /\ Total \in Nat /\ ImageSize \in Nat
        /\ Sectors = 0 .. Total - 1 /\ PackageSector = Total - 1
    BY LayoutFacts
  <2>4. /\ StateSector(r) > r.start + ImageSize /\ StateSector(r) < Total - 1
        /\ Total - 2 > r.start + ImageSize
    BY <2>1, <2>2, <2>3
  <2>5. StateSector(r) \in Sectors /\ StateSector(r) # 0
    BY <2>1, <2>2, <2>3, <2>4
  <2>6. QED
    BY <1>2, <2>3, <2>4, <2>5
<1>6. Table # Header /\ Table.kind # "record" /\ Header.kind # "record"
  BY DEF Table, Header
<1>7. QED
  BY <1>1, <1>2, <1>3, <1>4, <1>5, <1>6, LayoutFacts

LEMMA InRegionFacts ==
    /\ \A x \in {"OFF", "NONE", "WELCOME", "INSTALLER"} : x \notin InRegion /\ x # "INSTALLING"
    /\ "INSTALLING" \in InRegion
BY DEF InRegion

(* A record is never inside an image that a start can find. *)
LEMMA RecordsOutside ==
    ASSUME OneAtMost, PlacesOk, NEW q \in Regions, Shown(q), NEW t, Aimed(t)
    PROVE  StateSector(t) > q.start + ImageSize
<1>1. RoomFor(q) /\ RoomFor(t) /\ t \in Regions
  BY DEF PlacesOk, Aimed
<1>2. CASE StateSector(t) = StateSector(Whole)
  BY <1>1, <1>2, PlaceFacts
<1>3. CASE StateSector(t) # StateSector(Whole)
  <2>1. t # Whole /\ disk[0] = Table
    BY <1>3 DEF Aimed, InTable
  <2>2. q # Whole
    BY <2>1, PlaceFacts DEF Shown
  <2>3. q = t
    BY <1>1, <2>1, <2>2, OnePartition
  <2>4. QED
    BY <1>1, <2>3, PlaceFacts
<1>4. QED
  BY <1>2, <1>3

(* The record a start finds in the place of a region. *)
LEMMA PlaceAims ==
    ASSUME PlacesOk, disk \in [Sectors -> Content], NEW t \in Regions, InTable(t), StateSector(t) # 0,
           disk[StateSector(t)].kind = "record", NEW r, r = disk[StateSector(t)].target
    PROVE  /\ Aimed(r) /\ StateSector(r) = StateSector(t)
           /\ disk[StateSector(t)].stage = "PENDING_INSTALL" <=> Waits(r)
<1>1. StateSector(r) = StateSector(t) /\ RoomFor(r)
  BY DEF PlacesOk
<1>2. r \in Regions
  <2>1. RecordReadable(t, {})
    BY DEF RecordReadable
  <2>2. QED
    BY <2>1, RecordFacts
<1>3. InTable(r) \/ StateSector(r) = StateSector(Whole)
  BY <1>1 DEF InTable
<1>4. QED
  BY <1>1, <1>2, <1>3 DEF Aimed, Waits

LEMMA PendingPlace ==
    ASSUME NEW bad, Pending(bad) # <<>>
    PROVE  \E t \in Regions :
              /\ InTable(t) /\ RecordReadable(t, bad)
              /\ disk[StateSector(t)].stage = "PENDING_INSTALL"
              /\ Pending(bad)[1] = disk[StateSector(t)]
<1> DEFINE places == IF Visible(bad) = <<>> THEN <<Whole>> ELSE Visible(bad)
           found == {i \in DOMAIN places : /\ RecordReadable(places[i], bad)
                                           /\ disk[StateSector(places[i])].stage = "PENDING_INSTALL"}
<1>1. DOMAIN places \subseteq Nat /\ \A i \in DOMAIN places : places[i] \in Regions /\ InTable(places[i])
  <2>1. CASE Visible(bad) = <<>>
    <3>1. places = <<Whole>>
      BY <2>1
    <3>2. QED
      BY <3>1, RegionConstants DEF InTable
  <2>2. CASE Visible(bad) # <<>>
    <3>1. places = Partitions /\ disk[0] = Table
      BY <2>2 DEF Visible
    <3>2. QED
      BY <3>1, DiskAssumption, ElementOf DEF Regions, InTable
  <2>3. QED
    BY <2>1, <2>2
<1>2. Pending(bad) = IF found = {} THEN <<>> ELSE <<disk[StateSector(places[First(found)])]>>
  BY DEF Pending
<1> HIDE DEF places
<1>3. found # {} /\ Pending(bad)[1] = disk[StateSector(places[First(found)])]
  BY <1>2
<1>4. First(found) \in found
  BY <1>1, <1>3, FirstIsMember
<1>5. QED
  BY <1>1, <1>3, <1>4

LEMMA ExistingShown ==
    ASSUME NEW bad, Existing(bad) # <<>>
    PROVE  Existing(bad)[1] \in Regions /\ Shown(Existing(bad)[1])
<1>1. /\ Existing(bad)[1] \in Regions
      /\ disk[Existing(bad)[1].start] = Header
  BY ExistingFacts
<1>2. CASE HeaderAt(0, bad)
  BY <1>1, <1>2 DEF Existing, Shown, InTable
<1>3. CASE ~HeaderAt(0, bad)
  <2>1. Visible(bad) # <<>>
    <3>1. SUFFICES ASSUME Visible(bad) = <<>> PROVE FALSE
      OBVIOUS
    <3>2. {i \in DOMAIN Visible(bad) : HeaderAt(Visible(bad)[i].start, bad)} = {}
      BY <3>1
    <3>3. QED
      BY <1>3, <3>2 DEF Existing
  <2>2. QED
    BY <1>1, <2>1 DEF Visible, Shown, InTable
<1>4. QED
  BY <1>2, <1>3
-----------------------------------------------------------------------------
(* An excuse ends only with an installation; writing to a staged sector is *)
(* one.                                                                    *)
LEMMA ExcuseStays ==
    ASSUME Types, NEW who \in {"host", "record", "update"}, Touches(who), mixed' = mixed,
           Announced' = Announced
    PROVE  /\ Excused => Excused'
           /\ \A l \in StagedSectors : disk'[l] # disk[l] => Excused'
BY TouchesFacts DEF Excused

LEMMA StepWithoutWrite ==
    ASSUME TornInv, disk' = disk, touched' = touched, mixed' = mixed
    PROVE  /\ ShownOk' /\ PlacesOk' /\ Excused' = Excused /\ Announced' = Announced
           /\ \A t : InTable(t)' = InTable(t) /\ Aimed(t)' = Aimed(t) /\ Waits(t)' = Waits(t)
BY DEF TornInv, ShownOk, PlacesOk, Excused, Waits, InTable, Shown, Aimed, Announced, HoldsImage

(* A record written where setup writes one. *)
LEMMA RecordWrite ==
    ASSUME OneAtMost, Types, ShownOk, PlacesOk, NEW s \in Stages, NEW t, Aimed(t),
           NEW a \in Account \cup {NoAccount}, NEW ok \in BOOLEAN, Persist(s, t, a, ok),
           Touches("record"), mixed' = mixed, Announced' = Announced,
           \/ s = "PENDING_INSTALL"
           \/ ~Waits(t)
           \/ InTable(t) => Excused \/ \E b \in Build : HoldsImage(t, b)
    PROVE  /\ ShownOk' /\ PlacesOk' /\ disk'[0] = disk[0]
           /\ \A r : InTable(r)' = InTable(r) /\ Aimed(r)' = Aimed(r)
           /\ Excused => Excused'
           /\ s # "PENDING_INSTALL" /\ ~Waits(t) => ~Waits(t)'
<1> DEFINE l == StateSector(t)
           c == Record(s, t, a)
<1>1. /\ t \in Regions /\ RoomFor(t)
      /\ l \in Sectors /\ l # 0 /\ l < PackageSector
  BY PlaceFacts DEF Aimed
<1>2. /\ c # Header /\ c # Table /\ c.kind = "record" /\ c.stage = s /\ c.target = t
  BY DEF Record, Header, Table
<1>3. disk \in [Sectors -> Content]
  BY DEF Types, SetupTypeOK
<1>4. disk' = disk \/ disk' = [disk EXCEPT ![l] = c]
  BY <1>1 DEF Persist, Write
<1>5. \A k \in Sectors : k # l => disk'[k] = disk[k]
  BY <1>3, <1>4
<1>6. disk'[l] = disk[l] \/ disk'[l] = c
  BY <1>1, <1>3, <1>4
<1> HIDE DEF l, c
<1>7. disk'[0] = disk[0]
  BY <1>1, <1>5, PlaceFacts
<1>8. \A r : InTable(r)' = InTable(r) /\ Aimed(r)' = Aimed(r)
  BY <1>7 DEF InTable, Aimed
<1>9. Excused => Excused'
  BY ExcuseStays
<1>10. ASSUME NEW q \in Regions, Shown(q)'
       PROVE  Shown(q) /\ RoomFor(q)
  <2>1. disk[q.start] = Header
    <3>1. q.start \in Sectors /\ disk'[q.start] = Header
      BY <1>10, RegionFacts DEF Shown
    <3>2. QED
      BY <3>1, <1>2, <1>5, <1>6
  <2>2. Shown(q)
    BY <1>8, <1>10, <2>1 DEF Shown
  <2>3. QED
    BY <2>2 DEF PlacesOk
<1>11. ASSUME NEW q \in Regions, Shown(q)', NEW b, HoldsImage(q, b)
       PROVE  HoldsImage(q, b)'
  <2>1. l > q.start + ImageSize /\ RoomFor(q)
    BY <1>10, <1>11, RecordsOutside DEF l
  <2>2. q.start \in Sectors /\ \A i \in Parts : q.start + i \in Sectors
    BY <2>1, <1>1, RegionFacts, LayoutFacts
  <2>3. q.start # l /\ \A i \in Parts : q.start + i # l
    BY <2>1, <2>2, LayoutFacts
  <2>4. QED
    BY <1>5, <1>11, <2>2, <2>3 DEF HoldsImage
<1>12. ASSUME NEW r \in Regions, Waits(r), ~Waits(r)'
       PROVE  StateSector(r) = l /\ disk'[l] = c /\ disk'[l] # disk[l] /\ s # "PENDING_INSTALL" /\ Waits(t)
  <2>1. StateSector(r) \in Sectors
    BY <1>12, RegionFacts, LayoutFacts DEF Waits, StateSector
  <2>2. StateSector(r) = l
    BY <1>5, <1>12, <2>1 DEF Waits
  <2>3. disk'[l] # disk[l] /\ Waits(t)
    BY <1>12, <2>2 DEF Waits, l
  <2>4. QED
    BY <1>2, <1>6, <1>12, <2>2, <2>3 DEF Waits
<1>13. ASSUME NEW q \in Regions, Shown(q)'
       PROVE  Excused' \/ Waits(q)' \/ \E b \in Build : HoldsImage(q, b)'
  <2>1. Excused \/ Waits(q) \/ \E b \in Build : HoldsImage(q, b)
    BY <1>10, <1>13 DEF ShownOk
  <2>2. CASE Waits(q) /\ ~Waits(q)'
    <3>1. StateSector(q) = l /\ disk'[l] # disk[l] /\ s # "PENDING_INSTALL" /\ Waits(t)
      BY <1>12, <2>2
    <3>2. CASE q = t
      <4>1. InTable(t)
        BY <1>10, <1>13, <3>2 DEF Shown
      <4>2. Excused \/ \E b \in Build : HoldsImage(t, b)
        BY <3>1, <4>1
      <4>3. QED
        BY <1>9, <1>11, <1>13, <3>2, <4>2
    <3>3. CASE q # t
      <4>1. l = StateSector(Whole)
        BY <1>1, <3>1, <3>3, OnePartition DEF l
      <4>2. Excused'
        BY <3>1, <4>1, ExcuseStays, PlaceFacts
      <4>3. QED
        BY <4>2
    <3>4. QED
      BY <3>2, <3>3
  <2>3. QED
    BY <1>9, <1>11, <1>13, <2>1, <2>2
<1>14. ShownOk'
  BY <1>13 DEF ShownOk
<1>15. ASSUME NEW r \in Regions, InTable(r), StateSector(r) # 0, disk'[StateSector(r)].kind = "record"
       PROVE  /\ StateSector(disk'[StateSector(r)].target) = StateSector(r)
              /\ RoomFor(disk'[StateSector(r)].target)
  <2>1. StateSector(r) \in Sectors
    BY <1>15, RegionFacts, LayoutFacts DEF StateSector
  <2>2. CASE StateSector(r) = l /\ disk'[l] = c
    BY <1>1, <1>2, <2>2 DEF l
  <2>3. CASE disk'[StateSector(r)] = disk[StateSector(r)]
    BY <1>15, <2>3 DEF PlacesOk
  <2>4. QED
    BY <1>5, <1>6, <2>1, <2>2, <2>3
<1>16. PlacesOk'
  <2>1. \A q \in Regions : Shown(q)' => RoomFor(q)
    BY <1>10
  <2>2. RoomFor(Whole) /\ disk'[0] \in {Header, Table}
    BY <1>7 DEF PlacesOk
  <2>3. QED
    BY <1>8, <1>15, <2>1, <2>2 DEF PlacesOk, RoomFor, StateSector, Whole
<1>17. ASSUME s # "PENDING_INSTALL", ~Waits(t)
       PROVE  ~Waits(t)'
  <2>1. CASE disk'[l] = disk[l]
    BY <1>17, <2>1 DEF Waits, l
  <2>2. CASE disk'[l] = c
    BY <1>2, <1>17, <2>2 DEF Waits, l
  <2>3. QED
    BY <1>6, <2>1, <2>2
<1>18. QED
  BY <1>7, <1>8, <1>9, <1>14, <1>16, <1>17

(* A write that is neither a header nor a record, and not to sector 0. *)
LEMMA PlainWrite ==
    ASSUME PlacesOk, disk \in [Sectors -> Content], NEW l \in Sectors, NEW c, l # 0,
           c # Header, c.kind # "record",
           disk' = disk \/ disk' = [disk EXCEPT ![l] = c]
    PROVE  /\ PlacesOk' /\ disk'[0] = disk[0]
           /\ \A r : InTable(r)' = InTable(r) /\ Aimed(r)' = Aimed(r)
           /\ \A r \in Regions : (Waits(r)' => Waits(r)) /\ (Shown(r)' => Shown(r))
<1>1. \A k \in Sectors : disk'[k] = disk[k] \/ disk'[k] = c
  OBVIOUS
<1>2. disk'[0] = disk[0]
  BY PlaceFacts
<1>3. \A r : InTable(r)' = InTable(r) /\ Aimed(r)' = Aimed(r)
  BY <1>2 DEF InTable, Aimed
<1>4. ASSUME NEW r \in Regions, Shown(r)'
      PROVE  Shown(r)
  BY <1>1, <1>3, <1>4, RegionFacts DEF Shown
<1>5. ASSUME NEW r \in Regions, StateSector(r) # 0, disk'[StateSector(r)].kind = "record"
      PROVE  disk'[StateSector(r)] = disk[StateSector(r)]
  <2>1. StateSector(r) \in Sectors
    BY <1>5, RegionFacts, LayoutFacts DEF StateSector
  <2>2. QED
    BY <1>1, <1>5, <2>1
<1>6. \A r \in Regions : Waits(r)' => Waits(r)
  BY <1>5 DEF Waits
<1>7. PlacesOk'
  <2>1. \A r \in Regions : Shown(r)' => RoomFor(r)
    BY <1>4 DEF PlacesOk
  <2>2. \A r \in Regions :
           InTable(r) /\ StateSector(r) # 0 /\ disk'[StateSector(r)].kind = "record"
             => /\ StateSector(disk'[StateSector(r)].target) = StateSector(r)
                /\ RoomFor(disk'[StateSector(r)].target)
    BY <1>5 DEF PlacesOk
  <2>3. RoomFor(Whole) /\ disk'[0] \in {Header, Table}
    BY <1>2 DEF PlacesOk
  <2>4. QED
    BY <1>3, <2>1, <2>2, <2>3 DEF PlacesOk, RoomFor, StateSector, Whole
<1>8. QED
  BY <1>2, <1>3, <1>4, <1>6, <1>7

LEMMA JobAimed ==
    ASSUME Types, JobOk, UpdOk, AimsOk, job # NoJob
    PROVE  Aimed(job.target) /\ job.target \in Regions /\ RoomFor(job.target)
<1>1. CASE upd.at = "write"
  BY <1>1 DEF UpdOk, AimsOk, Aimed
<1>2. CASE upd.at # "write"
  <2>1. phase = "INSTALLING" /\ job.target = region
    BY <1>2 DEF JobOk, AimsOk
  <2>2. QED
    BY <2>1, InRegionFacts DEF AimsOk, Aimed
<1>3. QED
  BY <1>1, <1>2

(* One write of an image, setup's or the updater's. *)
LEMMA ImageWrite ==
    ASSUME OneAtMost, Types, JobOk, UpdOk, PlacesOk, AimsOk, NEW ok \in BOOLEAN, JobWrites(ok)
    PROVE  /\ PlacesOk'
           /\ disk'[0] = disk[0] \/ (job.target = Whole /\ job.next = 0 /\ disk'[0] = Header)
           /\ ok /\ job.target = Whole => disk'[0] = Header
           /\ disk'[0] = Table => disk' = disk \/ job.target # Whole
           /\ \A r \in Regions : (r = job.target \/ r = Whole) /\ Waits(r) => Waits(r)'
<1> DEFINE t == job.target
           l == job.target.start + job.next
           c == JobSector(job)
<1>1. /\ job # NoJob /\ job.next \in 0 .. ImageSize
      /\ l \in Sectors /\ l < PackageSector /\ Write(l, c, ok)
  BY JobWritesFacts
<1>2. t \in Regions /\ RoomFor(t)
  BY <1>1, JobAimed
<1>3. disk \in [Sectors -> Content]
  BY DEF Types, SetupTypeOK
<1>4. /\ disk' = disk \/ disk' = [disk EXCEPT ![l] = c]
      /\ ok => disk' = [disk EXCEPT ![l] = c]
  BY <1>1 DEF Write
<1>5. \A k \in Sectors : k # l => disk'[k] = disk[k]
  BY <1>3, <1>4
<1>6. disk'[l] = disk[l] \/ disk'[l] = c
  BY <1>1, <1>3, <1>4
<1>7. /\ job.next = 0 => c = Header /\ l = t.start
      /\ job.next # 0 => c # Header
  <2>1. t.start \in Nat
    BY <1>2, RegionFacts, LayoutFacts
  <2>2. job.next # 0 => job.image[job.next] \in Loose
    BY <1>1, LayoutFacts DEF JobOk
  <2>3. QED
    BY <2>1, <2>2, ContentFacts DEF JobSector
<1>8. /\ l = 0 => t = Whole /\ job.next = 0
      /\ t = Whole /\ job.next = 0 => l = 0
      /\ t = Whole /\ job.next > 0 => disk[0] = Header
  BY <1>1, <1>2, <1>7, RegionFacts, LayoutFacts, PlaceFacts DEF AimsOk
<1>9. l < StateSector(t) /\ l < StateSector(Whole)
  BY <1>1, <1>2, PlaceFacts, RegionFacts, LayoutFacts
<1>10. disk'[0] = disk[0] \/ (t = Whole /\ job.next = 0 /\ disk'[0] = Header)
  BY <1>5, <1>6, <1>7, <1>8, PlaceFacts
<1>11. ok /\ t = Whole => disk'[0] = Header
  <2>1. CASE ok /\ t = Whole /\ job.next = 0
    BY <1>1, <1>3, <1>4, <1>7, <1>8, <2>1
  <2>2. CASE ok /\ t = Whole /\ job.next > 0
    BY <1>8, <1>10, <2>2
  <2>3. QED
    BY <1>1, <2>1, <2>2, LayoutFacts
<1>12. disk'[0] = Table => disk' = disk \/ t # Whole
  <2>1. SUFFICES ASSUME disk'[0] = Table, t = Whole PROVE disk' = disk
    OBVIOUS
  <2>2. job.next = 0 /\ l = 0 /\ c = Header
    <3>1. ~(job.next > 0)
      BY <1>8, <1>10, <2>1, PlaceFacts
    <3>2. QED
      BY <1>1, <1>7, <1>8, <2>1, <3>1, LayoutFacts
  <2>3. QED
    BY <1>1, <1>3, <1>4, <2>1, <2>2, PlaceFacts
<1>13. ASSUME NEW r \in Regions, r = t \/ r = Whole, Waits(r)
       PROVE  Waits(r)'
  <2>1. StateSector(r) \in Sectors /\ StateSector(r) # l
    BY <1>1, <1>2, <1>9, <1>13, PlaceFacts, LayoutFacts DEF PlacesOk
  <2>2. QED
    BY <1>5, <1>13, <2>1 DEF Waits
<1> HIDE DEF t, l, c
<1>14. ASSUME NEW q \in Regions, Shown(q)'
       PROVE  RoomFor(q)
  <2>1. CASE q = Whole
    BY <2>1 DEF PlacesOk
  <2>2. CASE q # Whole
    <3>1. disk'[0] = Table /\ disk'[q.start] = Header
      BY <1>14, <2>2 DEF Shown, InTable
    <3>2. disk[0] = Table
      BY <1>10, <3>1, PlaceFacts
    <3>3. CASE disk[q.start] = Header
      BY <3>2, <3>3 DEF PlacesOk, Shown, InTable
    <3>4. CASE disk[q.start] # Header
      <4>1. disk' # disk /\ q.start = l /\ c = Header
        BY <1>5, <1>6, <3>1, <3>4, RegionFacts
      <4>2. t # Whole
        BY <1>12, <3>1, <4>1
      <4>3. QED
        BY <1>2, <2>2, <4>2, OnePartition
    <3>5. QED
      BY <3>3, <3>4
  <2>3. QED
    BY <2>1, <2>2
<1>15. ASSUME NEW r \in Regions, InTable(r)', StateSector(r) # 0, disk'[StateSector(r)].kind = "record"
       PROVE  /\ StateSector(disk'[StateSector(r)].target) = StateSector(r)
              /\ RoomFor(disk'[StateSector(r)].target)
  <2>1. StateSector(r) \in Sectors
    BY <1>15, RegionFacts, LayoutFacts DEF StateSector
  <2>2. InTable(r)
    BY <1>10, <1>15, PlaceFacts DEF InTable
  <2>3. disk'[StateSector(r)] = disk[StateSector(r)]
    <3>1. CASE r = Whole
      <4>1. l \in Nat /\ StateSector(r) \in Nat
        BY <1>1, <2>1, LayoutFacts
      <4>2. StateSector(r) # l
        BY <1>9, <3>1, <4>1
      <4>3. QED
        BY <1>5, <2>1, <4>2
    <3>2. CASE r # Whole
      <4>1. disk' = disk \/ t # Whole
        BY <1>12, <1>15, <3>2 DEF InTable
      <4>2. CASE t # Whole
        <5>1. r = t
          BY <1>2, <3>2, <4>2, OnePartition
        <5>2. QED
          BY <1>1, <1>5, <1>9, <2>1, <5>1, LayoutFacts DEF l
      <4>3. QED
        BY <4>1, <4>2
    <3>3. QED
      BY <3>1, <3>2
  <2>4. QED
    BY <1>15, <2>2, <2>3 DEF PlacesOk
<1>16. PlacesOk'
  <2>1. RoomFor(Whole) /\ disk'[0] \in {Header, Table}
    BY <1>10 DEF PlacesOk
  <2>2. QED
    BY <1>14, <1>15, <2>1 DEF PlacesOk, RoomFor, StateSector, Whole
<1>17. QED
  BY <1>10, <1>11, <1>12, <1>13, <1>16 DEF t
-----------------------------------------------------------------------------
(* What a start decides from the drive. *)
LEMMA TornPowerOn ==
    ASSUME Types, TornInv, NEW bad, PowerOn(bad), disk' = disk, touched' = touched, mixed' = mixed,
           upd' = NoUpdate
    PROVE  TornInv'
<1>1. /\ ShownOk' /\ PlacesOk' /\ Excused' = Excused
      /\ \A t : InTable(t)' = InTable(t) /\ Aimed(t)' = Aimed(t) /\ Waits(t)' = Waits(t)
  BY StepWithoutWrite
<1>2. /\ seen' = Visible(bad) /\ job' = NoJob /\ install' = Clean
      /\ Pending(bad) # <<>> => phase' = "INSTALLING" /\ region' = Pending(bad)[1].target
      /\ Pending(bad) = <<>> /\ Loaded(bad) # <<>> =>
            phase' \in {"LOCKSCREEN", "USER_OOBE"} /\ region' = Loaded(bad)[1].target
      /\ Pending(bad) = <<>> /\ Loaded(bad) = <<>> => phase' \in {"WELCOME", "NONE"}
  BY DEF PowerOn
<1>3. seen' # <<>> => disk[0] = Table
  BY <1>2 DEF Visible
<1>4. disk \in [Sectors -> Content] /\ PlacesOk
  BY DEF Types, SetupTypeOK, TornInv
<1>5. CASE Pending(bad) # <<>>
  <2>1. PICK t \in Regions : /\ InTable(t) /\ RecordReadable(t, bad)
                             /\ disk[StateSector(t)].stage = "PENDING_INSTALL"
                             /\ Pending(bad)[1] = disk[StateSector(t)]
    BY <1>5, PendingPlace
  <2>2. PICK r : r = Pending(bad)[1].target
    OBVIOUS
  <2>3. Aimed(r) /\ Waits(r)
    BY <1>4, <2>1, <2>2, PlaceAims DEF RecordReadable
  <2>4. region' = r /\ phase' = "INSTALLING"
    BY <1>2, <1>5, <2>2
  <2>5. AimsOk'
    BY <1>1, <1>2, <1>3, <2>3, <2>4 DEF AimsOk, NoUpdate
  <2>6. InstallOk'
    BY <1>1, <1>2, <2>3, <2>4 DEF InstallOk
  <2>7. QED
    BY <1>1, <2>5, <2>6 DEF TornInv
<1>6. CASE Pending(bad) = <<>> /\ Loaded(bad) # <<>>
  <2>1. /\ Existing(bad) # <<>> /\ RecordReadable(Existing(bad)[1], bad)
        /\ disk[StateSector(Existing(bad)[1])].stage \in {"NEEDS_OOBE", "READY"}
        /\ Loaded(bad) = <<disk[StateSector(Existing(bad)[1])]>>
    BY <1>6 DEF Loaded
  <2>2. PICK t \in Regions : t = Existing(bad)[1] /\ InTable(t)
    BY <2>1, ExistingShown DEF Shown
  <2>3. PICK r : r = Loaded(bad)[1].target
    OBVIOUS
  <2>4. r = disk[StateSector(t)].target
    BY <2>1, <2>2, <2>3
  <2>5. Aimed(r) /\ ~Waits(r)
    BY <1>4, <2>1, <2>2, <2>4, PlaceAims DEF RecordReadable
  <2>6. region' = r /\ phase' \in {"LOCKSCREEN", "USER_OOBE"}
    BY <1>2, <1>6, <2>3
  <2>7. AimsOk'
    BY <1>1, <1>2, <1>3, <2>5, <2>6 DEF AimsOk, NoUpdate
  <2>8. InstallOk'
    BY <1>1, <1>2, <2>5, <2>6 DEF InstallOk
  <2>9. QED
    BY <1>1, <2>7, <2>8 DEF TornInv
<1>7. CASE Pending(bad) = <<>> /\ Loaded(bad) = <<>>
  <2>1. phase' \in {"WELCOME", "NONE"}
    BY <1>2, <1>7
  <2>2. AimsOk'
    BY <1>2, <1>3, <2>1, InRegionFacts DEF AimsOk, NoUpdate
  <2>3. InstallOk'
    BY <2>1, InRegionFacts DEF InstallOk
  <2>4. QED
    BY <1>1, <2>2, <2>3 DEF TornInv
<1>8. QED
  BY <1>5, <1>6, <1>7

(* The screens of setup but for the installation itself. *)
LEMMA TornScreens ==
    ASSUME OneAtMost, IInv, TornInv, upd = NoUpdate, upd' = NoUpdate,
           Touches("record"), mixed' = mixed, Announced' = Announced,
           \/ SetupClick \/ \E p \in Account : TypePassword(p)
           \/ \E ok \in BOOLEAN : OobeEnds(ok)
           \/ OobeGoesOn
    PROVE  TornInv'
<1> USE DEF IInv
<1>1. phase # "INSTALLING" /\ job = NoJob
  <2>1. phase # "INSTALLING"
    BY InRegionFacts DEF SetupClick, ClickNext, ClickSkip, ClickInstallRefused, ClickInstall,
           CreateAccount, ShowPrompt, Unlock, TypePassword, OobeEnds, OobeGoesOn, After
  <2>2. QED
    BY <2>1 DEF JobOk, NoUpdate
<1>2. CASE disk' = disk /\ UNCHANGED <<seen, region, job, install>>
           /\ \/ phase' = phase \/ phase' = "NONE"
              \/ phase = "WELCOME" /\ phase' = "INSTALLER"
              \/ phase \in InRegion /\ phase' \in InRegion /\ phase' # "INSTALLING"
  <2>1. touched' = touched
    BY <1>2, TouchesFacts
  <2>2. /\ ShownOk' /\ PlacesOk'
        /\ \A t : InTable(t)' = InTable(t) /\ Aimed(t)' = Aimed(t) /\ Waits(t)' = Waits(t)
    BY <1>2, <2>1, StepWithoutWrite
  <2>3. AimsOk'
    BY <1>1, <1>2, <2>2, InRegionFacts DEF AimsOk, TornInv, NoUpdate
  <2>4. InstallOk'
    BY <1>1, <1>2, <2>2, InRegionFacts DEF InstallOk, TornInv
  <2>5. QED
    BY <2>2, <2>3, <2>4 DEF TornInv
<1>3. CASE ClickNext \/ ClickSkip \/ ShowPrompt \/ Unlock \/ \E p \in Account : TypePassword(p)
  BY <1>2, <1>3 DEF ClickNext, ClickSkip, ShowPrompt, Unlock, TypePassword
<1>4. CASE \E t \in Regions : ClickInstallRefused(t)
  <2>1. /\ disk' = disk /\ UNCHANGED <<seen, region, job, phase>> /\ phase = "INSTALLER"
    BY <1>4 DEF ClickInstallRefused
  <2>2. touched' = touched
    BY <2>1, TouchesFacts
  <2>3. /\ ShownOk' /\ PlacesOk'
    BY <2>1, <2>2, StepWithoutWrite
  <2>4. AimsOk' /\ InstallOk'
    BY <1>1, <2>1, InRegionFacts DEF AimsOk, InstallOk, TornInv, NoUpdate
  <2>5. QED
    BY <2>3, <2>4 DEF TornInv
<1>5. CASE OobeGoesOn
  <2>1. phase \in InRegion /\ phase' \in InRegion /\ phase' # "INSTALLING"
    BY <1>5 DEF OobeGoesOn, After, InRegion
  <2>2. QED
    BY <1>2, <1>5, <2>1 DEF OobeGoesOn
<1>6. ASSUME NEW t \in Regions, NEW ok \in BOOLEAN, ClickInstall(t, ok)
      PROVE  TornInv'
  <2>1. /\ phase = "INSTALLER" /\ t \in Targets /\ RoomFor(t)
        /\ Persist("PENDING_INSTALL", t, NoAccount, ok)
        /\ phase' \in {"OFF", "INSTALLER"} /\ seen' \in {<<>>, seen} /\ job' = job
    BY <1>6 DEF ClickInstall
  <2>2. Aimed(t)
    <3>1. CASE seen = <<>>
      BY <2>1, <3>1 DEF Targets, Aimed, InTable
    <3>2. CASE seen # <<>>
      BY <2>1, <3>2 DEF Aimed, InTable, TornInv, AimsOk
    <3>3. QED
      BY <3>1, <3>2
  <2>3. ShownOk' /\ PlacesOk' /\ disk'[0] = disk[0]
    BY <2>1, <2>2, RecordWrite DEF TornInv, Stages
  <2>4. AimsOk'
    BY <1>1, <2>1, <2>3, InRegionFacts DEF AimsOk, TornInv, NoUpdate
  <2>5. InstallOk'
    BY <2>1, InRegionFacts DEF InstallOk
  <2>6. QED
    BY <2>3, <2>4, <2>5 DEF TornInv
<1>7. ASSUME NEW a \in Account \cup {NoAccount}, NEW ok \in BOOLEAN, Persist("READY", region, a, ok),
             phase \in InRegion, phase' \in InRegion \cup {"NONE"}, phase' # "INSTALLING",
             UNCHANGED <<seen, region, job>>
      PROVE  TornInv'
  <2>1. PICK t : t = region
    OBVIOUS
  <2>2. Aimed(t) /\ ~Waits(t)
    BY <1>1, <1>7, <2>1 DEF TornInv, AimsOk, InstallOk
  <2>3. /\ ShownOk' /\ PlacesOk' /\ disk'[0] = disk[0]
        /\ Aimed(t)' = Aimed(t) /\ ~Waits(t)'
    BY <1>7, <2>1, <2>2, RecordWrite DEF TornInv, Stages
  <2>4. AimsOk'
    BY <1>1, <1>7, <2>1, <2>2, <2>3, InRegionFacts DEF AimsOk, NoUpdate
  <2>5. InstallOk'
    BY <1>7, <2>1, <2>3 DEF InstallOk
  <2>6. QED
    BY <2>3, <2>4, <2>5 DEF TornInv
<1>8. ASSUME NEW a \in Account, NEW ok \in BOOLEAN, CreateAccount(a, ok)
      PROVE  TornInv'
  BY <1>7, <1>8 DEF CreateAccount, InRegion
<1>9. ASSUME NEW ok \in BOOLEAN, OobeEnds(ok)
      PROVE  TornInv'
  BY <1>7, <1>9 DEF OobeEnds, InRegion, Types, SetupTypeOK
<1>10. QED
  BY <1>3, <1>4, <1>5, <1>6, <1>8, <1>9 DEF SetupClick

(* The installation: the record waits until the image is there. *)
LEMMA TornInstalling ==
    ASSUME OneAtMost, IInv, TornInv, upd = NoUpdate, upd' = NoUpdate,
           Touches("record"), mixed' = mixed, Announced' = Announced,
           \/ InstallRefused \/ InstallBegins \/ Reboots
           \/ \E ok \in BOOLEAN : InstallWrites(ok) \/ InstallEnds(ok)
    PROVE  TornInv'
<1> USE DEF IInv
<1>1. PICK r : r = region
  OBVIOUS
<1>2. phase = "INSTALLING" /\ Aimed(r) /\ r \in Regions /\ RoomFor(r)
  BY <1>1, InRegionFacts DEF InstallRefused, InstallBegins, Reboots, InstallWrites, InstallEnds,
                             TornInv, AimsOk, Aimed
<1>3. disk \in [Sectors -> Content]
  BY DEF Types, SetupTypeOK
<1>4. Excused => Excused'
  BY ExcuseStays
<1>5. ~InstallRefused
  BY <1>1, <1>2 DEF InstallRefused
<1>6. CASE InstallBegins \/ Reboots
  <2>1. disk' = disk
    BY <1>6 DEF InstallBegins, Reboots
  <2>2. touched' = touched
    BY <2>1, TouchesFacts
  <2>3. /\ ShownOk' /\ PlacesOk' /\ Excused' = Excused
        /\ \A t : InTable(t)' = InTable(t) /\ Aimed(t)' = Aimed(t) /\ Waits(t)' = Waits(t)
    BY <2>1, <2>2, StepWithoutWrite
  <2>4. CASE InstallBegins
    <3>1. /\ phase' = phase /\ region' = region /\ install' = install /\ media' = media
          /\ ~install.started /\ job' = StartJob(Image(media), region)
      BY <2>4 DEF InstallBegins
    <3>2. AimsOk'
      BY <1>1, <1>2, <2>3, <3>1, InRegionFacts DEF AimsOk, NoUpdate, StartJob
    <3>3. InstallOk'
      BY <1>1, <1>2, <2>3, <3>1, LayoutFacts DEF InstallOk, TornInv, StartJob
    <3>4. QED
      BY <2>3, <3>2, <3>3 DEF TornInv
  <2>5. CASE Reboots
    <3>1. phase' = "OFF" /\ job' = job /\ job = NoJob
      BY <1>2, <2>5 DEF Reboots, JobOk, NoUpdate
    <3>2. AimsOk' /\ InstallOk'
      BY <3>1, InRegionFacts DEF AimsOk, InstallOk, NoUpdate
    <3>3. QED
      BY <2>3, <3>2 DEF TornInv
  <2>6. QED
    BY <1>6, <2>4, <2>5
<1>7. ASSUME NEW ok \in BOOLEAN, InstallEnds(ok)
      PROVE  TornInv'
  <2>1. /\ JobDone /\ Persist("NEEDS_OOBE", r, NoAccount, ok)
        /\ install'.started /\ job' = NoJob /\ phase' = phase /\ region' = region
    BY <1>1, <1>7 DEF InstallEnds
  <2>2. job # NoJob /\ job.next = ImageSize + 1
    BY <2>1 DEF JobDone, Idle
  <2>3. Excused \/ HoldsImage(r, media)
    <3>1. SUFFICES ASSUME ~Excused PROVE HoldsImage(r, media)
      OBVIOUS
    <3>2. /\ job.image = Image(media) /\ disk[r.start] = Header
          /\ \A i \in Parts : disk[r.start + i] = job.image[i]
      BY <1>1, <1>2, <2>2, <3>1, LayoutFacts DEF TornInv, InstallOk
    <3>3. QED
      BY <3>2 DEF HoldsImage, Image
  <2>4. media \in Build
    BY DEF Types, SetupTypeOK
  <2>5. ShownOk' /\ PlacesOk' /\ Aimed(r)' = Aimed(r)
    BY <1>2, <2>1, <2>3, <2>4, RecordWrite DEF TornInv, Stages
  <2>6. AimsOk'
    BY <1>1, <1>2, <2>1, <2>5, InRegionFacts DEF AimsOk, NoUpdate
  <2>7. InstallOk'
    BY <1>2, <2>1 DEF InstallOk
  <2>8. QED
    BY <2>5, <2>6, <2>7 DEF TornInv
<1>8. ASSUME NEW ok \in BOOLEAN, InstallWrites(ok)
      PROVE  TornInv'
  <2>1. /\ JobWrites(ok) /\ phase' = phase /\ region' = region /\ media' = media /\ seen' = seen
        /\ install' = IF ok THEN install ELSE [complete |-> FALSE, failed |-> TRUE, started |-> TRUE]
    BY <1>8 DEF InstallWrites
  <2> DEFINE l == r.start + job.next
             c == JobSector(job)
  <2>2. job # NoJob /\ ~install.started /\ job.target = r
    BY <1>1, <1>2, <2>1 DEF JobWrites, Idle, JobOk, TornInv, AimsOk, NoUpdate
  <2>3. /\ job.next \in 0 .. ImageSize /\ l \in Sectors /\ Write(l, c, ok)
        /\ ok => job' = [job EXCEPT !.next = @ + 1]
        /\ ~ok => job' = NoJob
    BY <2>1, <2>2, JobWritesFacts
  <2>4. /\ PlacesOk'
        /\ disk'[0] = disk[0] \/ (r = Whole /\ job.next = 0 /\ disk'[0] = Header)
        /\ ok /\ r = Whole => disk'[0] = Header
        /\ disk'[0] = Table => disk' = disk \/ r # Whole
        /\ \A q \in Regions : (q = r \/ q = Whole) /\ Waits(q) => Waits(q)'
    BY <2>1, <2>2, ImageWrite DEF TornInv
  <2>5. Excused \/ Waits(r)
    BY <1>1, <1>2, <2>2 DEF TornInv, InstallOk
  <2>6. ASSUME NEW q \in Regions, Shown(q)'
        PROVE  Excused' \/ Waits(q)' \/ \E b \in Build : HoldsImage(q, b)'
    <3>1. CASE Excused \/ q = r
      BY <1>2, <1>4, <2>4, <2>5, <3>1
    <3>2. CASE Waits(r) /\ q # r /\ r = Whole
      <4>1. disk'[0] = Table
        BY <2>6, <3>2 DEF Shown, InTable
      <4>2. disk' = disk
        BY <2>4, <3>2, <4>1
      <4>3. Shown(q)
        BY <2>6, <4>2 DEF Shown, InTable
      <4>4. Excused \/ Waits(q) \/ \E b \in Build : HoldsImage(q, b)
        BY <4>3 DEF TornInv, ShownOk
      <4>5. QED
        BY <1>4, <4>2, <4>4 DEF Waits, HoldsImage
    <3>3. CASE Waits(r) /\ q # r /\ r # Whole
      <4>1. q = Whole
        BY <1>2, <3>3, OnePartition
      <4>2. disk[0] = Header
        BY <2>4, <2>6, <3>3, <4>1, PlaceFacts DEF Shown
      <4>3. StateSector(r) = StateSector(Whole)
        BY <1>2, <3>3, <4>2, PlaceFacts DEF Aimed, InTable
      <4>4. Waits(Whole)
        BY <3>3, <4>3 DEF Waits
      <4>5. QED
        BY <2>4, <4>1, <4>4
    <3>4. QED
      BY <2>5, <3>1, <3>2, <3>3
  <2>7. ShownOk'
    BY <2>6 DEF ShownOk
  <2>8. Aimed(r)'
    <3>1. CASE r = Whole
      BY <2>4, <3>1, RegionConstants DEF Aimed, InTable, PlacesOk
    <3>2. CASE r # Whole
      BY <1>2, <2>4, <3>2 DEF Aimed, InTable
    <3>3. QED
      BY <3>1, <3>2
  <2>9. ok => job'.next = job.next + 1 /\ job'.image = job.image /\ job'.target = r
    BY <2>2, <2>3 DEF Types, Jobs
  <2>10. AimsOk'
    <3>1. job' # NoJob => ok
      BY <2>3
    <3>2. QED
      BY <1>1, <1>2, <2>1, <2>4, <2>8, <2>9, <3>1, InRegionFacts DEF AimsOk, NoUpdate
  <2>11. InstallOk'
    <3>1. ~install'.started => Excused' \/ Waits(r)'
      BY <1>2, <1>4, <2>4, <2>5
    <3>2. ASSUME ok, ~Excused
          PROVE  /\ job'.image = Image(media) /\ disk'[r.start] = Header
                 /\ \A i \in Parts : i < job.next + 1 => disk'[r.start + i] = job.image[i]
      <4>1. /\ job.image = Image(media)
            /\ job.next > 0 => disk[r.start] = Header
            /\ \A i \in Parts : i < job.next => disk[r.start + i] = job.image[i]
        BY <1>1, <1>2, <2>2, <3>2 DEF TornInv, InstallOk
      <4>2. disk' = [disk EXCEPT ![l] = c]
        BY <2>3, <3>2 DEF Write
      <4>3. r.start \in Sectors /\ r.start \in Nat /\ \A i \in Parts : r.start + i \in Sectors
        BY <1>2, RegionFacts, RegionConstants, LayoutFacts DEF Clear
      <4>4. disk'[r.start] = Header
        <5>1. CASE job.next = 0
          BY <1>3, <4>2, <4>3, <5>1 DEF JobSector
        <5>2. CASE job.next # 0
          BY <1>3, <2>3, <4>1, <4>2, <4>3, <5>2
        <5>3. QED
          BY <5>1, <5>2
      <4>5. ASSUME NEW i \in Parts, i < job.next + 1
            PROVE  disk'[r.start + i] = job.image[i]
        <5>1. CASE i = job.next
          BY <1>3, <4>2, <4>3, <5>1, LayoutFacts DEF JobSector
        <5>2. CASE i # job.next
          <6>1. i < job.next /\ r.start + i # l /\ r.start + i \in Sectors
            BY <2>3, <4>3, <4>5, <5>2, LayoutFacts
          <6>2. disk'[r.start + i] = disk[r.start + i]
            BY <1>3, <4>2, <6>1
          <6>3. QED
            BY <4>1, <6>1, <6>2
        <5>3. QED
          BY <5>1, <5>2
      <4>6. QED
        BY <2>9, <3>2, <4>1, <4>4, <4>5
    <3>3. job' # NoJob => ok
      BY <2>3
    <3>4. phase' = "INSTALLING" /\ phase' \notin InRegion \ {"INSTALLING"}
      BY <1>2, <2>1
    <3>5. ASSUME job' # NoJob
          PROVE  \/ Excused'
                 \/ /\ job'.image = Image(media)
                    /\ job'.next > 0 => disk'[region'.start] = Header
                    /\ \A i \in Parts : i < job'.next => disk'[region'.start + i] = job'.image[i]
      BY <1>1, <1>4, <2>1, <2>9, <3>2, <3>3, <3>5
    <3>6. QED
      BY <1>1, <2>1, <3>1, <3>4, <3>5 DEF InstallOk, Image, Parts, ImageSize
  <2>12. QED
    BY <2>4, <2>7, <2>10, <2>11 DEF TornInv
<1>9. QED
  BY <1>5, <1>6, <1>7, <1>8

LEMMA TornSetup ==
    ASSUME OneAtMost, IInv, TornInv, SetupStep
    PROVE  TornInv'
<1> USE DEF IInv
<1>1. /\ upd = NoUpdate /\ upd.at = "idle" /\ upd' = NoUpdate /\ upd' = upd
      /\ Touches("record") /\ mixed' = mixed /\ SetupNext
  BY DEF SetupStep, Updating, GuestStops, GuestStays, guestVars, NoUpdate
<1>2. MemoryOk
  BY DEF MemoryOk, Types, SetupTypeOK
<1>3. Harmless
  BY <1>1, <1>2, PowerOnStep, PowerCutStep, ScreenStep, InstallingStep DEF SetupNext
<1>4. Announced' = Announced
  BY <1>3, HarmlessKeepsDisk DEF Types, SetupTypeOK
<1>5. CASE \E bad \in BadSectors : PowerOn(bad)
  <2>1. disk' = disk
    BY <1>5 DEF PowerOn
  <2>2. touched' = touched
    BY <1>1, <2>1, TouchesFacts
  <2>3. QED
    BY <1>1, <1>5, <2>1, <2>2, TornPowerOn
<1>6. CASE PowerCut
  <2>1. disk' = disk /\ phase' = "OFF" /\ job' = NoJob
    BY <1>6 DEF PowerCut
  <2>2. touched' = touched
    BY <1>1, <2>1, TouchesFacts
  <2>3. ShownOk' /\ PlacesOk'
    BY <1>1, <2>1, <2>2, StepWithoutWrite
  <2>4. AimsOk' /\ InstallOk'
    BY <1>1, <2>1, InRegionFacts DEF AimsOk, InstallOk, NoUpdate
  <2>5. QED
    BY <2>3, <2>4 DEF TornInv
<1>7. QED
  BY <1>1, <1>4, <1>5, <1>6, TornScreens, TornInstalling DEF SetupNext

(* The host writes blobs, which is an excuse, or a header, which is one. *)
LEMMA TornHost ==
    ASSUME IInv, TornInv, HostStep
    PROVE  TornInv'
<1> USE DEF IInv
<1>1. /\ UNCHANGED <<phase, media, seen, region, install, job, upd>> /\ mixed' = mixed /\ HostNext
  BY DEF HostStep, setupVars, guestVars
<1>2. disk \in [Sectors -> Content]
  BY DEF Types, SetupTypeOK
<1>3. CASE ~StageHeader /\ ~StageBlob
  <2>1. disk' = disk /\ Touches("host")
    BY <1>1, <1>3 DEF HostStep, HostNext, Duplicate, StageBegins, Archived, Saved, HostFails
  <2>2. touched' = touched
    BY <2>1, TouchesFacts
  <2>3. /\ ShownOk' /\ PlacesOk' /\ Excused' = Excused /\ Announced' = Announced
        /\ \A t : InTable(t)' = InTable(t) /\ Aimed(t)' = Aimed(t) /\ Waits(t)' = Waits(t)
    BY <1>1, <2>1, <2>2, StepWithoutWrite
  <2>4. AimsOk' /\ InstallOk'
    BY <1>1, <2>1, <2>3 DEF AimsOk, InstallOk, TornInv
  <2>5. QED
    BY <2>3, <2>4 DEF TornInv
<1>4. ASSUME NEW l \in Sectors, NEW c, l # 0, c # Header, c.kind # "record",
             disk' = [disk EXCEPT ![l] = c], Excused', Announced # NoOffer => Announced' # NoOffer
      PROVE  TornInv'
  <2>1. /\ PlacesOk' /\ disk'[0] = disk[0]
        /\ \A r : InTable(r)' = InTable(r) /\ Aimed(r)' = Aimed(r)
        /\ \A r \in Regions : Waits(r)' => Waits(r)
    BY <1>2, <1>4, PlainWrite DEF TornInv
  <2>2. ShownOk'
    BY <1>4 DEF ShownOk
  <2>3. AimsOk'
    BY <1>1, <1>4, <2>1 DEF AimsOk, TornInv
  <2>4. InstallOk'
    <3>1. phase \in InRegion => region \in Regions
      BY DEF TornInv, AimsOk, Aimed
    <3>2. QED
      BY <1>1, <1>4, <2>1, <3>1 DEF InstallOk, TornInv
  <2>5. QED
    BY <2>1, <2>2, <2>3, <2>4 DEF TornInv
<1>5. CASE StageBlob
  <2>1. host.next \in Parts /\ host.build \in Build
    BY <1>5, LayoutFacts DEF StageBlob, HostOk
  <2> DEFINE l == StagedSector(host.next)
             c == Data(host.build, host.next)
  <2>2. /\ l \in Sectors /\ l # 0 /\ l # PackageSector /\ l \in StagedSectors
        /\ c # Header /\ c.kind # "record" /\ disk' = [disk EXCEPT ![l] = c]
    BY <1>5, <2>1, LayoutFacts, PlaceFacts DEF StageBlob, StagedSectors, Data, Header
  <2>3. Announced' = Announced
    BY <1>2, <2>2, LayoutFacts DEF Announced, PackageSector
  <2>4. Touches("host")
    <3>1. ~StageHeader
      BY <1>5, <2>1, LayoutFacts DEF StageHeader, StageBlob
    <3>2. QED
      BY <3>1 DEF HostStep
  <2>5. CASE disk'[l] # disk[l]
    <3>1. Excused'
      BY <1>1, <2>2, <2>3, <2>4, <2>5, ExcuseStays
    <3>2. QED
      BY <1>4, <2>2, <2>3, <3>1
  <2>6. CASE disk'[l] = disk[l]
    <3>1. disk' = disk
      BY <1>2, <2>2, <2>6
    <3>2. touched' = touched
      BY <2>4, <3>1, TouchesFacts
    <3>3. /\ ShownOk' /\ PlacesOk' /\ Excused' = Excused
          /\ \A t : InTable(t)' = InTable(t) /\ Aimed(t)' = Aimed(t) /\ Waits(t)' = Waits(t)
      BY <1>1, <3>1, <3>2, StepWithoutWrite
    <3>4. AimsOk' /\ InstallOk'
      BY <1>1, <2>3, <3>1, <3>3 DEF AimsOk, InstallOk, TornInv
    <3>5. QED
      BY <3>3, <3>4 DEF TornInv
  <2>7. QED
    BY <2>5, <2>6
<1>6. CASE StageHeader
  <2>1. host.version \in Nat /\ host.build \in Build
    BY <1>6 DEF StageHeader, HostOk, Types, HostTypeOK
  <2> DEFINE c == Package(host.version, host.build)
  <2>2. c # Header /\ c.kind # "record" /\ c.kind = "package" /\ c.build = host.build
    BY DEF Package, Header
  <2>3. disk' = [disk EXCEPT ![PackageSector] = c] /\ disk'[PackageSector] = c
    BY <1>2, <1>6, LayoutFacts DEF StageHeader
  <2>4. Announced' # NoOffer
    <3>1. Announced'.build = host.build
      BY <2>2, <2>3 DEF Announced, PackageSector
    <3>2. QED
      BY <2>1, <3>1, NoneAssumption DEF NoOffer
  <2>5. QED
    BY <1>4, <2>2, <2>3, <2>4, LayoutFacts, PlaceFacts DEF Excused
<1>7. QED
  BY <1>3, <1>5, <1>6

(* The updater aims at what a start finds, and while it writes its package *)
(* is on offer.                                                            *)
LEMMA TornReads ==
    ASSUME IInv, TornInv, disk' = disk, touched' = touched, mixed' = mixed,
           UNCHANGED <<phase, media, seen, region, install>>,
           \/ (\E bad : Poll(bad) \/ Begin(bad)) /\ job' = job
           \/ UpdateFails \/ ReadBlob \/ WriteBegins
    PROVE  TornInv'
<1> USE DEF IInv
<1>1. /\ ShownOk' /\ PlacesOk' /\ Excused' = Excused /\ Announced' = Announced
      /\ \A t : InTable(t)' = InTable(t) /\ Aimed(t)' = Aimed(t) /\ Waits(t)' = Waits(t)
  BY StepWithoutWrite
<1>2. CASE upd' = NoUpdate /\ job' = job /\ upd.at # "write"
  BY <1>1, <1>2 DEF TornInv, AimsOk, InstallOk, NoUpdate
<1>3. CASE UpdateFails
  BY <1>2, <1>3 DEF UpdateFails
<1>4. ASSUME NEW bad, Poll(bad), job' = job
      PROVE  TornInv'
  BY <1>2, <1>4 DEF Poll, Desktop, Updating, NoUpdate
<1>5. ASSUME NEW bad, Begin(bad), job' = job
      PROVE  TornInv'
  <2>1. /\ phase = "NONE" /\ upd = NoUpdate /\ Announced # NoOffer
        /\ upd' = [at |-> "read", pkg |-> Announced, target |-> UpdateTarget(bad), buffer |-> <<>>]
    BY <1>5 DEF Begin, Desktop, Updating
  <2>2. PICK t : t = UpdateTarget(bad)
    OBVIOUS
  <2>3. RoomFor(t) /\ InTable(t)
    <3>1. CASE Existing(bad) = <<>>
      BY <2>2, <3>1 DEF UpdateTarget, TornInv, PlacesOk, InTable
    <3>2. CASE Existing(bad) # <<>>
      BY <2>2, <3>2, ExistingShown DEF UpdateTarget, TornInv, PlacesOk, Shown
    <3>3. QED
      BY <3>1, <3>2
  <2>4. upd'.target = t /\ upd'.at = "read"
    BY <2>1, <2>2
  <2>5. AimsOk'
    BY <1>1, <1>5, <2>1, <2>3, <2>4 DEF TornInv, AimsOk, NoUpdate
  <2>6. InstallOk'
    BY <1>1, <1>5 DEF TornInv, InstallOk
  <2>7. QED
    BY <1>1, <2>5, <2>6 DEF TornInv
<1>6. CASE ReadBlob
  <2>1. upd.at = "read" /\ upd'.at = "read" /\ upd'.target = upd.target /\ job' = job
    BY <1>6 DEF ReadBlob, Types, Updates
  <2>2. AimsOk' /\ InstallOk'
    BY <1>1, <2>1 DEF TornInv, AimsOk, InstallOk
  <2>3. QED
    BY <1>1, <2>2 DEF TornInv
<1>7. CASE WriteBegins
  <2>1. /\ upd.at = "read" /\ upd'.at = "write" /\ upd'.target = upd.target
        /\ job'.next = 0
    BY <1>7 DEF WriteBegins, Types, Updates, StartJob
  <2>2. phase = "NONE"
    BY <2>1 DEF TornInv, AimsOk
  <2>3. AimsOk' /\ InstallOk'
    BY <1>1, <2>1, <2>2, InRegionFacts DEF TornInv, AimsOk, InstallOk
  <2>4. QED
    BY <1>1, <2>3 DEF TornInv
<1>8. QED
  BY <1>3, <1>4, <1>5, <1>6, <1>7

LEMMA TornWrites ==
    ASSUME OneAtMost, IInv, TornInv, NEW ok \in BOOLEAN, UpdateWrites(ok),
           UNCHANGED <<phase, media, seen, region, install, account, lock, created,
                       hostVars, mixed, done>>
    PROVE  TornInv'
<1> USE DEF IInv
<1>1. /\ upd.at = "write" /\ JobWrites(ok) /\ upd' = IF ok THEN upd ELSE NoUpdate
  BY DEF UpdateWrites
<1>2. /\ phase = "NONE" /\ Announced # NoOffer /\ InTable(upd.target) /\ RoomFor(upd.target)
      /\ job # NoJob /\ job.target = upd.target
  BY <1>1 DEF TornInv, AimsOk, UpdOk
<1>3. /\ Harmless
      /\ ok => job' = [job EXCEPT !.next = @ + 1]
      /\ ~ok => job' = NoJob
  BY <1>1, JobWritesFacts
<1>4. Announced' # NoOffer
  BY <1>1, <1>2, JobWritesFacts, HarmlessKeepsDisk DEF Types, SetupTypeOK
<1>5. /\ PlacesOk'
      /\ disk'[0] = disk[0] \/ (job.target = Whole /\ job.next = 0 /\ disk'[0] = Header)
      /\ ok /\ job.target = Whole => disk'[0] = Header
  BY <1>1, ImageWrite DEF TornInv
<1>6. ShownOk'
  BY <1>4 DEF ShownOk, Excused
<1>7. ok => job'.target = job.target
  <2>1. job \in Jobs
    BY DEF Types
  <2>2. QED
    BY <1>3, <2>1 DEF Jobs
<1>8. AimsOk'
  <2>1. CASE ~ok
    BY <1>1, <1>2, <1>3, <2>1, InRegionFacts DEF AimsOk, NoUpdate
  <2>2. CASE ok
    <3>1. InTable(upd.target)'
      BY <1>1, <1>2, <1>5, <2>2 DEF InTable
    <3>2. upd' = upd
      BY <1>1, <2>2
    <3>3. job'.target = Whole => disk'[0] = Header
      BY <1>5, <1>7, <2>2
    <3>4. QED
      BY <1>1, <1>2, <1>4, <3>1, <3>2, <3>3, InRegionFacts DEF AimsOk
  <2>3. QED
    BY <2>1, <2>2
<1>9. InstallOk'
  BY <1>2, InRegionFacts DEF InstallOk
<1>10. QED
  BY <1>5, <1>6, <1>8, <1>9 DEF TornInv

(* The package leaves the drive once the only image a start can find is    *)
(* whole.                                                                  *)
LEMMA TornEnds ==
    ASSUME OneAtMost, IInv, TornInv, FinishStep
    PROVE  TornInv'
<1> USE DEF IInv
<1>1. /\ upd.at = "write" /\ JobDone /\ job' = NoJob /\ upd' = NoUpdate
      /\ disk' = disk \/ disk' = [disk EXCEPT ![PackageSector] = Blank]
      /\ mixed' = (touched # {}) /\ touched' = touched
      /\ UNCHANGED <<phase, media, seen, region, install>>
  BY DEF FinishStep, UpdateEnds, Write
<1>2. disk \in [Sectors -> Content] /\ Blank # Header /\ Blank.kind # "record"
  BY DEF Types, SetupTypeOK, Blank, Header
<1>3. /\ PlacesOk' /\ disk'[0] = disk[0]
      /\ \A r \in Regions : Shown(r)' => Shown(r)
  BY <1>1, <1>2, PlainWrite, LayoutFacts, PlaceFacts DEF TornInv
<1>4. PICK t : t = upd.target
  OBVIOUS
<1>5. phase = "NONE" /\ InTable(t) /\ RoomFor(t) /\ job.target = t /\ t \in Regions /\ Clear(t.start)
  BY <1>1, <1>4 DEF TornInv, AimsOk, UpdOk
<1>6. ASSUME touched = {}, NEW q \in Regions, Shown(q)'
      PROVE  \E b \in Build : HoldsImage(q, b)'
  <2>1. HoldsImage(t, upd.pkg.build) /\ upd.pkg.build \in Build
    <3>1. job.next = ImageSize + 1 /\ \A i \in Parts : i < job.next
      BY <1>1, LayoutFacts DEF JobDone
    <3>2. QED
      BY <1>1, <1>5, <1>6, <3>1, LayoutFacts DEF GuestOk, HoldsImage, UpdOk, Offers
  <2>2. q = t
    <3>1. Shown(q)
      BY <1>3, <1>6
    <3>2. CASE t = Whole
      <4>1. disk[0] = Header
        BY <2>1, <3>2, PlaceFacts DEF HoldsImage
      <4>2. QED
        BY <3>1, <3>2, <4>1, PlaceFacts DEF Shown, InTable
    <3>3. CASE t # Whole
      <4>1. disk[0] = Table
        BY <1>5, <3>3 DEF InTable
      <4>2. q # Whole
        BY <3>1, <4>1, PlaceFacts DEF Shown
      <4>3. QED
        BY <1>5, <3>3, <4>2, OnePartition
    <3>4. QED
      BY <3>2, <3>3
  <2>3. /\ t.start \in Sectors /\ t.start # PackageSector
        /\ \A i \in Parts : t.start + i \in Sectors /\ t.start + i # PackageSector
    BY <1>5, RegionFacts, LayoutFacts DEF Clear
  <2>4. PICK b \in Build : b = upd.pkg.build
    BY <2>1
  <2>5. HoldsImage(t, b)'
    BY <1>1, <1>2, <2>1, <2>3, <2>4 DEF HoldsImage
  <2>6. QED
    BY <2>2, <2>4, <2>5
<1>7. ShownOk'
  <2>1. CASE touched = {}
    BY <1>6, <2>1 DEF ShownOk
  <2>2. CASE touched # {}
    BY <1>1, <2>2 DEF ShownOk, Excused
  <2>3. QED
    BY <2>1, <2>2
<1>8. AimsOk' /\ InstallOk'
  BY <1>1, <1>5, InRegionFacts DEF AimsOk, InstallOk, NoUpdate
<1>9. QED
  BY <1>3, <1>7, <1>8 DEF TornInv

LEMMA TornInit ==
    ASSUME OneAtMost, Init
    PROVE  TornInv
<1>1. PICK t \in Regions, b \in Media, a \in Account :
          /\ RoomFor(t)
          /\ disk = [l \in Sectors |->
                       CASE l = 0 /\ t # Whole -> Table
                         [] l = t.start -> Header
                         [] l - t.start \in Parts -> Data(b, l - t.start)
                         [] l = StateSector(t) -> IF t = Whole THEN Record("NEEDS_OOBE", t, NoAccount)
                                                               ELSE Record("READY", t, a)
                         [] OTHER -> Blank]
  BY DEF Init
<1>2. /\ t.start \in Nat /\ t.start \in Sectors
      /\ t.start = 0 <=> t = Whole
      /\ StateSector(t) \in Nat /\ StateSector(t) > t.start + ImageSize /\ StateSector(t) < Total
  <2>1. t.start \in Nat /\ t.start \in Sectors
    BY RegionFacts, LayoutFacts
  <2>2. t.start = 0 <=> t = Whole
    BY PlaceFacts
  <2>3. StateSector(t) \in Nat /\ StateSector(t) > t.start + ImageSize /\ StateSector(t) < Total
    BY <1>1, PlaceFacts, LayoutFacts
  <2>4. QED
    BY <2>1, <2>2, <2>3
<1>3. /\ disk[t.start] = Header
      /\ \A i \in Parts : disk[t.start + i] = Data(b, i)
      /\ t # Whole => disk[0] = Table
      /\ RoomFor(Whole)
  <2>1. disk[t.start] = Header
    BY <1>1, <1>2, LayoutFacts
  <2>2. ASSUME NEW i \in Parts PROVE disk[t.start + i] = Data(b, i)
    <3>1. PICK l \in Sectors : l = t.start + i
      BY <1>2, LayoutFacts
    <3>2. l # 0 /\ l # t.start /\ l # StateSector(t) /\ l - t.start = i
      BY <1>2, <3>1, LayoutFacts
    <3>3. disk[l] = Data(b, l - t.start)
      BY <1>1, <3>2
    <3>4. QED
      BY <3>1, <3>2, <3>3
  <2>3. t # Whole => disk[0] = Table
    BY <1>1, <1>2, LayoutFacts
  <2>4. RoomFor(Whole)
    BY <1>1, RegionFacts, LayoutFacts DEF RoomFor, Whole
  <2>5. QED
    BY <2>1, <2>2, <2>3, <2>4
<1>4. \A l \in Sectors : disk[l] = Header => l = t.start
  BY <1>1, ContentFacts DEF Header, Table, Data, Record, Blank
<1>5. \A l \in Sectors : disk[l].kind = "record" =>
          l = StateSector(t) /\ disk[l].target = t /\ disk[l].stage # "PENDING_INSTALL"
  BY <1>1 DEF Header, Table, Data, Record, Blank
<1>6. ASSUME NEW q \in Regions, Shown(q)
      PROVE  q = t \/ q = Whole
  BY <1>3, <1>6, OnePartition, RegionConstants, PlaceFacts, <1>1 DEF Shown, InTable
<1>7. ASSUME NEW q \in Regions, Shown(q)
      PROVE  q = t
  <2>1. q.start = t.start
    BY <1>4, <1>7, RegionFacts DEF Shown
  <2>2. QED
    BY <1>2, <1>6, <1>7, <2>1, PlaceFacts
<1>8. ShownOk
  BY <1>3, <1>7, DiskAssumption DEF ShownOk, HoldsImage
<1>9. PlacesOk
  <2>1. disk[0] \in {Header, Table}
    BY <1>2, <1>3
  <2>2. ASSUME NEW r \in Regions, StateSector(r) # 0, disk[StateSector(r)].kind = "record"
        PROVE  /\ StateSector(disk[StateSector(r)].target) = StateSector(r)
               /\ RoomFor(disk[StateSector(r)].target)
    <3>1. StateSector(r) \in Sectors
      BY <2>2, RegionFacts, LayoutFacts DEF StateSector
    <3>2. QED
      BY <1>1, <1>5, <2>2, <3>1
  <2>3. QED
    BY <1>1, <1>3, <1>7, <2>1, <2>2 DEF PlacesOk
<1>10. AimsOk /\ InstallOk
  BY InRegionFacts DEF Init, SetupInit, UpdateInit, AimsOk, InstallOk, NoUpdate
<1>11. QED
  BY <1>8, <1>9, <1>10 DEF TornInv

LEMMA TornNext ==
    ASSUME OneAtMost, IInv, TornInv, [Next]_vars
    PROVE  TornInv'
<1>1. CASE SetupStep
  BY <1>1, TornSetup
<1>2. CASE PowerCutDuringUpdate
  <2>1. /\ disk' = disk /\ phase' = "OFF" /\ job' = NoJob /\ upd' = NoUpdate
        /\ touched' = touched /\ mixed' = mixed
    BY <1>2 DEF PowerCutDuringUpdate, PowerCut, GuestStops
  <2>2. ShownOk' /\ PlacesOk'
    BY <2>1, StepWithoutWrite
  <2>3. AimsOk' /\ InstallOk'
    BY <2>1, InRegionFacts DEF AimsOk, InstallOk, NoUpdate
  <2>4. QED
    BY <2>2, <2>3 DEF TornInv
<1>3. CASE HostStep
  BY <1>3, TornHost
<1>4. CASE GuestStep
  <2>1. UNCHANGED <<phase, media, seen, region, install>>
        /\ disk' = disk /\ touched' = touched /\ mixed' = mixed /\ job' = job
    BY <1>4 DEF GuestStep, setupVars
  <2>2. \E bad : Poll(bad) \/ Begin(bad)
    BY <1>4 DEF GuestStep
  <2>3. QED
    BY <2>1, <2>2, TornReads
<1>5. CASE InstallStep
  <2>1. UNCHANGED <<phase, media, seen, region, install, account, lock, created,
                    hostVars, mixed, done>>
    BY <1>5 DEF InstallStep
  <2>2. CASE (UpdateFails \/ ReadBlob \/ WriteBegins) /\ UNCHANGED touched
    <3>1. disk' = disk
      BY <2>2 DEF UpdateFails, ReadBlob, WriteBegins
    <3>2. QED
      BY <2>1, <2>2, <3>1, TornReads
  <2>3. CASE \E ok \in BOOLEAN : UpdateWrites(ok)
    BY <2>1, <2>3, TornWrites
  <2>4. QED
    BY <1>5, <2>2, <2>3 DEF InstallStep
<1>6. CASE FinishStep
  BY <1>6, TornEnds
<1>7. CASE UNCHANGED vars
  <2>1. UNCHANGED <<disk, phase, media, seen, region, install, job, upd, touched, mixed>>
    BY <1>7 DEF vars, setupVars, hostVars, updateVars, guestVars
  <2>2. /\ ShownOk' /\ PlacesOk' /\ Excused' = Excused /\ Announced' = Announced
        /\ \A t : InTable(t)' = InTable(t) /\ Aimed(t)' = Aimed(t) /\ Waits(t)' = Waits(t)
    BY <2>1, StepWithoutWrite
  <2>3. AimsOk' /\ InstallOk'
    BY <2>1, <2>2 DEF TornInv, AimsOk, InstallOk
  <2>4. QED
    BY <2>2, <2>3 DEF TornInv
<1>8. QED
  BY <1>1, <1>2, <1>3, <1>4, <1>5, <1>6, <1>7 DEF Next

(* On a drive with at most one partition a torn image is never left        *)
(* without what repairs it: the pending record or the package              *)
(* (install_staged_update, update_setup_state). With two installed         *)
(* partitions an update can go to the one whose header could be read and   *)
(* take the package from the other.                                        *)
THEOREM TornIsOnOffer ==
    ASSUME Len(Partitions) <= 1
    PROVE  Spec => []TornMeansOnOffer
<1>1. OneAtMost
  BY DEF OneAtMost
<1>2. Init => TornInv
  BY <1>1, TornInit
<1>3. IInv /\ TornInv /\ [Next]_vars => TornInv'
  BY <1>1, TornNext
<1>4. TornInv => TornMeansOnOffer
  <2> SUFFICES ASSUME TornInv, Existing({}) # <<>>,
                      \A b \in Build : ~HoldsImage(Existing({})[1], b), ~Excused
               PROVE  Pending({}) # <<>>
    BY DEF TornMeansOnOffer, Excused
  <2>1. PICK t \in Regions : t = Existing({})[1] /\ Shown(t)
    BY ExistingShown
  <2>2. Waits(t)
    BY <2>1 DEF TornInv, ShownOk
  <2> DEFINE places == IF Visible({}) = <<>> THEN <<Whole>> ELSE Visible({})
             found == {i \in DOMAIN places : /\ RecordReadable(places[i], {})
                                             /\ disk[StateSector(places[i])].stage = "PENDING_INSTALL"}
  <2>3. \E i \in DOMAIN places : places[i] = t
    <3>1. CASE t = Whole
      <4>1. disk[0] = Header
        BY <2>1, <3>1, PlaceFacts DEF Shown
      <4>2. places = <<Whole>>
        BY <4>1, PlaceFacts DEF Visible
      <4>3. QED
        BY <3>1, <4>2
    <3>2. CASE t # Whole
      <4>1. disk[0] = Table /\ \E i \in DOMAIN Partitions : t = Partitions[i]
        BY <2>1, <3>2 DEF Shown, InTable, Regions
      <4>2. Visible({}) = Partitions /\ Partitions # <<>>
        BY <4>1 DEF Visible
      <4>3. QED
        BY <4>1, <4>2
    <3>3. QED
      BY <3>1, <3>2
  <2>4. found # {}
    BY <2>2, <2>3 DEF Waits, RecordReadable
  <2>5. QED
    BY <2>4 DEF Pending
<1>5. QED
  BY <1>2, <1>3, <1>4, UpdateInvariant, PTL DEF Spec
=============================================================================

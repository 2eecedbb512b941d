-------------------------------- MODULE Disk --------------------------------
(***************************************************************************)
(* The drive as the kernel sees it, sector by sector, and the three        *)
(* structures on it: an installed image (header, kernel, initrd), the      *)
(* install state in the last sector but one of a target, and a staged      *)
(* update (blobs in front of a header in the last sector).                 *)
(* A sector is written whole or not at all; a write that reports a failure *)
(* may have reached the medium.                                            *)
(***************************************************************************)
EXTENDS Naturals, Sequences

CONSTANTS
    Total,          \* sectors of the drive
    KernelSectors,  \* sectors of a kernel and
    InitrdSectors,  \* of an initrd
    Partitions,     \* the partition table, when there is one
    Build,          \* builds of the system
    Media,          \* those the machine may be started from
    Unreadable,     \* sectors that sometimes cannot be read
    Account,        \* user names with their passwords
    NoAccount       \* what an unfinished setup writes

ASSUME DiskAssumption ==
    /\ Total \in Nat \ {0} /\ KernelSectors \in Nat \ {0} /\ InitrdSectors \in Nat \ {0}
    /\ Partitions \in Seq([start : 1 .. Total - 1, count : 1 .. Total - 1])
    /\ \A i \in DOMAIN Partitions : Partitions[i].start + Partitions[i].count <= Total
    /\ Media \subseteq Build /\ Unreadable \subseteq 0 .. Total - 1
    /\ NoAccount \notin Account

VARIABLE disk

Sectors == 0 .. Total - 1
ImageSize == KernelSectors + InitrdSectors
Parts == 1 .. ImageSize
Whole == [start |-> 0, count |-> Total]
Regions == {Partitions[i] : i \in DOMAIN Partitions} \cup {Whole}

Blank == [kind |-> "blank"]
Table == [kind |-> "table"]
Header == [kind |-> "header"]
Data(b, i) == [kind |-> "data", build |-> b, part |-> i]
Record(s, t, a) == [kind |-> "record", stage |-> s, target |-> t, account |-> a]
Package(v, b) == [kind |-> "package", version |-> v, build |-> b]

Stages == {"PENDING_INSTALL", "NEEDS_OOBE", "READY"}
Content ==
    {Blank, Table, Header}
    \cup [kind : {"data"}, build : Build, part : Parts]
    \cup [kind : {"record"}, stage : Stages, target : Regions, account : Account \cup {NoAccount}]
    \cup [kind : {"package"}, version : Nat, build : Build]

(* ata_pio_write_sectors of one sector. *)
Write(l, c, ok) ==
    IF ok THEN disk' = [disk EXCEPT ![l] = c]
          ELSE disk' \in {disk, [disk EXCEPT ![l] = c]}

(* At most one sector cannot be read during one scan of the drive. *)
BadSectors == {{}} \cup {{l} : l \in Unreadable}

(* ata_load_partition_info *)
Visible(bad) == IF 0 \notin bad /\ disk[0] = Table THEN Partitions ELSE <<>>

(* installer_header_present_at *)
HeaderAt(l, bad) == l \notin bad /\ disk[l] = Header

First(places) == CHOOSE i \in places : \A j \in places : i <= j

(* installer_find_existing_install, as a sequence of at most one region *)
Existing(bad) ==
    LET found == {i \in DOMAIN Visible(bad) : HeaderAt(Visible(bad)[i].start, bad)}
    IN  IF HeaderAt(0, bad) THEN <<Whole>>
        ELSE IF found = {} THEN <<>> ELSE <<Visible(bad)[First(found)]>>

(* install_state_sector_lba; 0 stands for a target without room for one *)
StateSector(t) == IF t.count < 2 THEN 0 ELSE t.start + t.count - 2

(* read_install_state_sector *)
RecordReadable(t, bad) ==
    /\ StateSector(t) # 0
    /\ StateSector(t) \notin bad
    /\ disk[StateSector(t)].kind = "record"

(* find_pending_install_state: the first partition with a pending record;  *)
(* the whole drive only when there is no partition                         *)
Pending(bad) ==
    LET places == IF Visible(bad) = <<>> THEN <<Whole>> ELSE Visible(bad)
        found == {i \in DOMAIN places : /\ RecordReadable(places[i], bad)
                                        /\ disk[StateSector(places[i])].stage = "PENDING_INSTALL"}
    IN  IF found = {} THEN <<>> ELSE <<disk[StateSector(places[First(found)])]>>

(* load_existing_install_state *)
Loaded(bad) ==
    LET e == Existing(bad)
    IN  IF e # <<>> /\ RecordReadable(e[1], bad)
           /\ disk[StateSector(e[1])].stage \in {"NEEDS_OOBE", "READY"}
        THEN <<disk[StateSector(e[1])]>> ELSE <<>>

(* The target's image is complete and of one build. *)
HoldsImage(t, b) ==
    /\ disk[t.start] = Header
    /\ \A i \in Parts : disk[t.start + i] = Data(b, i)
=============================================================================

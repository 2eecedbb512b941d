---------------------------- MODULE FileManager ----------------------------
(***************************************************************************)
(* The File Manager: four places on the left, the folders and files of the *)
(* mounted archive on the right. A path is a sequence of names, a file is  *)
(* its path and its kind; texts and sizes are left out. What is mounted is *)
(* the archive the system came up with or one read from a partition; both  *)
(* hold the same files, as an installation is a copy.                      *)
(***************************************************************************)
EXTENDS Naturals, Sequences, FiniteSetsExt

CONSTANTS
    Archive,       \* the files of the archive, in its order
    Partition,     \* partitions of the disk
    Installed,     \* those that begin with a JabulOS header
    MaxEntries,    \* FILE_MANAGER_MAX_ENTRIES
    RowsVisible    \* how many rows the window may show

VARIABLE fm

Kinds == {"audio", "image", "exe", "other"}    \* what files are told apart by
Sidebar == {"DOWNLOADS", "MUSIC", "PHOTOS", "THIS_PC"}
NoSource == [kind |-> "NONE"]
LiveMedia == [kind |-> "LIVE_MEDIA"]
ArchiveOf(p) == [kind |-> "PARTITION_ARCHIVE", partition |-> p]
Unsupported(p) == [kind |-> "UNSUPPORTED_PARTITION", partition |-> p]

(* file_manager_sidebar_prefix *)
PlacePrefix(place) ==
    CASE place = "DOWNLOADS" -> <<"Downloads">>
      [] place = "MUSIC" -> <<"assets", "music">>
      [] place = "PHOTOS" -> <<"photos">>
      [] place = "THIS_PC" -> <<>>

(* file_manager_build_archive_path *)
ArchivePath(s, path) == PlacePrefix(s.sidebar) \o path

(* file_manager_get_archive_view *)
Mounted(s) ==
    \/ s.source = LiveMedia /\ s.live
    \/ s.source.kind = "PARTITION_ARCHIVE" /\ s.buffer

-----------------------------------------------------------------------------
(* The rows: sources at the root of This PC, else folders and files.       *)
SourceRow(source) == [what |-> "source", path |-> <<>>, source |-> source]

(* file_manager_partition_read_header, where "wanted" says whether the     *)
(* caller gave it a place for the header.                                  *)
PartitionReadHeader(p, wanted) == wanted /\ p \in Installed

(* file_manager_refresh_entries asks without one. *)
PartitionSource(p) == IF PartitionReadHeader(p, FALSE) THEN ArchiveOf(p) ELSE Unsupported(p)

RootRows(s) ==
    (IF s.live THEN <<SourceRow(LiveMedia)>> ELSE <<>>)
    \o [i \in DOMAIN Partition |-> SourceRow(PartitionSource(Partition[i]))]

Admitted(place, file) ==
    CASE place = "MUSIC" -> file.kind = "audio"
      [] place = "PHOTOS" -> file.kind = "image"
      [] OTHER -> TRUE

(* The comparison with the prefix and the slash behind it.                 *)
IsBelow(prefix, path) == Len(prefix) < Len(path) /\ prefix = SubSeq(path, 1, Len(prefix))

(* file_manager_scan_archive_callback *)
AddFile(s, rows, file) ==
    LET prefix == ArchivePath(s, s.path)
        path == SubSeq(file.path, Len(PlacePrefix(s.sidebar)) + 1, Len(prefix) + 1)
        row == IF Len(file.path) = Len(prefix) + 1
               THEN [what |-> file.kind, path |-> path] ELSE [what |-> "folder", path |-> path]
    IN  IF /\ Admitted(s.sidebar, file)
           /\ IsBelow(prefix, file.path)
           /\ Len(rows) < MaxEntries
           /\ \A i \in DOMAIN rows : rows[i].path # path
        THEN Append(rows, row) ELSE rows

(* initrd_list_files: the rows after the first k files of the archive      *)
ArchiveRows(s) ==
    LET rows[k \in 0 .. Len(Archive)] ==
            IF k = 0 THEN <<>> ELSE AddFile(s, rows[k - 1], Archive[k])
    IN  rows[Len(Archive)]

(* file_manager_refresh_entries *)
RefreshEntries(s) ==
    [s EXCEPT !.scroll = 0, !.selected = 1,
              !.entries = CASE s.sidebar = "THIS_PC" /\ s.root -> RootRows(s)
                            [] ~(s.sidebar = "THIS_PC" /\ s.root) /\ Mounted(s) -> ArchiveRows(s)
                            [] OTHER -> <<>>]

-----------------------------------------------------------------------------
(* file_manager_open_source: the preview is closed and what was mounted is *)
(* released before anything can fail. "done" is what it returns.           *)
OpenSource(s, source) ==
    LET bare == [s EXCEPT !.preview = "none", !.buffer = FALSE, !.source = NoSource, !.path = <<>>]
        opened == [state |-> [bare EXCEPT !.source = source], done |-> TRUE]
        failed == [state |-> bare, done |-> FALSE]
    IN  CASE source = LiveMedia -> {IF s.live THEN opened ELSE failed}
          [] source.kind = "UNSUPPORTED_PARTITION" -> {opened}
          [] source.kind = "PARTITION_ARCHIVE" ->
                \* no header, no memory or no answer of the disk
                {failed} \cup (IF PartitionReadHeader(source.partition, TRUE)
                               THEN {[opened EXCEPT !.state.buffer = TRUE]} ELSE {})

(* file_manager_select_sidebar, with file_manager_ensure_browsable_source *)
SelectSidebar(s, place) ==
    LET there == [s EXCEPT !.sidebar = place, !.path = <<>>, !.root = (place = "THIS_PC")]
        browsable == s.source.kind \in {"LIVE_MEDIA", "PARTITION_ARCHIVE"}
    IN  IF place = "THIS_PC" \/ browsable \/ ~s.live THEN {RefreshEntries(there)}
        ELSE {RefreshEntries(r.state) : r \in OpenSource(there, LiveMedia)}

(* The Prev and Next buttons *)
Prev(s, visible) == [s EXCEPT !.scroll = IF @ >= visible THEN @ - visible ELSE 0]
NextPage(s, visible) ==
    [s EXCEPT !.scroll = IF @ + visible < Len(s.entries) THEN @ + visible ELSE @]

(* Up without reading the rows anew *)
Up_stale(s) == IF s.path # <<>> THEN [s EXCEPT !.path = SubSeq(@, 1, Len(@) - 1)] ELSE s

(* The Up button, with file_manager_step_up_path *)
Up(s) ==
    IF s.path # <<>> THEN RefreshEntries([s EXCEPT !.path = SubSeq(@, 1, Len(@) - 1)])
    ELSE IF s.sidebar = "THIS_PC" /\ ~s.root THEN RefreshEntries([s EXCEPT !.root = TRUE])
    ELSE s

(* file_manager_open_file: only a picture changes what is kept. *)
OpenFile(s, row) ==
    IF row.what = "image" /\ Mounted(s) /\ [path |-> ArchivePath(s, row.path), kind |-> "image"] \in Range(Archive)
    THEN [s EXCEPT !.preview = IF s.buffer THEN "buffer" ELSE "live"] ELSE s

(* file_manager_activate_entry, on a row in sight *)
ActivateEntry(s, n) ==
    LET row == s.entries[n]
        at == [s EXCEPT !.selected = n]
    IN  CASE row.what = "source" ->
                {IF r.done THEN RefreshEntries([r.state EXCEPT !.root = FALSE]) ELSE r.state :
                    r \in OpenSource(at, row.source)}
          [] row.what = "folder" -> {RefreshEntries([at EXCEPT !.root = FALSE, !.path = row.path])}
          [] OTHER -> {OpenFile(at, row)}

(* file_manager_initialize *)
FileManagerInit ==
    \E live \in BOOLEAN :
        LET bare == [sidebar |-> "THIS_PC", root |-> TRUE, source |-> NoSource, path |-> <<>>,
                     entries |-> <<>>, scroll |-> 0, selected |-> 1, buffer |-> FALSE,
                     preview |-> "none", live |-> live]
        IN  fm = RefreshEntries(IF live THEN [bare EXCEPT !.source = LiveMedia] ELSE bare)

(* handle_file_manager_click *)
FileManagerNext ==
    \E visible \in RowsVisible :
        \/ \E place \in Sidebar : fm' \in SelectSidebar(fm, place)
        \/ fm' = Prev(fm, visible)
        \/ fm' = NextPage(fm, visible)
        \/ fm' = Up(fm)
        \/ \E n \in fm.scroll + 1 .. fm.scroll + visible :
              n \in DOMAIN fm.entries /\ fm' \in ActivateEntry(fm, n)

-----------------------------------------------------------------------------
(* What a place holds, told from the archive alone. *)
ChildrenOf(prefix, place) ==
    {SubSeq(file.path, Len(PlacePrefix(place)) + 1, Len(prefix) + 1) :
        file \in {f \in Range(Archive) : Admitted(place, f) /\ IsBelow(prefix, f.path)}}

(* However the user has come to a place - through folders, back up, after  *)
(* a source that could not be opened - the rows are the children of that   *)
(* place, each once and as many as there is room for; the page in sight is *)
(* never past the last row; and a previewed picture lies in memory that is *)
(* still mounted (file_manager_refresh_entries, file_manager_open_source). *)
RowsAreThePlace ==
    LET rows == {fm.entries[i].path : i \in DOMAIN fm.entries}
        children == ChildrenOf(ArchivePath(fm, fm.path), fm.sidebar)
        atRoot == fm.sidebar = "THIS_PC" /\ fm.root
    IN  /\ ~atRoot /\ Mounted(fm) =>
              /\ rows \subseteq children /\ Cardinality(rows) = Len(fm.entries)
              /\ Len(fm.entries) = Min({MaxEntries, Cardinality(children)})
        /\ ~atRoot /\ ~Mounted(fm) => rows = {}
        /\ fm.scroll = 0 \/ fm.scroll < Len(fm.entries)
        /\ fm.preview = "buffer" => fm.buffer

(* "JabulOS archive" (gui.cpp:7758), "Mounted the JabulOS archive from     *)
(* disk." (gui.cpp:7570): a partition that holds an installed system is    *)
(* listed as one that can be opened.                                       *)
InstalledIsListed ==
    fm.sidebar = "THIS_PC" /\ fm.root =>
        \A p \in Installed :
            \E i \in DOMAIN fm.entries : fm.entries[i].source = ArchiveOf(p)
=============================================================================

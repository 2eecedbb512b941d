------------------------------- MODULE Initrd -------------------------------
(***************************************************************************)
(* What the boot loader hands over, and the archive of assets that is part *)
(* of it: which module is the archive, and what the walks over its headers *)
(* find there. A file is packed as a block of header and its data, filled  *)
(* up to whole blocks; a name is the kind of file it stands for. The       *)
(* archive may be cut short anywhere. Whether an image can be decoded is   *)
(* left open.                                                              *)
(***************************************************************************)
EXTENDS Naturals, Sequences, Functions

CONSTANTS
    Block,      \* 512, the size of a header and the unit of the archive
    TagLists,   \* what the boot loader may hand over, archives cut at any length
    Frames,     \* the names of the frames of the boot animation, in order
    MaxItems    \* VIDEOS_MAX_ITEMS

VARIABLE boot   \* kernel_main: where it is, its boot_info, and what was found

ALIGN_UP(n) == ((n + Block - 1) \div Block) * Block

(* Where the archiver has put the header of the k-th file.                 *)
Placed(files) ==
    LET place[k \in 1 .. Len(files) + 1] ==
            IF k = 1 THEN 0 ELSE place[k - 1] + Block + ALIGN_UP(files[k - 1].size)
    IN  place

NoArchive == [files |-> <<>>, length |-> 0]
Archives == [files : Seq([name : STRING, size : Nat]), length : Nat]
Tag == [type : {"mmap"}] \cup [type : {"framebuffer"}, usable : BOOLEAN]
       \cup [type : {"module"}, initrd : BOOLEAN, archive : Archives]

Pictures == {"wallpaper", "splash", "picture"} \cup Range(Frames)    \* .bmp and .tga
Nowhere == 0

-----------------------------------------------------------------------------
(* parse_boot_info: the last tag of a kind counts; of the modules one that *)
(* is called initrd, or else the first. A framebuffer in another format    *)
(* than RGB or of no size is passed over.                                  *)
WithTag(info, tag) ==
    CASE tag.type = "mmap" -> [info EXCEPT !.mmap = TRUE]
      [] tag.type = "framebuffer" /\ tag.usable -> [info EXCEPT !.screen = TRUE]
      [] tag.type = "module" /\ (~info.module \/ tag.initrd) ->
            [info EXCEPT !.module = TRUE, !.initrd = tag.archive]
      [] OTHER -> info

StartedWith(tags) ==
    [at |-> "tags", tags |-> tags, cursor |-> 0,
     info |-> [mmap |-> FALSE, screen |-> FALSE, module |-> FALSE, initrd |-> NoArchive],
     splash |-> Nowhere, wallpaper |-> Nowhere, shown |-> <<>>, songs |-> <<>>]

BootInit == boot \in {StartedWith(tags) : tags \in TagLists}

ReadTag ==
    /\ boot.at = "tags" /\ boot.cursor < Len(boot.tags)
    /\ boot' = [boot EXCEPT !.cursor = @ + 1, !.info = WithTag(@, boot.tags[boot.cursor + 1])]

(* kernel_main stops without a memory map or a screen, and looks for no    *)
(* asset without an archive.                                               *)
TagsRead ==
    /\ boot.at = "tags" /\ boot.cursor = Len(boot.tags)
    /\ boot' = [boot EXCEPT !.cursor = 0,
                            !.at = IF ~boot.info.screen \/ ~boot.info.mmap THEN "halted"
                                   ELSE IF boot.info.initrd.length = 0 THEN "desktop" ELSE "splash"]

-----------------------------------------------------------------------------
(* One turn of the loop that all walks share: not beyond the end, nor      *)
(* beyond a header without a name.                                         *)
Booted == boot.info.initrd
InReach == boot.cursor + Block <= Booted.length

(* The file whose header is at the cursor; Nowhere is an empty name.       *)
FileHere ==
    LET place == Placed(Booted.files)
        here == {k \in DOMAIN Booted.files : place[k] = boot.cursor}
    IN  IF here = {} THEN Nowhere ELSE CHOOSE k \in here : TRUE

Goes == InReach /\ FileHere # Nowhere

(* Whether the data of the k-th file, whose header is at the cursor, is    *)
(* there; the first form only looks at the header.                         *)
Whole_header(k) == boot.cursor + Block <= Booted.length
Whole(k) == boot.cursor + Block + Booted.files[k].size <= Booted.length

Further(k) == boot.cursor + Block + ALIGN_UP(Booted.files[k].size)

(* initrd_find_file and the second loop of initrd_find_wallpaper: the      *)
(* first such file, else the end.                                          *)
Walk(names, found, missed) ==
    boot' = IF ~Goes THEN [missed EXCEPT !.cursor = 0]
            ELSE IF Booted.files[FileHere].name \in names /\ Whole(FileHere)
            THEN [found EXCEPT !.cursor = 0]
            ELSE [boot EXCEPT !.cursor = Further(FileHere)]

FindSplash ==
    /\ boot.at = "splash"
    /\ Walk({"splash"}, [boot EXCEPT !.splash = FileHere, !.at = "wallpaper"],
                        [boot EXCEPT !.at = "wallpaper"])

(* A wallpaper by its name, or else the first picture.                     *)
FindWallpaper ==
    /\ boot.at = "wallpaper"
    /\ Walk({"wallpaper"}, [boot EXCEPT !.wallpaper = FileHere, !.at = "frames"],
                           [boot EXCEPT !.at = "pictures"])

FindPicture ==
    /\ boot.at = "pictures"
    /\ Walk(Pictures, [boot EXCEPT !.wallpaper = FileHere, !.at = "frames"],
                      [boot EXCEPT !.at = "frames"])

(* gui_show_boot_sequence: frame by frame, until one is missing.           *)
FindFrame ==
    /\ boot.at = "frames"
    /\ IF Len(boot.shown) = Len(Frames) THEN boot' = [boot EXCEPT !.at = "list"]
       ELSE Walk({Frames[Len(boot.shown) + 1]},
                 [boot EXCEPT !.shown = Append(@, FileHere)], [boot EXCEPT !.at = "list"])

(* initrd_list_files with the callback of videos_refresh_media_list        *)
List ==
    /\ boot.at = "list"
    /\ boot' = IF ~Goes THEN [boot EXCEPT !.at = "desktop", !.cursor = 0]
               ELSE [boot EXCEPT !.cursor = Further(FileHere),
                                 !.songs = IF /\ Whole(FileHere) /\ Len(@) < MaxItems
                                              /\ Booted.files[FileHere].name = "song"
                                           THEN Append(@, FileHere) ELSE @]

(* A machine that has come to its desktop, or has halted, is started anew. *)
Restart ==
    /\ boot.at \in {"halted", "desktop"}
    /\ boot' \in {StartedWith(tags) : tags \in TagLists}

BootNext == Restart \/ ReadTag \/ TagsRead \/ FindSplash \/ FindWallpaper \/ FindPicture \/ FindFrame \/ List

-----------------------------------------------------------------------------
(* Told from the list of files alone: those that the archive holds whole.  *)
Held(names) ==
    {k \in DOMAIN Booted.files :
        /\ Booted.files[k].name \in names
        /\ Placed(Booted.files)[k] + Block + Booted.files[k].size <= Booted.length}

IsFirst(k, names) ==
    IF Held(names) = {} THEN k = Nowhere
    ELSE k \in Held(names) /\ \A other \in Held(names) : k <= other

(* The modules the boot loader calls initrd.                               *)
NamedArchives ==
    {boot.tags[i].archive : i \in {j \in DOMAIN boot.tags :
                                     boot.tags[j].type = "module" /\ boot.tags[j].initrd}}

(* The archive that is used is one the boot loader calls initrd if there   *)
(* is one. However it is cut short, a walk finds what it seeks whenever it *)
(* is there whole, nothing that is not, and the files behind one that is   *)
(* not: splash and wallpaper, as many frames as there are without a gap,   *)
(* and as many songs as the list takes (parse_boot_info, initrd_find_file, *)
(* initrd_find_wallpaper, initrd_list_files).                              *)
FoundIsWhatIsHeld ==
    /\ boot.at \in {"list", "desktop"} /\ NamedArchives # {} => Booted \in NamedArchives
    /\ boot.at = "desktop" =>
          /\ IsFirst(boot.splash, {"splash"})
          /\ IsFirst(boot.wallpaper, IF Held({"wallpaper"}) # {} THEN {"wallpaper"} ELSE Pictures)
          /\ \A i \in DOMAIN boot.shown : IsFirst(boot.shown[i], {Frames[i]})
          /\ Len(boot.shown) < Len(Frames) => Held({Frames[Len(boot.shown) + 1]}) = {}
          /\ \A i \in DOMAIN boot.songs : boot.songs[i] \in Held({"song"})
          /\ \A i, j \in DOMAIN boot.songs : i < j => boot.songs[i] < boot.songs[j]
          /\ Len(boot.songs) <= MaxItems
          /\ \A k \in Held({"song"}) \ Range(boot.songs) :
                Len(boot.songs) = MaxItems /\ \A i \in DOMAIN boot.songs : boot.songs[i] < k
=============================================================================

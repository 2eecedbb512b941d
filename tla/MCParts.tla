------------------------------ MODULE MCParts ------------------------------
(***************************************************************************)
(* Small values for the parts of the desktop: an archive with a file at    *)
(* the top, two levels of folders and more rows than fit; archives of five *)
(* files; a timer that starts over after seven cycles and a clock near     *)
(* midnight and near two-digit hours; two sites of the web with two pages, *)
(* bodies shorter than, as long as and longer than the buffer; a grid *)
(* of twelve cells that the snake nearly fills; a drive with two           *)
(* partitions that have room for an image and one that has not, the last   *)
(* of them up to the end of the drive.                                     *)
(***************************************************************************)
EXTENDS DesktopParts, Sequences

(* Packed files; archives of them cut at every length.                     *)
Packed(name, size) == [name |-> name, size |-> size]
Assets ==
    { << Packed("other", 3), Packed("splash", 2), Packed("frame0", 1), Packed("wallpaper", 2),
         Packed("frame1", 0) >>,
      << Packed("song", 1), Packed("picture", 2), Packed("song", 0), Packed("song", 3) >>,
      << Packed("wallpaper", 5), Packed("frame0", 1), Packed("splash", 1), Packed("splash", 3) >> }

MCFrames == <<"frame0", "frame1">>
WholeLength == 24    \* at least that of any of them with its end

Memory == [type |-> "mmap"]
Screen(usable) == [type |-> "framebuffer", usable |-> usable]
Module(initrd, files, length) ==
    [type |-> "module", initrd |-> initrd, archive |-> [files |-> files, length |-> length]]

MCTagLists ==
    { <<Memory, Screen(TRUE), Module(named, files, length)>> :
          named \in BOOLEAN, files \in Assets, length \in 0 .. WholeLength }
    \cup { <<Module(FALSE, one, WholeLength), Screen(FALSE), Module(TRUE, other, WholeLength),
             Memory, Screen(TRUE), Module(FALSE, one, WholeLength)>> : one, other \in Assets }
    \cup { <<Memory, Screen(FALSE)>>, <<Screen(TRUE)>>, <<Screen(TRUE), Memory>> }

File(path, kind) == [path |-> path, kind |-> kind]

MCArchive ==
    << File(<<"wallpaper">>, "image"),
       File(<<"Downloads", "app">>, "exe"),
       File(<<"photos", "trip", "one">>, "image"),
       File(<<"photos", "trip", "notes">>, "other"),
       File(<<"assets", "music", "song">>, "audio"),
       File(<<"photos", "two">>, "image"),
       File(<<"photos", "trip", "three">>, "image") >>

MCPartition == <<"first", "second">>

Written(scheme, site, path) == [scheme |-> scheme, site |-> site, path |-> path]

MCTexts == { Written("none", "words", ""), Written("none", "a", ""), Written("http", "badport", "x") }
MCBookmarks == { Written("http", "b", "") }

Named(name, value) == [name |-> name, value |-> value]
Elsewhere == Named("Location", Written("http", "b", "x"))
SameSite == Named("Location", Written("none", "", "x"))
Typed == Named("Content-Type", Written("none", "", "html"))
Sized == Named("Content-Length", Written("none", "", "length"))
Unsized == Named("Content-Length", Written("none", "", "bad"))

MCFields ==
    { <<>>, << Sized >>, << Typed, SameSite, Elsewhere >>,
      << Typed, Sized, Elsewhere >>, << Unsized, Sized >> }

MCFirstBody == <<5, 4>>    \* of a grid of four columns

Section(address, virtual, at, raw) ==
    [virtual_address |-> address, virtual_size |-> virtual, raw_at |-> at, raw_size |-> raw]

MCSections ==
    { <<>>,
      << Section(1, 1, 1, 1) >>,
      << Section(1, 1, 0, 2) >>,                         \* more in the file than in memory
      << Section(1, 2, 2, 1), Section(2, 1, 1, 1) >>,    \* the second over the first
      << Section(1, 1, 0, 2), Section(3, 1, 3, 0) >>,
      << Section(0, 4, 1, 3) >>,
      << Section(1, 1, 2, 2), Section(2, 2, 4, 1) >>,
      << Section(1, 1, 4, 1) >>, << Section(2, 0, 3, 2) >>, \* at and over the end of a file
      << Section(3, 0, 0, 0), Section(4, 1, 0, 1) >> }

MCPartitions == <<[start |-> 1, count |-> 5], [start |-> 6, count |-> 4], [start |-> 10, count |-> 5]>>
MCUnreadable == 0 .. 14
=============================================================================

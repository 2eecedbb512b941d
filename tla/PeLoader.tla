------------------------------ MODULE PeLoader ------------------------------
(***************************************************************************)
(* The loader of applications: a file is parsed, its image laid out in     *)
(* frames of its own as the headers say, run, and the frames given back. A *)
(* file is known by its size, what its headers say and where they are,     *)
(* memory by the place in the file each of its cells was copied from.      *)
(***************************************************************************)
EXTENDS Integers, Sequences, FiniteSetsExt

CONSTANTS
    FileSizes,       \* sizes of files
    ImageSizes,      \* values of size_of_image, size_of_headers and entry_rva
    Sections,        \* the section tables
    Offsets,         \* values of pe_offset and of the optional header's size
    DosHeader,       \* 0x40: up to pe_offset and with it
    CoffHeader,      \* 24: the signature and the COFF header
    OptionalHeader,  \* 0x44: what an optional header has to have
    SectionHeader,   \* a row of the section table
    FrameSize,       \* PAGE_SIZE, in cells
    FrameNumbers     \* what pmm_alloc_frame may hand out

VARIABLE pe

Images ==
    [file : FileSizes, size : ImageSizes, headers : ImageSizes, entry : ImageSizes,
     sections : Sections, pe_offset : Offsets \ {0}, optional : Offsets,
     signed : BOOLEAN, magic : {"PE32", "PE32+", "other"}, machine : {"AMD64", "other"}]

NoImage ==
    [file |-> 0, size |-> 0, headers |-> 0, entry |-> 0, sections |-> <<>>, pe_offset |-> 0,
     optional |-> 0, signed |-> FALSE, magic |-> "other", machine |-> "other"]

Zero == -1  \* pe_alloc_contiguous clears what it has got

(* held is what the loader has of the frames; frames counts those in a row *)
(* from first.                                                             *)
Idle(held) ==
    [phase |-> "idle", image |-> NoImage, memory |-> <<>>, next |-> 1,
     held |-> held, first |-> 0, frames |-> 0]

PeInit == pe = Idle({})

(* pe_parse_image: both signatures, and every header within the file.      *)
Parsed(image) ==
    LET optional_offset == image.pe_offset + CoffHeader
        section_table == optional_offset + image.optional
    IN  /\ image.file >= DosHeader /\ image.signed
        /\ optional_offset <= image.file
        /\ section_table <= image.file /\ image.optional >= OptionalHeader
        /\ image.magic # "other"
        /\ section_table + Len(image.sections) * SectionHeader <= image.file

(* Cells of a memory: 0 .. size - 1 is held as 1 .. size. *)
Copied(memory, to, from, length) ==
    [c \in DOMAIN memory |-> IF c > to /\ c <= to + length THEN from + (c - to - 1) ELSE memory[c]]

LayoutIsGood(image) ==
    /\ image.size # 0 /\ image.headers # 0
    /\ image.headers <= image.size
    /\ image.entry < image.size

SectionFits_virtual(image, section) ==
    /\ section.virtual_address < image.size
    /\ section.virtual_size <= image.size - section.virtual_address
    /\ \/ section.raw_size = 0
       \/ section.raw_at < image.file /\ section.raw_size <= image.file - section.raw_at

SectionFits(image, section) ==
    /\ section.virtual_address < image.size
    /\ Max({section.virtual_size, section.raw_size}) <= image.size - section.virtual_address
    /\ \/ section.raw_size = 0
       \/ section.raw_at < image.file /\ section.raw_size <= image.file - section.raw_at

(* ALIGN_UP(size, PAGE_SIZE) / PAGE_SIZE *)
FrameCount(size) == (size + FrameSize - 1) \div FrameSize

InARow(first, count) == {first + index : index \in 0 .. count - 1}

-----------------------------------------------------------------------------
(* pe_launch_image, up to the frames: nothing happens to a file that is    *)
(* refused.                                                                *)
Launch ==
    /\ pe.phase = "idle"
    /\ \E image \in Images :
          /\ Parsed(image) /\ image.magic = "PE32+" /\ image.machine = "AMD64"
          /\ LayoutIsGood(image)
          /\ pe' = [pe EXCEPT !.phase = "allocate", !.image = image]

(* pe_alloc_contiguous: the next frame has to be the next in a row, or all *)
(* go back, this one as well.                                              *)
TakeFrame(frame) ==
    /\ pe.phase = "allocate" /\ pe.frames < FrameCount(pe.image.size)
    /\ frame \notin pe.held
    /\ LET held == pe.held \cup {frame}
       IN  pe' = IF pe.frames = 0
                 THEN [pe EXCEPT !.held = held, !.first = frame, !.frames = 1]
                 ELSE IF frame = pe.first + pe.frames
                 THEN [pe EXCEPT !.held = held, !.frames = @ + 1]
                 ELSE Idle(held \ (InARow(pe.first, pe.frames) \cup {frame}))

OutOfFrames ==
    /\ pe.phase = "allocate" /\ pe.frames < FrameCount(pe.image.size)
    /\ pe' = Idle(pe.held \ InARow(pe.first, pe.frames))

(* The memory is cleared and gets the headers. *)
CopyHeaders ==
    /\ pe.phase = "allocate" /\ pe.frames = FrameCount(pe.image.size)
    /\ LET empty == [c \in 1 .. pe.image.size |-> Zero]
       IN  pe' = [pe EXCEPT !.phase = "copy",
                            !.memory = Copied(empty, 0, 0, Min({pe.image.headers, pe.image.file}))]

(* pe_free_contiguous gives back as much as the headers say. *)
Freed == Idle(pe.held \ InARow(pe.first, FrameCount(pe.image.size)))

CopySection ==
    /\ pe.phase = "copy" /\ pe.next <= Len(pe.image.sections)
    /\ LET s == pe.image.sections[pe.next]
       IN  pe' = IF SectionFits(pe.image, s)
                 THEN [pe EXCEPT !.memory = Copied(@, s.virtual_address, s.raw_at, s.raw_size),
                                 !.next = @ + 1]
                 ELSE Freed

Enter ==
    /\ pe.phase = "copy" /\ pe.next > Len(pe.image.sections)
    /\ pe' = [pe EXCEPT !.phase = "running"]

(* The application returns. *)
Return == pe.phase = "running" /\ pe' = Freed

PeNext ==
    \/ Launch
    \/ \E frame \in FrameNumbers : TakeFrame(frame)
    \/ OutOfFrames
    \/ CopyHeaders
    \/ CopySection \/ Enter \/ Return

-----------------------------------------------------------------------------
(* What a cell of the image is to hold, told from the section table alone. *)
Linked(image, c) ==
    LET over == {k \in DOMAIN image.sections :
                    /\ image.sections[k].virtual_address < c
                    /\ c <= image.sections[k].virtual_address + image.sections[k].raw_size}
        s == image.sections[Max(over)]
    IN  IF over # {} THEN s.raw_at + (c - 1 - s.virtual_address)
        ELSE IF c <= image.headers /\ c <= image.file THEN c - 1 ELSE Zero

(* An application only runs in an image that is what its file says: every  *)
(* section whole, inside the image and from inside the file, the rest of   *)
(* the memory cleared, and all of it in frames the loader holds; and       *)
(* whichever way a launch ends, a run of frames that breaks off included,  *)
(* every frame has been given back (pe_launch_image, pe_alloc_contiguous). *)
RunsAsLinked ==
    /\ pe.phase = "running" =>
          /\ \A c \in DOMAIN pe.memory : pe.memory[c] = Linked(pe.image, c)
          /\ \A c \in DOMAIN pe.memory : pe.memory[c] \in {Zero} \cup 0 .. pe.image.file - 1
          /\ \A k \in DOMAIN pe.image.sections :
                pe.image.sections[k].virtual_address
                    + Max({pe.image.sections[k].virtual_size, pe.image.sections[k].raw_size})
                    <= Len(pe.memory)
          /\ \A c \in DOMAIN pe.memory : pe.first + (c - 1) \div FrameSize \in pe.held
    /\ pe.phase = "idle" => pe.held = {}
=============================================================================

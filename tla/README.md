# JabulOS Aero in TLA+

JabulOS Aero is an x86-64 desktop operating system: one kernel image, one
thread, no interrupts. `pic_mask_all` masks every line and any interrupt halts
the machine (`kernel/idt.c`), so everything happens in one loop,
`gui_run_desktop` (`kernel/gui.cpp`), which polls the keyboard, the mouse, the
network card, the clock and the disk. A blocking call - resolve a name, open a
connection, wait for data - polls the network itself and stops the loop while
it waits. What runs beside the thread is outside the machine's one program: the
network card with its descriptors, the network and its servers, the host that
stages updates into the virtual disk.

This directory models that program in three layers: the network stack (receive
and transmit path, address resolution, TCP client, UDP queue, DNS, DHCP, HTTP),
the memory everything is allocated from, and the desktop with what hangs on its
loop - windows and their presentation, input, clocks, File Manager, browser,
games, application loader, first-run setup, installation and updates over a
drive that the host writes too. The modules are checked with TLC, and almost
every safety property of the network stack, the memory, the screen and the
updates is proved with TLAPS for every size. Paths below are
relative to the source tree (`kernel/` stands for `src/kernel/`), and
`gui.cpp:n` for a line of `kernel/gui.cpp`.

## 1. Inventory

| Part | State it keeps | Operations | What is hard |
|---|---|---|---|
| PCnet driver, `kernel/pcnet.c` | one receive and one transmit descriptor shared with the card | `pcnet_initialize`, `pcnet_send`, `pcnet_poll_receive` | the card acts between any two accesses; a send that timed out is still with the card |
| Network layer, `kernel/net.c` | IPv4 ring of 4, ARP table of 8, own configuration | `net_service`, `net_store_arp_entry`, `net_arp_resolve`, `net_poll_ipv4_packet`, `net_configure_ipv4_static`, `net_send_ipv4_packet` | ring at its limit; answers displaced while they are awaited; nothing is accepted before there is an address |
| TCP client, `kernel/transport.c` | 4 connections with a receive buffer of 4096 bytes | `net_tcp_connect`, `send`, `wait_for_data`, `receive`, `close`; `transport_handle_tcp_packet` | loss, repetition and reordering; resets and time-outs in the middle of a call; slots that never return |
| UDP queue and DNS, `kernel/transport.c` | one ring of 8 datagrams for all ports | `transport_handle_udp_packet`, `net_udp_poll`, `net_dns_resolve_a` | datagrams taken from the middle of a ring; datagrams nobody polls |
| DHCP, `kernel/transport.c` | none that outlives the call | `net_dhcp_negotiate`, static fallback in `kernel_main` | runs before the host has an address, behind a gate that asks for one |
| HTTP, `kernel/transport.c`, browser in `kernel/gui.cpp` | none between calls; page, source and download of the browser | `net_http_get`, `browser_load_url` | redirects, lengths and time-outs against what is shown under which address |
| Frame allocator, `kernel/pmm.c` | bitmap, free bytes, search hint | `pmm_initialize`, `pmm_alloc_frame`, `pmm_free_frame` | regions that end inside pages; the hint |
| Contiguous buffers, `kernel/gui.cpp` (the same loop in `pe.c`, `vga.c`, `pcnet.c`) | none of their own | `allocate_surface_buffer`, `free_surface_buffer` | failure in the middle of a request; fragmentation |
| Disk, `kernel/ata.c` | the drive | sector reads and writes, flush | status, partial transfers |
| Installer, `kernel/installer.c` | header and images on disk | `installer_install_to_target`, detection | power cuts between writes |
| Update client and setup, `kernel/gui.cpp` | staged package, install state sector, setup phase, prompt | `poll_update_package`, `install_staged_update`, prompt and setup clicks | the host stages while the guest installs; two structures meet in one sector |
| Update service, `tools/update_service.py` | version and hash of what was staged | `stage_iso_into_disk`, `process_iso` | failure between staging and recording |
| Desktop and windows, `kernel/gui.cpp` | order, visibility and rectangles of windows; dock, launcher, power menu, lock and power state | one pass of `gui_run_desktop`: clicks, keys, drags, drawing | two kinds of change in one pass; long sequences of legal events |
| Presentation, `kernel/vga.c`, `kernel/display_driver.cpp` | draw and present buffers, clip rectangle, dirty rectangles | begin, draw, present | damage that is not presented |
| Input, `kernel/mouse_driver.cpp`, `poll_input` | packet being assembled, pointer; prefix and modifiers | `mouse_driver_poll`, `poll_input` | two devices share one port and their bytes come between two looks |
| Clocks, `kernel/timer.c`, `kernel/rtc.c` | milliseconds and remainder; none | `timer_update_locked`, `rtc_read_time`, the waits that measure with them | a counter that starts over; a clock that ticks between two registers |
| Initrd, `kernel/initrd.c` | none | `initrd_find_file`, `initrd_find_wallpaper`, `initrd_list_files` | an archive cut short anywhere, sizes rounded up to blocks |
| PE loader, `kernel/pe.c` | none between launches | `pe_launch_image` | sections that overlap, outgrow the file or end with the image; memory on every way out |
| Applications, `kernel/gui.cpp` | File Manager's place, source and preview; snake and board | clicks and keys | rows, pages and pictures of a place that was left |
| Image decoding, boot, platform, tools | small | straight-line code | little |

How they interact. `gui_run_desktop` calls `net_service` and then
`net_transport_service` on every pass (gui.cpp:11792). `net_service` takes
frames from the driver and stores ARP bindings and IPv4 packets;
`net_transport_service` drains the IPv4 ring into the UDP ring and the TCP
connections. Calls of the applications go down through `net_http_get`,
`net_dns_resolve_a` and the TCP calls to `net_arp_resolve` and `pcnet_send`,
and their wait loops call both services. All shared state is in static
structures of one thread; the only state shared with somebody else is the
card's descriptors and, for updates, the disk.

What makes each part correct is stated where it is modelled, in section 4; the
complete list of hazards, each at its line and with the properties that cover
it, is in `PROJECT.json`.

## 2. Modules

| Module | Models | Composition |
|---|---|---|
| `Ipv4Queue` | the IPv4 ring of `net.c` | implements `BoundedFifo` |
| `NetPath` | card, `pcnet_poll_receive`, `pcnet_send`, `net_service`, the ring's consumer | extends `Ipv4Queue`, implements `LossyChannel` |
| `ArpCache` | ARP table and `net_arp_resolve` | implements `LruCache` |
| `TcpClient` | connection table, segment handler, blocking calls | |
| `TcpSystem` | server and network (external) around `TcpClient` | extends `TcpClient`, implements `ReliableStream` per connection |
| `UdpQueue` | the UDP ring | |
| `DnsResolver` | `net_dns_resolve_a`, the ring's consumer, and the traffic | extends `UdpQueue`, implements `Mailbox` |
| `Pmm` | bitmap, free bytes, hint | |
| `Surfaces` | contiguous buffers, frame by frame | extends `Pmm` |
| `Dhcp` | `net_dhcp_negotiate` at boot and the gate in front of every packet | extends `UdpQueue` |
| `Browser` | addresses, `net_http_get` with its redirects, `browser_load_url`, downloads | |
| `Disk` | sectors, partition table, image, state record, failing reads and writes | |
| `Setup` | first-run setup, installation, account, lock screen, restarts | extends `Disk` |
| `UpdateService` | `process_iso` on the host | extends `Disk` |
| `Updater` | poll and `install_staged_update` | extends `Setup`, `UpdateService` |
| `UpdateSystem` | guest, host and power over one drive | extends `Updater` |
| `UpdatePrompt` | offer, prompt, Update page, result of an attempt | |
| `Windows` | flags, places, order, dock, launcher and power menu as functions on one record | |
| `Desktop` | a pass of the loop: input, clicks, drags, what is drawn and presented | extends `Windows` |
| `FileManager`, `Games`, `Ps2Input`, `PeLoader`, `Clock`, `Initrd` | one part each | |
| `DesktopParts` | the parts that share the loop but no state | an instance of each of those six, `Browser`, `UpdatePrompt` and `Setup` |
| `MC*` | values for TLC | |
| `*Proofs` | theorems and lemmas; what several need (`%`, `\div`, least elements) stands at the head of each | |

`BoundedFifo`, `LossyChannel`, `LruCache`, `ReliableStream` and `Mailbox` are
the abstract specifications: what the component promises its caller, without
indices, descriptors, stamps or sequence numbers.

### State and actions against the code

`Ipv4Queue`: `slot`, `head`, `tail`, `count` are `g_net.ipv4_queue` and its
three fields; `polled` is what `net_poll_ipv4_packet` copied out last. The two
actions are the two functions; a packet is an identity.

`NetPath`: `rxd` and `txd` are the descriptors with their buffers; `fetched` is
the frame inside the card. One action of the thread holds at most one access to
a descriptor, and the card moves between any two: it can fill the receive buffer as soon as
`Rearm` gives it back, and finish a send during its wait, after its time-out,
or never. `Kind` is what `net_process_frame` makes of a frame; header checks
and checksums are in that classification. A received ARP request calls
`pcnet_send` inside the service loop, as in the code. `aired` is a history
variable: the frames sent without error since the descriptor was last handed
over. The state begins after `net_configure_ipv4_static`.

`ArpCache`: `cache` and `age` are `arp_cache` and `arp_age_counter`. `Hear` is
a frame outside a resolve, `Serve` one inside its wait loop; both store the
sender, as `net_handle_arp` and `net_handle_ipv4` do. `after` is a history
variable: the addresses stored since the awaited one. Zero addresses, which
`net_store_arp_entry` refuses, are left out of the inputs.

`TcpClient`: `slot` is `tcp_connections` with the fields that decide anything;
the state `FREE` stands for `used` being false too (one `memset` clears both).
A connection is named by its ephemeral port. The segment handler is a chain of
functions on the connection in the order of the code (`AfterAck`, `Opened`,
`AfterData`, `AfterFin`, `AfterClosing`), applied in one action: while it sends
acknowledgements `net_transport_service` is not entered again, since the ARP
wait under a send serves only the network layer. `pc` and `call` are the
position of the one thread inside the blocking calls; `WaitLooks`,
`WaitServes`, `WaitGoesOn`, `WaitTimesOut` are the turns of a wait loop, with
the time-out tested after the service and without a second look at the
condition. `SendSyn` writes to the slot even after a reset has zeroed it. What
a send returns and whether its segment reaches the wire are independent,
because of `pcnet_send`'s time-out. `doubt` is a history variable: connections
with a send that returned false.

`TcpSystem`: the server follows TCP - it answers, writes into the window it was
given, repeats what is not acknowledged, finishes or resets - and has no
timers. The network keeps a set of segments each way and loses, repeats and
reorders them.

`UdpQueue`, `DnsResolver`: `packet`, `valid`, `head`, `tail`, `count` are the
ring and its fields. The scan of a poll, its stop after `count` slots and the
loop that moves the head are taken over literally, with holes. A lookup draws a
new port, waits, polls and never returns to that port. `Genuine` stands for the
tests a datagram must pass as an answer. `bypassed` is a history variable: a
poll took a datagram that was not at the head.

`Pmm`, `Surfaces`: `used` is the bitmap as a set. The state begins after
`pmm_initialize`. A request takes its frames one action at a time and gives
them back on failure. `before` is a history variable: the bitmap when the
request began.

`Dhcp`: `net_dhcp_negotiate` with its two waits, the fallback of `kernel_main`,
and the test for an address at the head of `net_handle_ipv4`, which no offer
passes. The actions behind that test (`PollTakes`, the confirmation) cannot
happen in the code as it is and are there because the code has them. `heard` is
a history variable: frames the driver took while they were waited for.

`Browser`: a URL is its scheme, site and path, each of which may be missing; a
request is followed from the address typed or the bookmark clicked through
parsing, redirects, headers, a body that comes in pieces and the four ways it
can end, to the page and to a download. A body carries the request it answers,
which is what the property compares. A header is a status, or none that could be
read, and a sequence of fields, of which the first of a name counts; a length
that is declared is the length of what is sent. A relative redirect is a path
from the root of the same site, as `transport_http_build_redirect_url` has it,
whatever the location says.

`Disk`, `Setup`: sectors are written one at a time and whole; a write that
reports a failure may have reached the medium. Between any two, power may be
cut (`PowerCut`) and any sector may fail to be read at the next start.
`phase` is `setup_phase`, with `OFF` for a machine without power; `job` is the
installation being written. `created` is a history variable: the account the
user was told is there, per target.

`UpdateService`, `Updater`, `UpdateSystem`: the host's process is one action
per write or file it changes and can be broken off before each; the guest's
`install_staged_update` reads and writes sector by sector, in one thread with
setup, with the host between any two sectors. `touched` (staged sectors written
since their header, and by whom), `mixed`, `done` and `slipped` are history
variables. `UpdatePrompt` is the other half: poll, prompt, Update page and
result over versions alone, with the installation as one step.

`Windows`, `Desktop`: the windows are one record (order, flags, places, drag,
dock style, menu, power) and every operation a function on it. The screen is
one row of cells with a tile for the bar and one for the dock. A pass of
`gui_run_desktop` is one action: nothing else touches this state while it runs.
It takes at most two inputs, goes through keys, clicks and drag in the order of
the code, and draws by one of the paths of the loop - everything, the dirty
rectangles, the places of the cursor, the chrome - into a draw buffer and a
front buffer whose tiles say what is seen there. The model ends when the power
menu tells the machine to go down. `missed` is a history variable: a change
none of the rules for dirty rectangles covers, until everything is drawn again.

`FileManager`: a path is a sequence of names; the rows of a place are built by
the walk over the archive, in its order. `Games`: cells are numbers, the clock
that seeds the food is free. `Ps2Input`: the bytes of two devices in one
controller, taken by two drivers in one poll; they arrive between any two looks
at the status. `PeLoader`: the headers are taken for what they are where the
whole of each lies in the file; the frames of the image are taken one at a time,
whichever free one the allocator gives, and given back when one is not next to
the last; memory is known by the place in the file each cell was copied from. `Clock`: the interval timer with a counter that starts over,
read at any distance, and the real time clock with an update that may fall
between any two reads of its registers. `Initrd`: boot tags, the module that
becomes the archive, and the walks over it one header at a time.

`DesktopParts` puts nine of these beside each other and lets a behaviour choose
one (the two clocks and the two games each have a behaviour of their own, so
there are eleven): they share the loop but no state, so nothing is lost, and
their state spaces are added, not multiplied.

## 3. Runs and bounds

| Run | Bounds | Why they are enough |
|---|---|---|
| `net_path` | ring of 2, budget of 2, three packets, one ARP request, one ignored and one errored frame | three packets overfill the ring and wrap both indices; the budget ends with frames still waiting; a send can be pending while the next is refused |
| `arp_cache` | table of 3, four addresses (`far` off the subnet), two MACs, 4 frames per service, 2 spins, 6 stamps | more addresses than entries; as in the code (16 frames, 8 entries) one service can displace the whole table |
| `tcp` | one connection, an answer of 2 bytes into a buffer of 1, two retries, 1 segment towards the server and 2 towards the host, sequence space of 8 with a wrap inside the answer | the window closes and opens, data is cut, a segment overtakes or repeats another |
| `tcp_slots` | two connects over one slot, empty answers, one segment each way | the second request meets a taken slot and segments of the first connection |
| `dns` | three lookups over a ring of 4, six datagrams: three answers, one late or false, two broadcasts | holes in the middle, the tail catching up with the head, a ring full of datagrams nobody polls |
| `dhcp` (violation) | an offer, a confirmation and a stray datagram, ring of 2 | the offer can come in time and before or after something else |
| `surfaces` | nine usable pages of four bytes, buffers of up to 3 pages, regions that start and end inside pages | several runs of free frames, requests that fail for either reason |
| `desktop` | three cells, a launcher, a Settings window and a plain one, two inputs per pass | windows cover each other wholly, in part and not at all; every two kinds of change meet in one pass |
| `update` | a drive of nine sectors with one partition of five or none, images of two sectors, two builds, two versions, two images in the inbox, one sector that cannot always be read | the host can stage the second build while the guest reads the first; the state record of a whole-drive installation falls on a staged sector; the process can be broken off and start again |
| `parts`, `files` (violation) | each part its own, in `MCParts`: seven files and more rows than fit; two sites, one redirect, bodies around the size of the buffer; archives cut at every length; 24 cycles of a counter of 7; seconds around midnight and two-digit hours; a grid of twelve cells; three bytes in the controller; ten section tables in files that hold all, some or none of the headers, four frames; three versions; three partitions, one too small and the last one up to the end of the drive | named in the comments of `MCParts` and of the constants |
| `prompt` (violation) | three versions | one dismissed, an attempt at the second fails, the third was never offered before |

Named bounds in the guards and constraints: `MaxAge` (the ARP stamps; the real
counter has 32 bits and is not taken to wrap), `PortCount` and `LookupCount`
(ephemeral ports before they wrap), `WireOut` and `WireIn` (segments in
flight), `RingSize` in `TcpClient` and `DnsResolver` (packets handled between
two looks of a wait loop), `MaxCycles` and `MaxSeconds` (how long a clock is
followed), `MaxScore`, `MaxWire`, `MaxMoves`, `MaxKeys`, `MaxVersion`,
`Imports`, and `OneDeparture` in `MCDesktop`: one thing at a time differs from
the desktop as it came up - a place, a minimised window, the other dock, the
menu, the prompt, an old cache - on top of what is open, raised and dragged.
`NothingMissed` stops following the screen once a change was missed: what is
then seen is known to be wrong until the next full drawing.
The bound on packets is exact for a service that drains a full ring once; an
acknowledgement that itself waits for ARP can refill the ring during the drain,
which would only lengthen the burst, and no property depends on its length.
`SeqSpace` is 2^32 in the code. The host's own numbers start below 2^29
(`rtc_read_seconds_of_day`) and do not wrap within a request; the server's do.
`Notice` in `Clock` is the number of register reads that fit between the rise
of the update flag and the update; three is what `rtc_read_time` needs, and
with two TLC finds a time that never was.

`CHECK_DEADLOCK FALSE` is set for `arp_cache` alone, where the bound on the
stamps stops the model.

## 4. What is checked

- `RingIsFifo`: the ring is a bounded FIFO through every wrap.
- `PathIsLossyChannel`: from the wire to the transport layer nothing is
  repeated or reordered, and what the card has accepted is lost only behind a
  full ring.
- `TrueMeansAired`: a send that returns true was on the wire in that call, even
  after an earlier one timed out with its frame still in the card.
- `ServiceReturns`, `DescriptorReturns`: the service loop ends however fast
  frames come; the receive descriptor always goes back to the card.
- `OneEntryPerAddress`, `TableIsLru`: the table is a least-recently-used cache
  with the binding heard last; no address has two entries.
- `MissMeansDisplaced`: a resolve that heard its answer and still misses it had
  a whole table of other addresses stored in between.
- `StreamIsReliable`: what `net_tcp_receive` returns is a prefix of what the
  server wrote, and the end is reported only at the end.
- `WindowIsBacked`: data inside the window the server was given has room.
- `SendTrueMeansReceived`, `ConnectTrueMeansAccepted`: success means that the
  server has the request, or took up the connection (it may be gone again) under
  the port the slot still holds, also after a reset zeroed the slot in the
  middle of the retries.
- `FinWait2MeansFinReceived`: holds except for connections with a send that
  returned false; there the acknowledgement of a segment that went out after
  all passes for one of the FIN.
- `LeftoversAwaitServer`: a slot in use between two requests waits for the
  server's FIN - and waits for good, there is no timer; no other path leaks one.
- `RequestEnds`: every request ends.
- `InOrderUntilBypass`, `QueueIsMailbox`: the UDP ring is in order until the
  first poll that takes from the middle; after that a datagram may be
  displaced, or be out of the scan's reach, but none is handed out twice, and
  a poll is handed none that is for another port than it asked for. The first
  says nothing of the order after a bypass, where the code keeps none.
- `DeafForever`: a ring counted full of datagrams nobody will poll accepts
  nothing any more, so that every later lookup fails. This states what the code
  does, not what one would wish.
- `NothingFreeBelowHint`: the hint hides no free frame (the second search loop
  of `pmm_alloc_frame` never finds one).
- `BuffersAreSeparate`: buffers are disjoint and outside protected memory, also
  where regions share a page.
- `FailureIsClean`: a failed request restores the bitmap; it fails because the
  lowest run of free frames is too short, whatever lies above it.

- `NoGhosts`: between two passes every tile shows what is on top there, except
  after four changes that no rule of the loop covers and that the model names:
  a key taken together with the mouse, the shell drawn anew under windows that
  are not, a window moved in the pass in which another was raised, a drag
  dropped by a button. Each of them heals with the next full drawing. These
  four are flaws of the loop and the property does not catch them: it says that
  there is no fifth.
- `OneCursor`: one cursor, where the mouse is, through every mixture of full,
  partial, cursor and chrome updates.
- `InstallGivesStagedBuild`: what an update has installed is what its header
  announced, unless staged sectors were written after the header - by the host
  staging the next build, or by setup, whose record on an unpartitioned drive
  lies on the last staged sector. The code has no protection against either,
  so that the property does not catch these two hazards; it excuses nothing
  else.
- `TornMeansOnOffer`: a torn image can still be repaired, from the pending
  record or the package on offer (with one installation, see 5.); `ClearedMeansInstalled`: a package leaves the
  drive only by being installed; `InstalledNotOfferedAgain`: and then stays
  away, unless clearing it failed or the host staged it twice: two more hazards
  of the code that are excused and not caught.
- `BootFindsWholeImage`, `AccountSurvives`: no start goes past the installer
  with an incomplete image; the account the user was told is created is the one
  that unlocks, until its target, or another whose record lies on the same
  sector, is chosen for an installation again - with power cuts and failing
  sectors anywhere.
- `NewerPromptsUntilAttempt`: until the first attempt at an installation a
  version that was never dismissed prompts, and a dismissed one does not again.
- `RowsAreThePlace`: File Manager's rows are the children of the place shown,
  each once, the page is one that has rows, and a previewed picture lies in
  memory that is still mounted.
- `ShownIsItsAnswer`: what the browser shows or saves under an address is what
  that address answered, through redirects and failures in the middle of one.
- `FoundIsWhatIsHeld`: however the archive is cut short, boot finds exactly
  what is whole in it, and uses the archive called initrd if there is one.
- `ClocksKeepTime`: the uptime is the cycles at the last read but for whole
  rounds nobody has looked at; a time of day was one while it was read, and a
  wait is as long as it takes itself to be, over midnight too.
- `GamesByTheRules`, `InputFollowsHand`, `RunsAsLinked`: the snake stays in one
  piece with the food beside it and the verdict on a board is right; modifiers
  and mouse follow the user once nothing waits, up to the first prefix parted
  from its key and without the fake shifts and Pause (see 6.); an application
  runs only in an image that is as its file says and lies in frames that are
  held, and every frame is given back on every way out.

Type invariants: those of `NetPath`, `TcpSystem` and `DnsResolver` are checked
in their runs and proved, those of `ArpCache`, `Surfaces` and `UpdateSystem`
(with `SetupTypeOK` and `HostTypeOK`) proved; `DesktopTypeOK` and
`PromptTypeOK` hold in the state spaces of their runs and document them.
Every property has a mutant of the code that breaks it
(`PROJECT.json`); the operators named after the slips (`Rearm_forgotten`,
`Window_full`, ...) stand next to the definitions they replace and are used
nowhere else.

### What TLC finds violated

Three runs check what the repository says of itself and find a counterexample:

- `TimedOutMeansUnanswered` (`dhcp`): "dhcp offer timed out"
  (transport.c:805) although the offer came: every IPv4 packet is dropped until
  the host has an address (net.c:325), so DHCP can never succeed.
- `NewerVersionPrompts` (`prompt`): dismissing lasts "until a newer staged
  version appears" (gui.cpp:6823). TLC dismisses version 1, lets an attempt at
  version 2 fail, and version 3, never seen before, opens no prompt: after an
  attempt the test of gui.cpp:11812 lets none through.
- `InstalledIsListed` (`files`): "JabulOS archive" (gui.cpp:7758) is never
  shown, since the header is asked for without a place to put it.

### Fairness

The thread does not stop between two steps of a call: weak fairness of its
steps. `gui_run_desktop` calls `net_service` on every pass, although other steps
come between two idle moments: strong fairness of `net_service`. A wait loop
reads the clock on every turn and five seconds pass: strong fairness of
`WaitTimesOut`. Nothing is assumed of the card, the network or the server.
All other specifications state only safety and no fairness: what they wait for
- a user, a host, a device, a server - owes them nothing.

## 5. What is proved

For every value of the constants under the named assumptions of the modules
(sizes and budgets are positive, the empty values are not members of the sets
they stand beside, low memory is protected, an image with a package fits the
drive, an archive is a sequence of files, a request ends before the host's
sequence numbers wrap):

| Theorem | Statement |
|---|---|
| `RingInvariant`, `RingImplementsFifo`, `RingInsidePath` (`NetPathProofs`) | the ring keeps its shape and implements `BoundedFifo`, alone and inside `NetPath` (`RingIsFifo`) |
| `PathTypes`, `TrueIsAired`, `PathImplementsChannel` (`NetPathProofs`) | `[]TypeOK`; `TrueMeansAired`; card, driver, service and ring implement `LossyChannel` |
| `ArpTableCorrect`, `MissIsDisplacement`, `TableImplementsLru` (`ArpCacheProofs`) | `[](TypeOK /\ OneEntryPerAddress)`; `MissMeansDisplaced`; the table implements `LruCache` |
| `TcpInvariant`, `TcpTypes`, `WindowBacked`, `FinAcknowledged`, `NothingElseLeaks`, `ConnectTrue`, `SendTrue`, `StreamReliable` (`TcpProofs`) | every safety property of the runs `tcp` and `tcp_slots`, the implementation of `ReliableStream` among them |
| `DnsTypes`, `QueueInOrder`, `NothingHiddenUntilBypass`, `QueueImplementsMailbox`, `DeafStaysDeaf` (`DnsResolverProofs`) | the ring in order until a bypass, `Mailbox` always, `DeafForever` |
| `SurfaceTypes`, `HintIsLowest`, `AllocatorCorrect`, `FailuresAreClean` (`SurfacesProofs`) | the properties of the run `surfaces` |
| `DesktopInvariant`, `ScreenIsTrue`, `CursorIsOne` (`DesktopProofs`) | `NoGhosts` and `OneCursor` |
| `NewerPrompts`, `ClocksDoKeepTime`, `GamesKeepTheRules`, `ApplicationsRunAsLinked`, `AnswersAreShown` (`PartsProofs`) | `NewerPromptsUntilAttempt`, `ClocksKeepTime`, `GamesByTheRules`, `RunsAsLinked`, `ShownIsItsAnswer` |
| `InputDoesFollow`, `BootFindsAssets`, `RowsAreOfThePlace` (`PartsProofs`) | `InputFollowsHand`, `FoundIsWhatIsHeld`, `RowsAreThePlace` |
| `SetupInvariant`, `BootsWholeImages`, `AccountsSurvive` (`PartsProofs`) | `BootFindsWholeImage`, `AccountSurvives` |
| `UpdateInvariant`, `UpdateTypes`, `StagedIsInstalled`, `InstalledOnce`, `ClearedWhenInstalled` (`UpdateProofs`) | `InstallGivesStagedBuild`, `InstalledNotOfferedAgain`, `ClearedMeansInstalled` |
| `TornIsOnOffer` (`UpdateProofs`) | `TornMeansOnOffer`, on a drive with at most one partition |

Along which argument:

- Receive path. `RingShape` (the tail is `count` slots behind the head) makes
  the abstract sequence a function of the slots, and distinct offsets below
  `QueueSize` name distinct slots. For the channel, what is in transit is the
  ring, then the copy `net_service` holds, then the receive buffer; `CopyHeld`
  says when the copy and the buffer are one frame and when two, so that every
  step of card, driver and service appends, loses or moves one at a time.
- Sending. What the card has fetched is the frame of the descriptor it owns;
  while the thread waits, that frame is the one being sent, and it has been
  aired exactly if the card gave the descriptor back without an error.
- Address resolution. Every stamp is at most the counter, so the next stamp is
  new, and `Place` never picks a slot that leaves a twin. `HopInv`: whatever
  was used after the awaited hop was stored after it, and once the hop is gone
  enough was; the step that evicts it maps the slots into `after` one to one.
  For the refinement, distinct stamps number the entries 1 to n (`Rank`), and
  stamping one entry moves it to the end and closes the gap it leaves.
- TCP. The invariant speaks of one connection through its slot, the server's
  end and what was read. Received bytes are counted from the beginning of the
  answer, so that a sequence number is an absolute position taken modulo
  `SeqSpace`; a segment in flight to the server acknowledges a position the
  client has reached and grants no more than the buffer has left (`Grants`), so
  that the server's right edge never passes what was read plus the buffer - an
  old segment, repeated late, grants less. A segment in flight to the client
  carries a piece of the answer, FIN only at its end. The send half counts what
  the server took; its numbers mean something only for connections without a
  send in doubt, which is why `FinWait2MeansFinReceived` has its exception.
- UDP ring. Until a bypass the ring is the `count` slots from its head; the
  invariant is inductive because a poll that is not at the head ends its own
  hypothesis. After it: no datagram is stored twice and `count` is at least the
  number stored.
- Memory. Protected frames stay used, the frames of buffers and of the running
  request are used and apart, the running request is a row plus at most the
  frame that broke it; the bitmap is `before` plus what the request took, and
  the request began at the lowest free frame.
- Screen. Unless something was `missed`, every tile of both buffers is the
  picture of the windows (`ScreenOk`). A pass shows that input, clicks and drag
  only change the windows in ways the snapshot comparison, the drag rectangles
  or a full drawing cover. The proof found a case the model had left out: a
  right click that ends a drag in the pass of the release leaves no rectangle
  of the place it was dragged from (gui.cpp:11885-11939, 10790-10805);
  `DragDropped` now names it.
- Updates. The invariant says of each structure on the drive who may be in the
  middle of it: headers of images only where an image has room, a package only
  in the last sector, what the host has staged and what the guest has read of
  it as long as `touched` is empty, and every version that was ever published.
  `TornInv` adds, for a drive with at most one partition: an image that a start
  can find is whole, waits to be installed again, or is excused by the package,
  by `touched` or by `mixed` (`ShownOk`); records speak of the region they stand
  in and lie outside every image (`PlacesOk`, `RecordsOutside`); setup and
  updater write only where a start can look (`AimsOk`); and the record of a
  region waits until its image is complete (`InstallOk`). The package leaves the
  drive in `FinishStep` alone, when the one image a start can find is whole.
- Parts. A part moves by its own relation in every behaviour (`PartsMove`), so
  each has an invariant of its own. Prompt: until the first attempt nothing
  dismissed is newer than the version dismissed last. Clocks: `TimerOk` counts
  the cycles as rounds of the counter, whole milliseconds and a remainder
  (`UnitsMakeTime`); `RtcOk` says when each register was read and that none was
  read across an update, and a wait is then a difference modulo the day
  (`RoundDifference`). Snake: a move keeps neighbours beside each other and
  cells apart (`InPiece`); food is found because the walk of fives visits as
  many cells as the grid has (`WalkIsInjective`) and the snake covers fewer
  (`SomeCellIsFree`). Setup: `SetupOk` gives for each phase what the drive
  holds - an image whose header stands is whole, or the record says it is not
  finished, or the installer is still at it - for every region an image can
  have. Loader: the frames taken lie in a row (`InARow`), so that every cell of
  the image has one (`CellInFrame`); what each section has written and how far,
  cell by cell; and every way out frees what the launch took. Browser: what was
  fetched is what the address of the last redirect answered. Input: what was
  taken, what is on the wire and what is still to be sent make the keys that are
  held and the place of the mouse, every extended key behind its prefix, as long
  as no prefix was parted from its key. Boot: the headers of an archive lie
  apart, and a walk that has come to one has left nothing it seeks behind; songs
  are those up to there. File Manager: after the first files of the archive the
  rows are their children, each once, all of them or as many as fit.

What a recursive function computes (where the headers of an archive lie, the
rows after each file) cannot be proved with the induction theorems of the
library here; these proofs take the least place where the claim fails instead
(`LeastOfNaturals`, which needs only that the naturals are well-founded).

One of the assumptions deserves its reason. `SnakeAssumption`: the search for
food steps by five over 108 cells (gui.cpp:2797); on a grid of a multiple of
five it would see a fifth of the cells and could fail with free cells left.
Nothing is assumed of the drive but that it has sectors: where a partition ends
with the drive its record and that of the whole drive are one sector, as on
TLC's, and choosing either of the two for an installation gives the account up.

Lemmas are stated with their hypotheses and each step of `Next` has its own.

Only model-checked:

- the liveness properties `ServiceReturns`, `DescriptorReturns` and
  `RequestEnds`, and everything about `ENABLED`: the prover has no rule for
  fairness here.

Every invariant of a passing run is a theorem; one has a hypothesis of its own.
`TornIsOnOffer` asks for at most one partition, because with more it is false:
with two installations, one torn, and a header that cannot be read during the
update, `installer_find_existing_install` gives the other one, which is
repaired, and the package is taken away. TLC finds that drive in 33 steps.

## 6. What is not modelled

Most of `gui.cpp` draws: text, icons, glass, layouts, the contents of windows.
None of it decides anything but pixels, and it is the greater part of what the
map does not cover. `gui.c` and `image.c` are older twins the Makefile does not
build (it builds `gui.cpp` and `image.cpp`), and `ac97.c` and
`game_runtime.c` are not built either.

Dead code: nothing sets `show_welcome` (so `handle_oobe_click` and the welcome
window are never reached), `videos_playing` is never true (no media playback),
no window is ever shaded, and a DHCP lease never comes about.

Data conversions: checksums (the models take a segment or frame as accepted or
not; the transport layer stores TCP and UDP checksums without the byte swap the
IPv4 header gets, transport.c:574, net.c:528), contents of DNS and DHCP
messages, image decoding, HTML, base names and escapes. Registers of the clock
in 12-hour format, which `rtc_read_time` decodes wrongly: the BCD conversion
masks the PM bit, and noon and midnight are not told apart.

Bounds of the machine that are not reached: wrap of the ARP stamps and of the
ephemeral ports. A draw buffer that could not be had, where `vga_initialize`
draws to the front buffer directly.

Left out of parts that are modelled: start-up of the card and of the drive,
port I/O and status polling; `net_http_get` reporting "HTTP request completed"
after a time-out inside a body (the model knows the page is cut, the message is
not modelled); the five seconds and the reset at the end of the power action;
keys other than modifiers in `Ps2Input`, and of those the fake shifts (E0 2A) and
Pause (E1 1D), which `poll_input` also takes for modifiers; a press and release in one poll,
which the desktop does not see as a click; keys that a visible snake window
takes from the window in front; the Run dialog, Task Manager, Terminal, Notepad
and theme changes.

Observations that are excused in the properties rather than reported: an update
on a machine where no installation is found goes to the whole drive; a header
the host stages between the guest's second read of it and its clearing is
cleared with it; an installation that failed stays on its screen until a
restart.

## 7. Plan

1. An abstract specification of the drive - a start finds one whole image or
   offers what repairs it - implemented by `UpdateSystem`; `TornInv` is most of
   the refinement.
2. Drives with several installations, with the update that repairs the wrong
   one stated as a property of its own.
3. Terminal and Run dialog in `Desktop`; playback once the code starts it.

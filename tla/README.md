# qboot: a TLA+ verification project

qboot is the second-stage boot loader of boards with the Innofidei I10 (ARM11)
system-on-chip.  It brings up pins, timer and UART, offers a command
console on the serial line, and loads images: over the serial line with the Kermit
protocol (`loadb`), or from a FAT-formatted SD/MMC card (`sdload`).  `linux` and `go`
start what was loaded.

The program runs with interrupts disabled on one core and has no threads.  What is
hard about it is what it talks to: a sender on an unreliable line, an operator who
types anything in any order, a card that fails or is exchanged, hardware that answers
when it likes.  The modules here model the program's handlers together with those
partners, and TLC explores every order of their steps.  The sources have no tests and
hardly any documentation; comments and messages in the code are all it says about
itself, and they are what the findings below are measured against.

All paths are relative to the repository; `console.c` is `src/src/console.c`,
`fat.c` is `src/src/fs/fat/fat.c`, `cmd_kermit.c` is `src/src/cmd/cmd_kermit.c`.

## 1. The system

| Component | State | Operations | Interacts with |
|---|---|---|---|
| Kermit receiver (`cmd_kermit.c`) | `kermit_seq`, `kermit_handler`, `kermit_size`, the bytes at `kermit_addr` | `kermit_recv`, `kermit_getpacket`, `kermit_send_ack`, handlers `kermit_r/rf/rd` | sender over UART; `loadb` reports its result |
| Console (`console.c`) | line buffer, cursor, escape flags; ring `vpchCmdStack`/`iCmdHstSP` | `GetMessage` and its key handlers, `TranslateMessage`, `DispatchMessage` | operator over UART; command table |
| Command table (`command.c`, `cmd.h`, `ld.script.in`) | the linker section `.cmdcall` | `find_cmd`, `help` | console |
| FAT reader (`fat.c`, `fat.h`) | `FAT_CONTEXT`, `FAT_FILE`, the static one-sector table cache | `fatfs_bind_device`, `fatfs_fopen`, `fatfs_fread`, `fatfs_fseek` | block device; `sdload` |
| MMC/SD core (`mmc.c`) | `struct mmc`: version, capacities, `rca`, bus width, clock | `mmc_init`, `mmc_startup`, `mmc_bread` | host controller; FAT reader |
| I10 card host (`i10_mmc.c`) | controller registers, `cmd.response` | `sdi_send_request`, `sdi_finish_cmd`, `sdi_finish_data` | card |
| USB device (`musb_udc.c`, `ep0.c`, `core.c`) | `ep0_state`, `ep0_urb`, device state and address, endpoint urbs | `udc_irq`, `ep0_recv_setup`, `udc_endpoint_write` | USB host |
| `linux` (`cmd_bootlinux.c`) | addresses, machine id, command line | option loop, tag list | kernel |
| Memory commands (`cmd_mem.c`) | none | `md*`, `mw*`, `memtest` | memory |
| Timer, UART, clocks, GPIO, pins | registers, `gpio_bank_state` | delays, time-outs, the clock of a bank of pins | hardware |
| Start-up (`head.S`, `main.c`) | memory image | relocation, clearing bss, calling the initialisers | all |
| C library (`stdlib/`, `vsprintf.c`) | none | string functions, `simple_strtoul`, `sprintf` | all |

The default build takes in `drivers/{uart,timer,mmc}`, `fs`, `cmd` and `lib`; the USB
driver, the NAND stub and four of the commands (`sdload`, `linux`, `delay`, `wdt`) are
in the tree and not in the makefiles.  They are part of the inventory all the same.

### What makes each component hard, and what makes it correct

**Kermit receiver.**  Stop-and-wait with six-bit numbers over a line that loses and
damages frames in both directions, with a sender that retransmits.  The numbers wrap;
they are compared as integers; the packet is acknowledged before it is handled; errors
of handlers cannot be seen because the result is kept in an unsigned variable.  It is
correct when the memory holds the batch once and in order, a size is reported only for
a complete batch, what the sender saw acknowledged is stored, and a sender that does
not give up gets its batch across.

**Console.**  A line buffer that is shifted in place and leaves stale bytes behind its
terminator, a ring of lines whose free slot doubles as the store of the unfinished
line, a decoder of escape sequences with two flags.  It is correct when it edits a line
the way an operator sees it, recalls what was entered, and runs what was entered.

**FAT reader.**  Reads are cut into sectors with partial ones at both ends; each sector
is looked up along a chain of clusters from its start through a one-sector cache that
is static; results of reads are partly ignored.  It is correct when a file reads like a
file, every file is found, calls end, and counts are right also when the card fails.

**Card core.**  Bring-up is a conversation with a card of unknown kind, by
commands with time-outs; state of the previous card persists in a static structure.
It is correct when a card that is accepted is selected and addressed in its own unit.

**Card host.**  The interrupt status is polled and only partly cleared, so the same bits
tell of the command before and of this one.  It is correct when requests end and a block
read is the one asked for.

**USB device.**  Polled, a control-transfer automaton fed by setup packets, interrupts
of both directions and bus resets in any order; bulk endpoints whose packets may come
before there is a request for them, and whose interrupts are read and forgotten.

**The parts others are built from.**  Boundaries: the last byte, the sign, the wrap of a
counter or a ramp, the time-out that meets zero, the length that does not fit.

The list of hazards, each at its line, is in `PROJECT.json`.

## 2. Modules

| Module | Models | Extends |
|---|---|---|
| `FileTransfer` | abstract: memory grows by pieces of the batch, success only when complete | |
| `Kermit` | `kermit_recv()` with its handlers, the sender and the line | |
| `KermitProofs` | theorems about `Kermit` | `Kermit`, `TLAPS` |
| `LineEditor` | abstract: a line, a cursor, kept lines | |
| `Console` | `GetMessage()`, `TranslateMessage()`, `DispatchMessage()`, `find_cmd()` | |
| `DataInduction` | induction, recursion and folds, as the proofs use them | `TLAPS` |
| `ConsoleProofs` | theorems about `Console` | `Console`, `DataInduction` |
| `FileReader` | abstract: a file with a position | |
| `FatFs` | bind, open, seek, read, the table cache, the card | |
| `FatVolume` | external: what a card holds when it holds a FAT volume | `FatFs` |
| `FatFsProofs` | theorems about `FatFs` on such cards, and on any | `FatVolume`, `TLAPS` |
| `SdCard` | external: what a memory card may do with each command | |
| `BlockDevice` | abstract: reads deliver blocks of the medium set up | |
| `Mmc` | `mmc_init()`, `mmc_startup()`, `mmc_bread()`, loads one after the other, exchange of cards | `SdCard` |
| `MmcProofs` | theorems about `Mmc` | `Mmc`, `TLAPS` |
| `UsbBus` | external: endpoint 0 of the USB controller, and the host | |
| `UsbEp0` | `udc_irq()`, control transfers, `ep0_recv_setup()`, device states | `UsbBus` |
| `UsbEp0Proofs` | theorems about `UsbEp0` | `UsbEp0`, `TLAPS` |
| `BulkPipe` | abstract: requests are filled with what the host sent, in order | |
| `UsbBulk` | bulk endpoints: `musb_peri_rx()`, `udc_start_rx()`, `udc_start_tx()`, `udc_endpoint_write()` | |
| `SdiHost` | `sdi_send_request()` and the controller beneath the card core | |
| `DriverProofs` | theorems about `UsbBulk` and `SdiHost` | `MCDrivers`, `TLAPS` |
| `Strings` | `string.c` on a memory of a few bytes | |
| `Printf` | numbers to text (`vsprintf()`, `NumToAscii()`) and back (`simple_strtoull()`, `hatol()`) | |
| `KermitFrame` | the characters of `kermit_getpacket()` and `kermit_send_ack()` | |
| `BootLinux` | `linux`: options kept between commands, the tags for the kernel | |
| `Timer` | `udelay()`, `__udelay()`, `delay_cycles()` against a running counter | |
| `Uart` | sending, receiving, and receiving with a time-out | |
| `MemTest` | `memtest` on sound and on faulty memories | |
| `Pins` | requesting and freeing in `gpio.c`, `clock_switch()`, `i10_iomux_config()` | |
| `Startup` | `head.S`: relocation, clearing of bss | |
| `MCDrivers` | sum of `UsbBulk` and `SdiHost` | both |
| `MCLibrary` | sum of the nine modules from `Strings` to `Startup` | all nine |
| `LibraryProofs` | theorems about those parts | `MCLibrary`, `DataInduction` |
| `MCConsole`, `MCFatFs`, `MCKermit`, `MCMmc`, `MCUsb` | finite instances for TLC | the module named |

`MCDrivers` and `MCLibrary` are sums and no compositions: their parts share no state, a
variable `part` says which one a behaviour is about, and the other parts do nothing.

### Kermit

`kermit_recv()` loops around `kermit_getpacket()`.  The actions `RecvBad`, `RecvAhead`,
`RecvDuplicate` and `RecvExpected` are the four ways through the loop body up to the
call of the handler, in the order of the code's tests, each including the answer it
sends; `Dispatch` is the call through `kermit_handler`.  The answer and the handler are
two steps (`pc`) because the sender can act on the first before the second: the hazard
of an acknowledgement for something not stored.  `kermit_seq` is 255 (`0xff`) before the
first packet, as in the code, and the first packet's number is taken whatever it is.

The variable `ret` of `kermit_recv()` is a `uint32_t`, so `ret < 0` never holds: a
handler that returns an error is treated like one that succeeds.  That is why the
handlers here leave `pc` at `getpacket` for packets they do not expect.

The sender is external.  It sends packet `sndIdx` until it hears an acknowledgement for
it, and reads a negative answer for the next number as one, as Kermit senders do.  Its
user may interrupt it, which puts an error packet in the place of the current one, and
it may give up at any time, also on a complete transfer: the board leaves when it has
answered the last packet, and when that answer is lost nobody repeats it.  No property
excludes that, since two ends of a lossy line cannot both be sure; what may not happen is
the opposite (`SenderDoneOnlyAfterBoard`).  The line holds frames in order, loses and
damages them.  A frame is decoded whole here, and one that is damaged is told by its check: `KermitFrame`
follows the characters and shows when that is so.  A damaged length byte makes
`kermit_getpacket()` swallow the frame behind; that is a damaged frame and a lost one.

`KermitFrame` builds packets as a sender does, quoting control characters, lets the line
change one bit of one character behind the length or lose one such character, and reads
them as `kermit_getpacket()` does: the length first, then that many characters, quoted
or not, and the check over the characters as they came, folded to six bits.
`FramesDecode` says that an intact packet gives its number, type and data and a damaged
one gives an error; for the answers of `kermit_send_ack()` it says that the other end
reads the number meant.  Damage of two bits can cancel in the sum, and a damaged length
moves the check to another character: what is then taken for a check fits one time in 64.

`FileTransfer` is implemented with `received <- stored` and `reported <- pc = "done"`.

### Console

One action per `raw_getchar()` of `GetMessage()`, named for the place it waits in
(`ReadKey` at line 280, `ReadEsc` 284, `ReadCsi` 287, `ReadTail` 343 and 363), each
followed by the switch up to the next read.  Reading keys at separate places is what
makes broken-off sequences visible.  The line buffer is the array of the code with one
more byte; what happens once that byte is written is undefined, and the model stops
there (`Defined`).  `Dispatch` is `TranslateMessage()`, the table lookup, the command
and the start of the next `GetMessage()`.  A line of spaces has no first argument;
`argv[0]` is then whatever the stack held, so any command may be run.  Screen output is
left out.  The variable `entered` remembers the last lines entered and is read by
properties only.

`LineEditor` is implemented with the first `cur_max` bytes of the buffer as its line.

### FatFs

One action per sector read, because each may fail and because the cache is what
persists between them.  `fatfs_bind_device` → `BindSector0`, `BindBootSector`;
`fatfs_fopen` → `SearchFat16`, `SearchFat32`, `SearchFat32Link` (a sector of the
directory, or the link to its next cluster); `fatfs_fread` → `FollowCluster`,
`ReadFileSector`, `ReadDone`.  `ClusterContentInFAT` reads through the static cache.
Where the code looks at the result of a read the model does, and where it does not,
`r.ok` does not appear.  A failed read leaves the buffer as it was or filled.  The caller
is any client that binds, opens, seeks and reads; `NewCommand` ends a command as
`do_load_file()` does, with nothing kept but the cache.

A card is a function from sectors to what the code finds in them; `MCFatFs` formats
small ones (`MkDisk`).  `FatVolume` says what it is for a card to hold a volume
(`LaidOut`): the chains of its files and of its FAT32 root directory are linked in the
table, each sector of a file holds the file's bytes at that place, and the entry a search
comes to first has the file's size and first cluster.  `Findable` adds that every file has
such an entry in a sector that is looked at.  The theorems take both for granted of cards
that do not fail; TLC evaluates them for each card of `MCFatFs` (`CardsAreVolumes`), and
`Findable` fails there for the one whose directory is full.  `FileReader` is implemented with the position of the file
pointer, which during a read is that at its start.

### Mmc

One action per command sent, because commands and answers may be lost and the card
exchanged between any two.  `pc` is the command to send next; the actions come in the
order of the code: `Identify` is `mmc_init()` with `sd_send_op_cond()` and
`mmc_send_op_cond()`, `Startup` is `mmc_startup()` with `sd_change_freq()` and
`mmc_change_freq()`, then `mmc_bread()` with `mmc_set_blocklen` and `mmc_read_block`.
`mmc` is the static structure, which `Sdload` starts from as the last load left it but
for the number of data lines.  `mmc_send_if_cond()` and the second `mmc_go_idle()` have
results nobody looks at, and in the model their errors change nothing.  The two power-up
loops decide by their count whether the card is ready, as the code does, so a card that
is ready at the poll that takes the count to 0 is taken for one that is not; the
constant `LastTry` lets that happen.

`SdCard` is external: the states a card goes through, the commands it obeys in each, and
the answers, for SD cards of versions 1.0, 1.1, 2 and high capacity, MMC cards of
versions 3, 4 and high capacity, and an empty slot.  It is silent where it does not
obey.  Whether a card that was given the address 0, which deselects all cards, can be
selected with it differs from card to card, so both happen.  The host controller is what
the core takes it for: it hands over the answer or returns `TIMEOUT`.  The real one,
`i10_mmc.c`, does less (`SdiHost`, section 6).  Clock rates, the capacity, and the effect of high
speed are left out; `blocknum * 512` stays below 2^32.

`BlockDevice` is what the FAT reader needs from below.  It is implemented with the card
`mmc_init()` returned 0 for as its medium: a read that succeeds after an exchange, when
the new card happens to be selected, would deliver another medium's blocks.

### UsbEp0

`udc_irq()` is polled; nothing in the repository calls it yet.  Its steps follow the
code: `ReadIntrUsb` takes the bus interrupts, `musb_peri_ep0` clears the flags of a
request that ended and goes on by `ep0_state` to the idle, transmit or receive handler,
`UsbEvents` handles a reset, `ReadIntrTx` takes the transmit interrupts and enters the
transmit handler again, or `musb_peri_ep0_set_address` puts an address in force.  A step
ends where the driver reads a register it branches on or waits for the host; register
accesses inside a step follow each other within microseconds, and no packet of the host
falls between them.  The idle handler has an action for each outcome (`NoRequest`,
`StrayData`, `ZeroDataRequest`, `TxDataRequest`, `RxDataRequest`), the waits are steps of
their own (`Last`, `TxSent`).  `ep0_recv_setup` is an operator that returns whether the
request is refused, how much there is to answer, and the device afterwards; answers are
told apart by the request they are for, not by their bytes.  `musb_peri_ep0_rx()` reads
`MUSB_CSR0` without the endpoint's offset, which is `MUSB_INTRTX`: reading it clears it,
so the second read is 0 and data of the host is never taken.  The model does that, and
what follows `count0` is unreachable in it.

Start is the state `udc_startup_events()` leaves.  Suspend and resume change nothing; a
disconnection does what a reset does.  Interface numbers and `device->event` are left
out; the other endpoints are `UsbBulk`'s.

`UsbBus` is external: `MUSB_CSR0` as a set of bits, the two interrupt registers, the
FIFO in each direction, and a host that has one request under way, which may be given up
for another or cut off by a reset.  A SETUP packet is always taken and clears what was
waiting to be sent, tokens are put off while a request has not been acknowledged, and a
reset clears the address and the bits.  The host waits after a reset until the driver
has polled.

### UsbBulk

What `udc_irq()` does for endpoints 1 to 15 and what a function driver calls.  The
repository has no function driver, so it is external: it sets up endpoints, submits
requests of any size when the entry is free, polls `udc_irq()`, and submits from
completion callbacks too, which is where entries are in an awkward state (`bpc` is
"callback" while one runs).  `udc_irq()` reads `MUSB_INTRRX`, which clears it
(`ReadIntrRx`), and serves the endpoints one by one (`musb_peri_rx`); a packet whose
interrupt comes when no request is waiting stays in its FIFO, and `udc_start_rx()` looks
for it.  `udc_endpoint_write()` loads one packet; the function driver has to call it
again for the next (`EndpointWrite`), since `musb_peri_tx()` ignores the transmit
interrupts of these endpoints.  The wait for the closing empty packet is a step of its
own (`ZeroPacket`).  Endpoints are filed by `udc_setup_ep()` and found by
`GET_RXENDPOINT`, which compute the place separately; the model does too.

`Received` copies at most what the request has room for; the rest of the packet goes with
its acknowledgement.  A packet of length zero is not acknowledged, as in the code.
`BulkPipe` is implemented with the packet in the FIFO as what is in flight.  A request
of size zero that is submitted to receive never ends; `Sizes` leaves it out.

### SdiHost

`sdi_send_request()` with the controller's status bits and its buffer of one block.  The
steps are the reads of status registers, since the card goes on between them: `Taken` is
the wait for the controller to take the command, `sdi_finish_cmd` and `FinishTimeout`
the counted wait for its end, `FinishDataRead` and `FinishDataClear` the two halves of a
round of `sdi_finish_data()`: what is read is written back later, and a bit that was set
between the two must not be lost.  CMD_DONE is set by the controller and cleared by
nobody but a read, so the end of a command may be taken for that of an earlier one.
The card is external: it answers, sends its block, and the transfer ends, in order and
possibly never; it forgets what it owed when it is sent another command.  The state
`stale` and the flag `gaveUp` are read by the property only.

### The library modules

*Strings.*  A memory of a few bytes; every call is an action that takes the memory and
its arguments to the memory and result it leaves, with the loops of the code as folds or
sets.  `StringsAgree` compares with what the functions mean, stated without the loops:
what lies between pointer and end, which bytes may have changed, overlapping moves.

*Printf.*  `NumToAscii()` and the flags, width and padding of a conversion; then the
text is read back by the program's own `simple_strtoull()` and `hatol()`.  `PrintfReadsBack` says that the value
comes back and the text has its width, for the directives for which the code keeps it.

*BootLinux.*  A line is read option by option (`at`), the addresses, machine number and
command line stay from one command to the next, and `-b` lays the tags.
`KernelGetsWhatWasAsked` walks the tags as a kernel does, by their sizes, and compares
what it finds with what was entered last.  The size of the command-line tag leaves out
the terminating zero of the text (`cmd_bootlinux.c:113`), which for a text of a multiple
of four characters is in the word the next tag takes: the kernel then finds the text
ended by the size of the closing tag, which is 0.  The property holds for that reason.

*Timer.*  The counter runs on between any two readings by up to `Latency`.
`DelayKeepsTime` bounds a delay from above, and from below by the cycles asked for, less
what the divisions of `__udelay()` drop: less than one cycle for each whole millisecond
and two for each round of `udelay()`.  *Uart.*  The loops with their counts, against a port
that fills and empties its FIFOs at any time.  `FifosHold` is about `uart_putc()` and the
receiving calls: the count alone says behind the loop how it ended.  `TimesOutAsAsked` is
what `expires_ms` asks for, and does not hold (run `uart_timeout`, section 5).

*MemTest.*  A memory that is sound, has a bit stuck, or has two words in one place;
the ramp goes on from the value before in the order of the code.  `FaultsAreFound`: no
error on a sound memory, and every fault by the second pass, or by the third when the
first pattern is negative.

*Pins.*  A clock has a control bit, which the code sets and clears, and a status bit, which
it reads and the clock tree changes some time later (`ClockStarts`, `ClockStops`); waiting
for a start is a step of its own (`ClockSeen`), stopping is not waited for.
`BanksAreClocked`: a bank is clocked while one of its pins is requested, and only then is it
turned on.  A bank that is freed and requested again before its clock has stopped is taken
for one that is clocked, and then is not; the variable `mistaken`, which no action reads,
remembers such banks, and the property excepts them (section 5).  `MuxAsListed`: the mux
registers hold what the list said last for each field.
*Startup.*  The copy goes in blocks of eight words (`Block`) and may run past the image;
when `main` begins the image is where it was linked, and what is behind it is clear.

## 3. Runs

| Run | Checks | Shows |
|---|---|---|
| `kermit` | `StoredIsPrefix`, `CompleteWhenDone`, `AckedIsStored`, `SenderDoneOnlyAfterBoard`, `IInv`, `Transfer`, `TransferCompletes` | two files in one batch arrive once, in order, or are not reported |
| `console` | `TypeOK`, `RingHoldsEntered`, `RunsWhatWasEntered`, `EditsALine`, `DraftKeptFromEnd` | the buffer is edited like a line, the ring keeps what was entered, and the first fields are the arguments run |
| `fat` | `ReadsLikeAFile`, `OpenFindsFile`, `AccountsForEveryByte`, `EveryCallReturns` | on sound cards a file is a file; on one that fails the pointer moves by what was stored |
| `mmc` | `TypeOK`, `ReadyMeansSelected`, `AddressUnitsAgree`, `DataWidthsAgree`, `IsABlockDevice`, `EveryCallReturns` | a card that is accepted is selected, addressed in its own unit and width, and its blocks are what a read returns |
| `usb` | `HeardAtAddress`, `DeviceStateAgrees`, `DataIsTheAnswer`, `RequestsEnd` | the device is heard where the host calls it, is in the state it was put in, sends the answer to what was asked, and answers |
| `drivers` | `SentInOrder`, `BlockIsTheOneAsked`, `OutIsAPipe`, `BulkDelivers`, `RequestsReturn` | bulk data arrives in order and arrives; requests to the card host end, with the block asked for |
| `library` | `StringsMeanWhatTheySay`, `PrintfReadsBack`, `FramesDecode`, `BootsAsAsked`, `WaitsKeepTime`, `UartPollsDecide`, `MemtestFinds`, `BanksRun`, `BoardComesUp` | the parts others are built from do what their users rely on |
| `console_overflow` | `LineFitsBuffer` | violated, see below |
| `fat_swap` | `BytesAreTheFiles` | violated, see below |
| `fat_last_sector` | `OpenFindsFile` | violated, see below |
| `mmc_unusable` | `UnusableIsNotUsed` | violated, see below |
| `uart_timeout` | `GetcTimesOut` | violated, see below |

Every property of a passing run has a mutant: a plausible slip in one definition, kept
beside the definition it replaces and marked "Mutant", under which TLC finds the
property violated.

### Bounds, and why they are enough

*Kermit.*  Ten packets (`S F A D D Z F D Z B`): every packet type, every transition
between handlers except those an empty batch has, data in two packets of one file and
in a second file.  The first number is 60, so the six-bit number wraps between the data
packets of the first file.  Up to four frames and four answers in flight
(`LineCap`): the invariant proved says that the line holds copies of at most two
different packets, and with four places both kinds, repeated, are reached.  The
theorems have no bounds.

*Console.*  `Sends` bounds the characters the terminal sends in each place.  A buffer of
four bytes holds every relation of a character before, at and behind the cursor to the
end of the line and to stale bytes, and lets the line reach the byte past the buffer; the
letter also occurs inside sequences.  A ring of two slots is the smallest that has a free
one: each line entered wraps it, and drafts, interrupted lines and browsing meet the line
before in every order.  That a longer ring keeps its lines in order is the theorem
`RingHoldsEnteredCorrect`.  The same lines are run: one argument of at most two characters
with its end, so that a second field, a word that is too long and one that just fits occur.

*FAT.*  Sectors of two bytes and tables of four (FAT16) or two (FAT32) entries per
sector make small files cross everything there is to cross: a file of nine bytes spans
five sectors, three clusters of two sectors or five clusters of one, and chains run
back and forth over table sectors.  Reads by 0 to 9 bytes at every offset, seeks by
−9 to 9 from each origin.  The FAT16 card has a partition table and two FATs, the
FAT32 card neither, and a directory of two clusters.  A third card fails reads at any
moment, those of binding and opening included.  Sums of offset and count do not reach 2^32.

*Mmc.*  Cards of all kinds, two addresses an SD card may make up, so that the address of
an earlier card is another one; two exchanges, so that three cards meet one structure;
two commands or answers lost, so that a retry can fail as well.  Two polls for 1000
(`Tries`): the loop's cases are a poll before the last, the last, and none left.  Blocks
0 and 5 by 0 to 2: the address in blocks and in bytes differ, and a byte address taken
for a block number (2560) is still on a card of 4096 blocks.

*USB.*  A descriptor of three packets with a short last one, read whole or only its first
packet; requests accepted, refused by name, by state and by type, with data either way
and without.  Behaviours are unbounded.  Two assumptions about the host are constants:
`SlowStatus` is FALSE, the host takes the status stage of a request without data within
the ten milliseconds `musb_peri_ep0_last()` waits; `AbandonsIn` is FALSE, it reads an
answer to its end (section 5).

*Drivers.*  Packets of up to two bytes and requests of two and three, so that a request
is filled exactly, ends inside a packet, and needs a second one; bytes are numbered
modulo 3, which tells a packet of two from its neighbours.  Two receiving endpoints, or
one of each direction with one number.  Two polls for the 1000 of the card host, two
blocks, so that one can be taken for the other.

*Library.*  A memory of five bytes with two characters and the end, all contents and all
pointers; words of eight bits at and around their limits with all pairs of flags and
widths from 0 to 6; packets with up to two characters of eight kinds (plain, quote,
control, with the eighth bit); lines of up to three arguments and command lines of every
length modulo four, two lines after each other; a counter that wraps after 16 cycles
with chunks of seven, and a rate at which every division of `__udelay()` drops something;
FIFOs of two characters, with time-outs of 0 to 6 milliseconds of three polls; five words of four bits with every
pattern and fault, so that the ramp wraps; two banks of two pins, lists of mux fields
that come back to a register they had left; an image of five words copied by two, before
and behind its place.  None of these sizes occurs in the code other than through the
constants, and each lets its loop end at the boundary, before it and after it.

### Fairness

*Kermit.*  The board polls for ever (no time-out in `kermit_getpacket()`), so `Dispatch`
is weakly fair; the sender retransmits on a timer, so `SenderTransmit` is weakly fair.
The line delivers some of infinitely many frames and some of infinitely many copies of
the packet the board waits for, and some of infinitely many answers: strong fairness of
`Receive`, `RecvExpected`, `SenderHear`.  Nothing is assumed about interrupting and
giving up; `TransferCompletes` excepts a sender that did.

*FAT.*  A call runs on to its end: weak fairness of `Step`.  No fairness on the calls.

*Mmc.*  The same: the program runs, and every command ends in an answer or a time-out,
so `Step` is weakly fair.  Cards need not become ready, and nothing is assumed about
calls and exchanges; `EveryCallReturns` rests on the counts of the loops alone.

*Drivers.*  The function driver polls and goes on to load what it submitted, and the host
takes what is offered.  `ReadIntrRx` and `EndpointWrite` need strong fairness because
callbacks come between, and `CallbackReturns` because a callback may submit a request
that completes at once; the program's own steps are weakly fair.  The host need not send.  For the card host the
program runs and the controller sends commands (`Controller`: that wait has no count);
the card need not answer.  *Library.*  No liveness is stated.

*USB.*  The board polls (`udc_irq`), the host goes on with its request (`HostStep`), and
frames start every millisecond (`FrameStep`): weak fairness of each.  None for requests
and resets.

## 4. Proofs

Each component has a module of proofs; the two drivers of `MCDrivers` share one, and so
do the parts of `MCLibrary`.  The theorems hold for every value of the
constants that satisfies the assumptions of the module they are about, which TLC
evaluates in the runs; what a theorem assumes beyond those is named below and in its
statement.

Most of the properties are not inductive, and the invariant they follow from is the
interesting part.  The proof that a step keeps it has a step per action and below it one
per conjunct the action disturbs; what the operators do is stated first, in lemmas
(`ASSUME ... PROVE`).

| Module | Theorem | Establishes | Assumes besides |
|---|---|---|---|
| `KermitProofs` | `TypeCorrect`, `IInvCorrect` | `TypeOK`, `IInv` | |
| | `StoredIsPrefixCorrect`, `CompleteWhenDoneCorrect`, `AckedIsStoredCorrect`, `SenderDoneOnlyAfterBoardCorrect` | the property so named | |
| | `Refinement` | implements `FileTransfer` | |
| `ConsoleProofs` | `EditInvCorrect` | `EditInv` | |
| | `RingHoldsEnteredCorrect`, `DraftKeptFromEndCorrect` | the property so named | |
| | `RunInvCorrect`, `RunsWhatWasEnteredCorrect` | `RunInv`, `RunsWhatWasEntered` | |
| | `TypeCorrect` | `TypeOK` | |
| | `Refinement` | implements `LineEditor` | |
| `FatFsProofs` | `PointerInvCorrect`, `AccountsForEveryByteCorrect` | `PointerInv`, `AccountsForEveryByte` | `SectorsTyped` |
| | `VolumeInvCorrect` | `VolumeInv` | `VolumesInSlot` |
| | `OpenFindsFileCorrect` | `OpenFindsFile` | `VolumesInSlot`, `Findable` |
| | `BytesAreTheFilesCorrect` | `BytesAreTheFiles` on sound cards | `VolumesInSlot` |
| | `Refinement` | implements `FileReader` | `VolumesInSlot` |
| `MmcProofs` | `MmcInvCorrect`, `TypeCorrect` | `MmcInv`, `TypeOK` | |
| | `ReadyMeansSelectedCorrect`, `DataWidthsAgreeCorrect` | the property so named | |
| | `AddressUnitsAgreeCorrect` | `AddressUnitsAgree` | `~LastTry` |
| | `Refinement` | implements `BlockDevice` | `~LastTry` |
| `UsbEp0Proofs` | `BusInvCorrect`, `TypeCorrect` | `BusInv`, `TypeOK` | |
| | `AddressInvCorrect`, `HeardAtAddressCorrect`, `DeviceStateAgreesCorrect` | `AddressInv` and the property so named | `~SlowStatus` |
| | `DataInvCorrect`, `DataIsTheAnswerCorrect` | `DataInv` and the property so named | `~AbandonsIn`, `AsksEnough` |
| `DriverProofs` | `BulkInvCorrect`, `SentInOrderCorrect` | `BulkInv`, `SentInOrder` | |
| | `Refinement` | implements `BulkPipe` | |
| | `SdiInvCorrect`, `BlockIsTheOneAskedCorrect` | `SdiInv`, `BlockIsTheOneAsked` | |
| `LibraryProofs` | `BanksRunCorrect`, `BoardComesUpCorrect`, `WaitsKeepTimeCorrect`, `UartPollsDecideCorrect`, `MemtestFindsCorrect`, `FramesDecodeCorrect`, `StringsMeanWhatTheySayCorrect`, `PrintfReadsBackCorrect`, `BootsAsAskedCorrect` | the property so named | |

**Induction and folds.**  What a loop computes is proved by induction along it, and the
library's induction theorems are about operators, which the provers cannot instantiate.
`DataInduction` states them for sets and functions: a predicate is the set of the numbers
it holds of (`UpTo`, `AllNat`), a recursion is a function for each step and has a sequence
of states (`Recursion`), and a fold of the community modules is such a recursion along the
positions of its sequence (`FoldExists`, `FoldFollows`).  All of it follows from the
well-foundedness of the natural numbers.

**Kermit.**  For every batch, first number and line capacity (`BatchAssumption`: the
packets follow the Kermit file protocol, `ImageAssumption`: `Offset` says which bytes
each packet carries, `LineAssumption`).  That a duplicate is recognised depends on what
may still be on the line, and numbers repeat every 64 packets.  `IInv` says what makes
it work.  `WindowInv`: board and sender are at most one packet apart.  `BoardLineInv`:
the line to the board holds copies of the sender's packet and, in front of those, of the
one before.  `HostLineInv`: each answer asks for the sender's packet or the next one,
and once one asks for the next, all behind it do.  `HandlerInv`: handler and memory are
those after exactly the packets before the one waited for.  Together they make the
comparison of numbers sound in spite of the wrap: two different packets that can meet
are neighbours, and neighbours have different numbers modulo 64.  Where the non-modular
comparison decides wrongly, at the wrap, an old packet is refused rather than stored,
and the refusal asks for the sender's packet, so the invariant holds there too.

**Console.**  For every size of the buffer and of the ring, whatever the terminal sends.
`EditInv` has two parts: the line before its end is characters and fits the buffer with
its terminator (`LineInv`), until the place past the buffer is written (`Defined`); and
every slot of the ring holds a string that fits, the free one included, because that is
where an unfinished line is kept and fetched from (`RingInv`).  With it each of the
editing keys is one operation of `LineEditor`, whichever `raw_getchar()` took the
character, and stale bytes behind the end are never part of a line.
`RunInv` carries a line from the return key to its command: between the two the buffer
holds the line just entered.  What `Scan` makes of a line is shown along its characters:
after each, the fields so far and the one begun are the words of the characters so far
(`Scan` is a fold, `Words` cuts at blanks, and the two are compared position by position).

**FAT.**  For every size of a sector, of a table sector and of a cluster.  `PointerInv`
needs nothing of the card but the types of what is in its sectors: it holds on cards
that fail, and `AccountsForEveryByte` follows.  What a failed read
returns is left open (section 5).  `VolumeInv` is about sound cards.
`Cached`: the table sector kept is what the card has under that number, which is what
makes the cache right, and what an exchange breaks.  `Searching`: no sector of the
directory before the one searched ends the search.  `FollowsChain`: the link the walk is
at and the hops it has left make the cluster of the sector sought, `SectorAt` divided by
the sectors of a cluster.  `HasRead`: the bytes stored are the file's, up to the start of
the next sector.  The arithmetic of a read (quotients, remainders, the number of sectors
for an unaligned piece) is in the lemmas `SectorsNeeded`, `SectorWanted`, `NextPiece` and
`AfterPiece`.  `VolumesInSlot` says that cards are not exchanged between commands
(`~Swaps`; with exchanges `BytesAreTheFiles` is refuted by `fat_swap`) and that each card
that does not fail holds a volume.  `Findable` excludes what `fat_last_sector` refutes.

**Card core.**  For every number of polls, retries, faults and exchanges.  `MmcInv`: how
far the card in the slot is, by what was sent to it last or because it was just inserted
(`CardIsAt`); what the structure knows of a card that answered to an address
(`Identified`); the unit and the lines of a card (`Units`, `Lines`); and what was read
(`Stored`).  Type correctness includes that no count falls below 0.  An SD card that
became ready at the last poll is taken for one that is not; that it is never selected
under a wrong address rests on the address 0, which no SD card has.  `~LastTry` excludes
just that poll, at which `mmc_unusable` shows the unit wrong.

**USB.**  Endpoint 0: for every set of requests and descriptors.  `InFifo` ties the FIFO
to the request the host has under way; `AfterReset` says that between a reset and the
handler that sees it nothing is under way.  `Waits` is the heart of `AddressInv`: while
the driver waits for the end of a status stage, either the host has not taken it and
device and host differ by just that request, or it has and the driver has yet to put the
address in force.  `~SlowStatus` is the ten milliseconds `musb_peri_ep0_last()` waits,
`~AbandonsIn` a host that reads answers to their end (section 5), `AsksEnough` one that
asks for as much as the standard requests answer, whose length `ep0.c` does not look at;
TLC evaluates it for the requests of `MCUsb`.  Bulk: for every set of endpoints, size of
packets and of requests.  `BytesFollow` says that the bytes in a FIFO begin with the one
the host expects and those not yet loaded go on behind them.

**Card host.**  For every number of polls.  `CardInOrder` and `ReadIsSet` order what the
card still owes, the bits that are set and the bits that were read, so that after a read
that ended no bit of it is left for the next.

**Library.**  *Start-up*: for every size of image and block and every place it is loaded;
`Copied` says which blocks are in their place and that what is yet to be copied is
untouched, `Cleared` that the last block, which may run past the image, is what bss or
nobody holds.  *Pins*: the clocks turned on are those of the banks in use but for
`mistaken` ones, and each of them runs or is the one waited for (`GpioInv`); along a list of pin functions the registers written and the one still held, taken
together, hold what was listed so far (`Holds`).  *Timer*: for every counter, rate and
duration; `RoundsAre` and `TimeIs` bound the cycles that passed by the rounds done and by
what the divisions left over (`LostIn`).  *UART*: for FIFOs of any depth and any number of
polls; the count and the looks done add up to the polls, and it is not 0 while the loop
goes on (`UartInv`).  *Memory test*: for every number of words and width
of a word; a ramp that follows a pattern that is not negative is the complement of the one
before, so a bit that hid in one pass shows in the next (`Doomed`).  *Kermit frames*: for
any payload of bytes; the sum folded to six bits differs for each single bit of a character
(`CheckTells`); where damage makes or unmakes a `#`, the check is looked for at the end of
the line or at the next mark, which are no check characters; and undamaged data decodes,
by induction over its characters (`DataDecodes`).  *Strings*: for every memory and set of
characters; copying byte by byte from the safe end is copying at once, by induction along
the bytes (`IsCopy`), which with the 0 behind it is a text behind a text (`Placed`); two
texts are in the order of the first place where they differ (`OrderIs`), an end counting
as the least character.  *Printf*: for every even word size, sequence of flags, width and
number.  A text is a numeral when the values of its beginnings follow from one another
(`IsNumeral`); writing a number makes one, by strong induction over the number
(`DigitsAre`), zeros in front leave it one (`ZerosInFront`), and reading it runs through
the same values, which never pass the word (`NumeralIsRead`).  `PartsAre` lists what the
flags can put in front, `Shows` where blanks and zeros then stand, and `ReadsBack` that
each of these texts is read as the number.  *BootLinux*: for any lines the console lets
through, any number of them, and any size of the command line it allows.  `Seen` is where
an option stood in what was read so far, and `Taking` says that each option's value is what
stood at the last of those places (`IsLatest`); reading an argument, leaving a line and
entering the next each keep it.  Joining the words one by one, by induction, is their
flattening (`JoinedIsFlat`), and it fits (`TakenFits`).  `LaidOut` says what the three tags
are in memory, with the sizes as the walk reads them from their bytes; the 0 behind the
text is there or is the closing tag's first byte, and no character is 0, so that the text
ends there (`KernelFinds`).

What stays with TLC.  Liveness (`TransferCompletes`, `EveryCallReturns`, `RequestsEnd`,
`BulkDelivers`, `RequestsReturn`), since fairness and ENABLED are beyond the prover.
Every other property of a passing run is a theorem.  Two type invariants are in no run by
themselves: that of `Kermit` is the first part of `IInv`, that of `UsbEp0` is only proved.

## 5. Where code and comments part

Shown by runs:

- `console_overflow`: `PrintInput()` (`console.c:140`) limits the cursor and not the
  line, so a line typed with the cursor moved left outgrows its 256 bytes.
- `fat_swap`: the cached table sector (`fat.c:93`) is known by its number only; after
  another card is bound, reads follow the old card's chains.
- `fat_last_sector`: the search of a FAT16 root directory (`fat.c:211`) leaves out its
  last sector.
- `mmc_unusable`: `mmc_init()` (`mmc.c:705`) asks for `TIMEOUT` only; a card that
  `sd_send_op_cond()` gave up on as unusable (`mmc.h:55`, "Unusable Card") is started up
  with version and capacity flag of an earlier card.
- `uart_timeout`: `uart_getc_timeout()` (`uart.c:239`) counts milliseconds down twice a
  round: an even `expires_ms` ends in half the time, an odd one steps over 0 and does not
  end.  It has no callers.

Modelled as they are, and met while modelling, with no run of their own:

- `console.c:159` ends an unfinished line at the cursor before saving it: going up from
  inside a line loses what is behind the cursor, although the comment says "save current
  buffer".  From the end of the line nothing is lost (`DraftKeptFromEnd`).
- `console.c:283` leaves `esc_sequence` as the last sequence set it: after an arrow key,
  escape and a letter without a bracket is taken for an arrow.
- `fat.c:226` takes any entry with a read-only, hidden or system attribute for a part of
  a long name, because `DIRETNRY_IS_LFN` (`fat.h:59`) tests a mask for being non-zero.
- `fat.c:94` marks a table sector cached whether it could be read or not; the next look-ups
  follow what the buffer held, and a read stores bytes that are not the file's and reports
  them.  `BytesAreTheFiles` is a theorem for cards that do not fail.
- `fat.c:441` (also 427 and 435) returns the bytes read so far where the description
  promises −1, so a caller takes a failed read for the end of the file.
  `AccountsForEveryByte` says nothing of what a failed read returns.
- `musb_udc.c:605` enters the transmit handler in any state.  When the host gives up
  reading an answer, the length and position stay, and a transmit interrupt loads the
  next piece of the old answer although another request has come; with `AbandonsIn` set
  `DataIsTheAnswer` fails.  Whether the host then gets it depends on when the controller
  clears its FIFO, so it is not reported as a run.
- `ep0.c:260` accepts the address 0, which the device has in its default state;
  endpoint 0 is then deaf until a reset (`musb_udc.c:668`).
- `core.c:226` leaves `configuration` as it was at a reset, and GET_CONFIGURATION
  answers with it.
- `ep0.c:16` and `ep0.c:40` answer with two bytes and with one whatever length the host
  asked for; for a host that asks for less, `DataIsTheAnswer` is not claimed.
- `musb_udc.c:399` ends an answer that is shorter than asked for and a multiple of the
  packet size without an empty packet.
- `cmd_kermit.c:243` cannot see an error, its variable being unsigned: an interrupted
  sender leaves `loadb` waiting for ever.
- `cmd_kermit.c:92` takes the length of a packet unchecked: a damaged one of 128 or more
  asks for more characters than `data` holds.  An answer sent before the first packet has
  number 255, which goes out as the character 31.
- `musb_udc.c:543` never acknowledges a packet without data, so it blocks its endpoint;
  `musb_udc.c:733` announces the closing empty packet although the last full one may
  still be waiting, and it is then lost; `musb_peri_tx()` ignores endpoints other than 0,
  so a request of several packets goes on only when the function driver calls
  `udc_endpoint_write()` again; `udc_start_rx()` of size 0 never completes.
- `i10_mmc.c:112` takes CMD_DONE of an earlier command for the end of this one, which
  hides commands without an answer; a block that arrives after its read has timed out is
  taken by the next read (`BlockIsTheOneAsked` says that only such a read can leave it).
  The "Wait max 10 ms" of `i10_mmc.c:211` sets a variable that nothing reads.
- `string.c:28`: `strncpy` of a text of exactly `n` characters writes no end ("fixme"),
  and one of a shorter text fills nothing; `strrchr` does not find the end of a string.
- `stdio.c`: zeros that pad a number stand before its sign or prefix, so `%05d` of −3 is
  `000-3`.  `vsnprintf()` and what it calls have no caller: its `%u` keeps all flags,
  because they are removed with `(~SIGN)|(~PLUS)`, its `%d` is never signed, and a short
  number keeps the digits of a longer one before it.  `putchar` sends a return after a
  newline, and `serial_putc` has sent one in front of it.
- `cmd_bootlinux.c`: an option without its argument reads `argv[argc]`; `-c` with an
  option behind it leaves a blank at the end of the command line; `-h` forgets a `-b` in
  the same line and keeps the options before it; the default command line is longer than
  what six words of 31 characters can enter again.
- `timer.c:58`, "delay x useconds": short delays are rounded down and may end a little
  early.
- `cmd_mem.c`: `memtest` with the pattern 0x80000000, which is its own negative, can miss
  faults, and negative patterns need a third pass; `mww` and `mwb` run the function of
  the dump (`cmd_mem.c:189`), `mw` writes a byte where its help says word, and
  `cmd_memwrite` goes on after it has found too few arguments.
- `clock.c:190` returns at once when the status register shows the state asked for: a
  clock that was turned off and has not stopped yet is taken for one that runs, and the
  bank is then without one.  The model reaches this (`clock_on`, `mistaken`), and
  `BanksAreClocked` excepts such a bank; no caller frees pins and requests them again, and
  nothing in the code says how long a clock takes to stop, so it is not reported as a run.
- `head.S` must not be loaded overlapping its own place; nothing checks it.

## 6. Not modelled

- The arithmetic runtime (third party), register headers, the NAND stub, straight-line
  register programming: no behaviour a state machine would show.
- Screen output, and of `printf` the conversions `%s` and `%c` and a width given by `*`:
  no property is about them.  `vsnprintf()` and its kin have no caller.
- Below `UsbBulk`: resets while requests are under way, the connection, the registers that
  configure endpoints, and `usbd_rcv_complete()` and `usbd_tx_complete()`, which nothing
  calls.  RXCOUNT is taken to be 0 once its packet is acknowledged.
- Of the card host: `sdi_receive_response()`, which has no caller, and the bus-width and
  clock functions, which do nothing.  `Mmc` states what the core does with a host that
  hands over answers.
- `uart_init()`, `timer_init()`, clock frequencies, power domains and endpoint tables:
  register writes in a row or arithmetic on registers.
- `gpio_set_value()`, `gpio_get_value()` and the directions of pins: one register write or
  read each, without callers.
- `go`, `delay` and `wdt`, `md*` and `mw*`, and `main()`: a few statements without state.
- The check that names in the command table are unique and name the right function: the
  table is put together by the linker.

## 7. Plan

In this order:

1. done: `Kermit`, `FileTransfer`, `KermitProofs`; `Console`, `LineEditor`; `FatFs`,
   `FileReader`; `Mmc`, `SdCard`, `BlockDevice`; `UsbEp0`, `UsbBus`.
2. done: `UsbBulk`, `BulkPipe`; `SdiHost`; `KermitFrame`, `BootLinux`, `Strings`,
   `Printf`, `Timer`, `Uart`, `MemTest`, `Pins`, `Startup`.
3. done: `ConsoleProofs`, `FatVolume`, `FatFsProofs`, `MmcProofs`, `UsbEp0Proofs`,
   `DriverProofs`.
4. done: `DataInduction`; `LibraryProofs` about `Startup`, `Pins`, `Timer`, `Uart`, `MemTest`,
   `KermitFrame`, `Strings`, `Printf`, `BootLinux`.
5. `SdLoad`, which composes `Mmc` with the block interface `FatFs` assumes.

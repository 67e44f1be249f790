# A verification project for AB5396_minimal

AB5396_minimal is firmware for the Bluetrum AB5396: a boot stage that makes the
SPI flash executable (XIP), and an application with a hand-written USB CDC-ACM
driver and a small shell. This directory holds TLA+ models of its core, the TLC
configurations that check them and TLAPS proofs about them. Paths and line
numbers below are those of the repository (`include/bluetrum_usb.h:344` and so
on); in `PROJECT.json` they carry the prefix `src/`.

Contents: 1 the system, 2 the modules, 3 the runs, 4 fairness, 5 the proofs,
6 what the checks found, 7 premises and limits, 8 the plan.

## 1. The system

One RISC-V core, no operating system. Three kinds of code share it:

- the *main thread*: `main()` polls the shell for ever (`src/main.c:221-229`);
- the *USB handler* `bt_usb_isr`, entered by the interrupt of line 15;
- the *miss exception*, which calls `xip_callback` when an access to the XIP
  window is not in the cache.

There are no locks. The driver relies on single-writer ring indices, on one
flag (`g_ep1_tx_busy`) and, in one place, on masking the USB interrupt.

### Components

| Component | State | Operations | Correct means |
|---|---|---|---|
| CDC transmit path, `include/bluetrum_usb.h` | `g_cdc_tx_buf/head/tail`, `g_ep1_tx_busy`, `ep1_tx_buf`; registers `UINDEX`, `PICEN`, `UTXCSR1` | `bt_cdc_write_char`, `bt_cdc_write`, `bt_usb_ep1_kick`, TX and reset branches of `bt_usb_isr` | bytes reach the host in order, once, none forgotten; one owner of the endpoint at a time; a call returns; registers restored |
| CDC receive path, same file | `g_cdc_rx_buf/head/tail`, `g_rx_bank`; two DMA banks in `ep1_rx_buf`, `URXCSR1` | `bt_cdc_read_char`, RX, reset and SET_CONFIGURATION branches | bytes are read in order, once; a full ring drops the end of a packet only; the driver reads the bank the DMA wrote; a reset empties the ring |
| EP0 control transfers, same file | `g_ep0_stage`, `g_pending_address`, `g_line_coding`, `g_usb_configured`; `UFADDR`, `UCSR0` | EP0 and reset branches of `bt_usb_isr` | every request gets its own answer; the address changes after the status stage; the line coding stored is the one sent; EP0 never dies |
| XIP cache, `src/boot.c` | tags and SRAM of 64 lines, `ICINDEX`, `ICTAG`, `CACHCON1` | `xip_callback` | an access reads the flash page it names; every instruction completes |
| Descriptors, `include/bluetrum_usb.h:124-209` | constants | GET_DESCRIPTOR | a host that asks for all gets a configuration it can use, one that asks for less gets that much |
| Stage 1 boot, `src/boot.c` | UART, XIP and cache registers | `stage1` | the magic byte keeps the ROM in control; the window is set up before it is used |
| In-RAM self-test, `inram/main.c` | error count, cache | `entry` in three builds, its own `xip_callback` | each test exercises the miss it is named for; the verdict is that of all tests |
| Start-up of main.bin, `startup/startup_main.S`, `src/main.c` | `.data`, `isr_vector_table`, `PICADR`, `PICEN` | copy of `.data`, `main` up to its loop | the interrupt finds its handler |
| Shell I/O and main loop, `src/main.c` | `uart0_singlewire_inchar`, the shell object | `ush_read_cb`, `ush_write_cb`, `main` | input and output go to the connected side; only echoes are suppressed; every command returns |
| `radio_ctrl`, `microshell/ush_cmd_radio.c` | `process_index`, RF SPI registers | the dump service, one line per service call | each register once, in order, with its value, or a timeout message |
| `xxd --raw`, `microshell/microshell_xxd_raw.patch` | position in the dump, word cache across service calls | argument tests, `ush_cmd_xxd_get_byte` | only what was asked for is read; the bytes of a word are of one read |
| UART download, `inram/bluetrum/dl/uart.py` | packet counter, tokens | PING, packet send and receive, retries | a command is carried out at most once, its answer is its own |
| Ciphers and checksums, `inram/bluetrum/*.py` | none | LFSR ciphers, CRC | tables equal the bitwise definitions |
| Linker scripts, `Makefile`s, register headers | none | - | handler code in RAM, main in the window |

### Interactions

- Shell I/O calls `bt_cdc_read_char` and `bt_cdc_write_char` in the main thread;
  the handler runs between any two of their accesses.
- Both contexts call `bt_usb_ep1_kick`: the write when the endpoint sleeps, the
  handler after each acknowledged packet.
- The reset branch of the handler clears the state of all three USB parts
  (`include/bluetrum_usb.h:382-401`). SET_CONFIGURATION, an EP0 request, opens
  the data path and restarts the receive banks (`:477-484`).
- `g_usb_configured` routes shell I/O to USB or UART, anew for every character.
- `stage1`, the start-up of `main.bin` and `main` use the cache one after the
  other; the self-test uses it through a callback of its own.
- The commands run inside `ush_service` and share with the console the one text
  the shell is writing.
- The driver's descriptors lie in the window, so the handler causes misses, and
  a miss it causes may evict a line of the interrupted main thread.

### What is hard

Two contexts that interleave access by access; a bus reset at any moment; a host
that stops polling, gives up a transfer or configures twice; events of several
endpoints that arrive together; hardware registers reached through an index
register that both contexts switch; a cache fill that must be invisible; a
serial wire on which the chip cannot tell its own echo from the host's; a bus
that may answer after it was given up. The
list with its lines is `hazards` in `PROJECT.json`, each with the properties
that would catch it going wrong, or the reason why none does.

## 2. The modules

Operators named `X_Something` and marked `\* mutant` are plausible bugs of the
operator below them (a dropped guard, a missing reset, an off-by-one). No
specification uses them; `PROJECT.json` lists which property each would violate
in its place, and each property of a passing run has one.

How the modules hang together (a line means EXTENDS or INSTANCE):

    UsbTxStream - CdcTx - CdcTxProofs - CdcTxStreamProofs
    UsbRxStream - CdcRx - CdcRxProofs
    UsbDescriptors - Ep0Control - Ep0Proofs
    XipWindow - XipCache - XipCacheProofs
                   |            |
                XipBoot - XipBootProofs
    ShellIo - RadioDump - Shell - ShellProofs  (RegisterDump - Shell)
    DownloadTransfer - UartDownload - UartProofs

### UsbTxStream, CdcTx

`UsbTxStream` is the promise: accepted bytes are delivered in order in packets
of at most `PktMax`, at most `Backlog` are on the way, a reset starts afresh.

`CdcTx` is the transmit half. `pc["main"]` and `pc["isr"]` say where each
context is, and a step is one access to a shared location:

| Action | Code (`include/bluetrum_usb.h`) |
|---|---|
| `CallWriteChar`, `CallWrite` | entry of the two calls, 558-586 |
| `LoadHead`, `TestSpace`, `WaitTurn` | wait for room, with its timeout, 564-567 and 587-594 |
| `Fill`, `NextHead`, `Publish` | copy into the ring, new head, 569-570 and 596-601 |
| `TestBusy`, `Claim` | `if (!g_ep1_tx_busy) { g_ep1_tx_busy = true; kick }`, 573-576 and 603-606 |
| `ChunkDone` | `buf += chunk; len -= chunk` and the next turn, 607-610 |
| `KickCopy`, `KickAdvance`, `KickStore` | the copy loop; `tail = (tail + 1) & mask` is a load and a store, 338-342 |
| `KickCheck` | nothing to send: `g_ep1_tx_busy = false`, 344-347 |
| `KickMask`, `KickDma`, `KickReady`, `KickRestore` | the masked part: `PICEN` and `UINDEX` saved and set, the DMA, `UTXCSR1`, both restored, 349-369 |
| `IsrEnter`, `IsrReset`, `Kick("isr")`, `IsrLeave` | the handler: entry with the save of `UINDEX` and the RX branch's selection, 372-406; reset, 381-402; transmit event, 430-432; the restore, 546 and 400 |
| `IsrEp0`, `IsrRequest`, `IsrFlush` | the windows its EP0 branch selects, 442, 481-483, 324 and 330, and SET_CONFIGURATION, 478 |
| `HostIn`, `HostConfigure`, `HostOther`, `BusReset` | external: the endpoint, the host with its received data and control transfers, the bus |

A byte is its serial number. `accepted` and `delivered` are history variables
that map the module to `UsbTxStream`. `TornResets` says whether a bus reset may
arrive in the middle of a write call or the handler, or only between calls.

`Owners` is the idea behind the safety properties: the endpoint is owned by the
host (TxPktRdy is set), by a transmit event not handled yet, or by a context
inside the kick. `ClaimIsExclusive` says there is at most one owner,
`BusyIsOwned` that a set flag has one, `NoLostWakeup` that bytes in the ring
have one or that a write is about to look. `WindowIsSelected` is the rule of
`docs/bluetrum_usb.md:182` that the index register must be saved and restored,
with the same for the interrupt mask. The handler's branches switch the window
among themselves: a kick of the handler may start with EP1 selected (a packet
received in the same pass) or with the window it was entered with, its EP0
branch selects EP0, EP1 for the flush, and EP0. The property says that each
register is written in its own window all the same, and that the interrupted
code gets its window back. Of the receive and EP0 branches no more than the
windows and SET_CONFIGURATION is in `CdcTx`; the rest is `CdcRx` and
`Ep0Control`.

### UsbRxStream, CdcRx

`UsbRxStream` is a bounded queue: of a packet that finds too little room the
first bytes that fit are kept.

`CdcRx` has the main thread in `bt_cdc_read_char` (`ReadChar`, `Fetch`,
`Advance`, `Store`, 613-622), the handler (`IsrEnter`, `IsrReset`, `IsrRx`,
`IsrEp0`), and the endpoint (`HostOut`) whose DMA alternates between two banks.
`bank` is the driver's guess of the bank the next packet is in (`g_rx_bank`),
`hwBank` the DMA's own pointer. They must agree (`BankInSync`) through resets,
flushes and a repeated SET_CONFIGURATION, with a packet before, between or
after. `IsrRx` handles a whole packet in one step: the main thread cannot run
meanwhile. The queue of the refinement is the ring between tail and head
(`Held`), so the refinement shows what is in the ring at every access.

### UsbDescriptors, Ep0Control

`UsbDescriptors` has the tables as sequences of parts (`Part`: length, kind, and
what a host reads next), `Table` for what GET_DESCRIPTOR finds, and the two
things a host does with bytes it got: `PartsIn`, the parts that arrived whole,
and `Usable`, a configuration with as many interfaces and endpoints as it
announces.

`Ep0Control` has the device side (`stage`, `pending`, `lineCoding`,
`configured`), the core (`ufaddr`, the packet behind RxPktRdy, the answer it was
given) and a host that runs control transfers stage by stage. Each branch of the
handler is one action:

| Action | Code (`include/bluetrum_usb.h`) |
|---|---|
| `Latch`, part of the next three | UFADDR at the start of the EP0 branch, 436-440 |
| `IsrNoPacket` | an EP0 event without a packet, 434-443 |
| `IsrDataOut`, `Stored` | stage DATA_OUT: any packet is the line coding, 446-467 |
| `IsrSetup`, `Dispatch`, `DispatchDescriptor`, `StageAfter` | a SETUP packet and its requests, 450-542 |
| `Reply` | `bt_usb_ep0_tx` with its cut at 64 bytes, 316-326 |
| `IsrReset`, `StageAtReset` | the reset branch, 382-401 |
| `HostSetup`, `HostData`, `HostComplete`, `HostFail`, `HostAbandon`, `BusReset` | external |

Abandoned transfers are the host's right: it times out and sends a new SETUP
packet. `abandoned` remembers, until the host is next between two transfers,
which line codings and addresses it gave up; the properties say what such a
transfer may cost and that it costs no more. `CompletedIsCarriedOut` is what a
host relies on: a request that completed has been carried out, a descriptor is
the one asked for, as long as asked or whole, and the whole configuration can be
used. Were a table to grow past the 64 bytes of one packet, this is the property
that would fail. SET_CONFIGURATION(0) is excepted: the handler leaves the device
configured (`:478`), and no document here says that it should not.
`ReplyWithinLength` holds descriptors to the length asked for; the status and the
line coding are sent whole whatever wLength is (`:498`, `:533`), and the run asks
for less.

### XipWindow, XipCache

`XipWindow` is memory: an access reads the page it names. `XipCache` has the
tags, the SRAM and the registers; `Unlock`, `Fill`, `Select` and `Validate` are
the four parts of `xip_callback` (62-84) between which something else may act on
the registers: `VENDOR_DMA` is ROM code and may use `ICINDEX`, which is why the
code selects the line again. `Issue`, `Interrupt`, `Miss` and `Retire` are the
program: an instruction names the page it is fetched from and the page it reads.
With `DmaFails`, `Fill` may leave the line as it was and the code goes on to
validate it, since the result of `VENDOR_DMA` is not looked at.

### XipBoot

The images that set the window up, composed with `XipCache`: its actions are
conjuncts of `XipBoot`'s, so that every image runs on the modelled cache.

| Action | Code |
|---|---|
| `Arrive` | external: a byte on the UART, which holds one |
| `Poll`, `Clear` | `uart0_poll` in two steps, the test and read (`src/boot.c:50-51`) and the clear of the pending bit (52), and what `stage1` makes of the byte (104-110) |
| `NextRound`, `LastRound`, `Delay` | the rounds of the magic-byte loop, `src/boot.c:102-115` |
| `Setup` | the cache and window registers, `src/boot.c:123-143` and `inram/main.c:165-183` |
| `ScriptRead` | the copy of `.data` (`startup/startup_main.S:17-27`), the reads of the verifier (`inram/main.c:209-270`) or of the dump (272-310) |
| `Verdict` | `errors = 0`, PASS or FAIL, DONE, and the last line of the verifier |
| `BootRetire`, `BootMiss`, `BootCallback` | an access completes (and is compared), misses, is filled by either `xip_callback` |
| `ScriptEnd`, `MainStep` | `main` is entered; the vector, `PICADR`, `bt_usb_init` in their order, `src/main.c:201-205` |
| `Program`, `UsbInterrupt` | main.bin goes on, the handler reads descriptors |

`Script` is data, one entry per page access or printed verdict, so that the
order of the self-test's reads is that of the code. `MagicStopsBoot` has two
exceptions, both real: a byte that another replaces, and a byte that comes between
the read of one and the clear of its pending bit.
`VerifierTests` holds the self-test to its own titles: each test must miss on
exactly the pages it is named for, which depends on what the tests before it
have left in the cache.

### DownloadTransfer, UartDownload

`DownloadTransfer` is a script of calls in which each block sent arrives once,
before its call returns, and each reply is the one of its command.

`UartDownload` is `inram/bluetrum/dl/uart.py` as `inram/upload_fw_to_ram.py`
uses it. `Script` is the upload (`do_the_stuff`, 129-149): two commands with a
reply, then the image.

| Action | Code |
|---|---|
| `SendSync`, `Listen`, `ListenTimeout`, `HardReset` | the loop of `main`, `upload_fw_to_ram.py:61-77` |
| `Begin`, `NewPacket` | entry of `send_packet` and `recv_packet`, a fresh counter, `uart.py:59-63`, 92-106, 148-150 |
| `Write` with `PortWrite` | `port_write` and its unread echo, 34-42 |
| `AwaitTimeout` | a timeout and its retry, 110-118, 156-163 |
| `ReadToken` with `SendToken`, `ReceiveToken`, `Mismatch` | 65-72, 120-142, 167-182 |
| `ReadPayload` | 77-90, 167-184 |
| `Deliver`, `ChipReceive`, `ChipProcess` | external: the wire and the boot ROM |

The wire is single: the host reads back what it writes. `inbuf` is the serial
port's receive buffer in units of two bytes, so that a leftover answer shifts
the echo and the end of the echo is read as the answer, as in the code.
`FailsForCause` is the strongest thing the retries achieve: without a late
answer, an upload fails only when more packets were lost than one packet's
retries make up for.

### ShellIo, RegisterDump, RadioDump, Shell

`ShellIo` is the console of `src/main.c`. The shell is in one of the states its
callbacks name; `text` is what it still has to write and `next` the state after
that (`ush_write_pointer`).

| Action | Code |
|---|---|
| `Read` with `PollUart`, `PollCdc` | `ush_read_cb`, `src/main.c:116-139` |
| `WriteUart`, `IsEcho`, `AfterWrite` | the UART side of `ush_write_cb`, 146-152 |
| `ChooseCdc`, `WriteCdc` | its CDC side, 143-145, in two steps: the route may move in between, and `bt_cdc_write_char` may drop the character |
| `Configure`, `BusReset` | external: SET_CONFIGURATION and a reset move the route |

A typed byte that waits in the UART or the receive ring shows only when it is
polled, so a poll returns any typed byte or none. `echoDue` and `moved` are
history: they say when suppressing a character is right, and when it cannot be
told.

`RegisterDump` is the promise of `radio_ctrl --dumpregs`. `RadioDump` is
`microshell/ush_cmd_radio.c`: `RadioExec` (84-91), `RadioStart` (107-113),
`RadioBegin` (rf_reg_rd, 52-62), `RadioWait` (rf_spi_tf, 37-50), `RadioData`
(128-138), `RadioComplete` (139-142), with the bus, which finishes transfers when
it likes (`Finish`), also those that were given up.

`Shell` adds `xxd --raw8/--raw32` and composes the three in one main loop.
`RawExec` is the callback of the patch (156-217), `GetByte` is
`ush_cmd_xxd_get_byte` (123-153), `RawByte` one turn of the hexadecimal or the
character loop of a row that calls it, and `RawRow` the end of either loop
(231-248). What is read is a device register, so a byte is identified by
the read it comes from: `RawWordIsWhole` relates the bytes of a row to the reads
this dump has made, `RawReadsWhatWasAsked` the reads to the arguments. `DumpHasEnd`
tells the dumps that end from those whose index wraps and that start again, for
ever: `CommandEnds`, like the bound on the reads, is for the former.

### MC modules

`MCCdcTx`, `MCCdcRx`, `MCEp0Control`, `MCXipCache`, `MCXipBoot`, `MCShell` and
`MCUartDownload` extend the models for the configurations. `MCCdcTx` also defines `Control`, the view of the torn-reset
run: every variable but the bytes (`buf`, `epbuf`, `fifo`) and the history. No
guard and no assignment to a variable of `Control` reads one of those, so two
states with the same view have the same behaviours up to the view, and the
properties of that run read `Control` only.

## 3. The runs

| Run | Instance | Shows |
|---|---|---|
| `cdc_tx` | ring 4, packet 2, timeout 2, writes of up to 4, 6 bytes, 1 reset between calls or other event | `ClaimIsExclusive`, `ImplementsStream`, `AcceptedIsDelivered` |
| `cdc_tx_torn` | the same ring, 4 bytes, 2 resets at any point or other events, host may never read | `BusyIsOwned`, `NoLostWakeup`, `WindowIsSelected`, `WriteReturns` |
| `cdc_tx_claim` | 4 bytes, 2 resets or events at any point | violation: finding 1 |
| `cdc_rx` | ring 4, banks of 2, 5 bytes, 2 resets or reconfigurations between reads | `BankInSync`, `PacketIsAnnounced`, `ImplementsStream`, `HeldIsRead` |
| `cdc_rx_reset` | 4 bytes, 1 reset at any point | violation: finding 2 |
| `ep0` | 2 addresses, 2 codings, descriptors asked for 9 and 255 bytes, line codings for 1 and 7, 4 transfers, 2 of them abandoned, 1 reset | `AnswerFitsUnlessLost`, `DataMeetsDataStage`, `IdleMeansSetup`, `ReplyWithinLength`, `AddressFollowsStatus`, `CompletedIsCarriedOut`, `TransferEnds` |
| `ep0_lost` | 3 transfers, 1 abandoned | violation: finding 3 |
| `boot` | 8 lines, 7 pages, 3 polls, 4 images, 2 interrupts | `MagicStopsBoot`, `BootDecides`, `HandlerIsThere`, `VerifierTests`, `TagsAreHonest`, `ImplementsWindow`, `EveryInstructionRetires` |
| `selftest_verdict` | the verifier alone, flash reads may fail | violation: finding 4 |
| `xip_alias` | 2 lines, 5 pages, operands may share a line | violation: finding 5 |
| `uart` | 2 blocks, chip holds 2, 1 + 2 tries, 3 losses, 2 late answers, counter modulo 4 | `ImplementsTransfer`, `FailsForCause`, `UploadEnds` |
| `shell` | 2 registers, 1 poll before a timeout, rows of 2 words of 2 bytes, address space of 16, counts 1, 3, 7 and 14, 3 typed bytes | `OnlyEchoIsSuppressed`, `ImplementsDump`, `RawWordIsWhole`, `RawReadsWhatWasAsked`, `CommandEnds` |

Each model's type invariant is checked in its first run. What `cdc_tx_torn` checks
includes the resets between calls of `cdc_tx`.

Why these bounds are enough to see the interesting cases:

- A ring of 4 holds 3 bytes. Six bytes wrap it, a write of 4 does not fit into
  it and becomes two chunks, 3 bytes need two packets of 2. The wait for room
  is entered and can run out (timeout 2). The code's 256, 32 and 100000 differ
  in size only; the theorems of section 5 cover every size.
- One reset gives a second session; two give a reset while the traces of the
  first are still there, and a reset with a control or receive event before or
  after it, in the same pass of the handler or the next. In `cdc_tx_torn` 4 bytes
  fill the ring and wrap it.
- Five received bytes with a ring of 3 free slots overflow; two resets or
  SET_CONFIGURATIONs meet each other around a packet.
- Four transfers cover SET_ADDRESS, its successor, and SET_LINE_CODING twice; two
  abandons give up one transfer and the one that took its place. 9 bytes is a
  host's first look at the configuration, 255 asks for all of every table.
- In `boot` pages 0, 8 and 16 share a line, so the verifier's eviction target is
  page 8 where the code's is page 64, and a fill can evict a page that evicted
  another. The other pages are those the verifier reads. Two interrupts can evict
  two lines between a miss and its retry. Three polls have a first, a middle and
  a last delay.
- In `xip_alias` two lines and five pages are enough: it takes one pair.
- Two registers give a dump a first and a last line; one poll before a timeout
  lets a transfer be answered in time, too late, and not at all. A wide dump of
  7 words, or a narrow one of 14 bytes, is all of the address space but its end: its
  index wraps, while 13 + 3 ends exactly at the top and 13 + 7 is past it. "ff" is the
  byte the idle value looks like.
- Three losses are one more than the retries of one packet with `MaxTries` 1
  can make up for, so giving up is reached. Two late answers leave two stale
  answers on the wire. Three commands and two blocks fill a chip that holds two,
  so ACK, NYET and NAK all occur. The counter wraps several times; in the
  code it wraps at 256, which only makes a stale answer easier to tell.

Deadlock is checked in `xip_alias` only. Elsewhere (`CHECK_DEADLOCK FALSE`) the
system really may stop: the bounds on bytes, transfers and resets end a
behaviour, a host may stop talking, an upload ends, `stage1` returns to the ROM
and the self-test halts. In `shell` the main loop's progress is `CommandEnds`.

## 4. Fairness

- `CdcTx!CodeFairness`, `WF(MainStep)` and `WF(IsrStep)`: a processor executes
  the code it is in, and takes an interrupt that is pending and let through.
  Beginning a call is not in `MainStep`: nobody must write. `WriteReturns`
  assumes no more than this.
- `CdcTx!ReadingHostSpec` adds `WF(HostIn)` and `WF(HostConfigure)`: a host with
  an open port polls the IN endpoint and configures the device after a reset.
  Only `AcceptedIsDelivered` needs it, and cannot hold without.
- `CdcRx!FairSpec`: `main` polls the ring for ever (`src/main.c:221`), so
  `MainStep` includes `ReadChar`; and the host configures the device after a
  reset, because a ring that an unconfigured device holds is not read.
- `Ep0Control!FairSpec`: the handler runs, and a host goes on with a transfer
  that was answered. Beginning, or abandoning, a transfer is not assumed.
- `UartDownload!FairSpec`: the tool runs, the ROM answers and in time processes
  what it holds, and a packet on the wire arrives or is lost. Losses and late
  answers are bounded by `MaxLost` and `MaxLate`; a wire that spoils every
  packet for ever keeps `recv_packet` in its loop for ever, as the code's
  "TODO" remarks (97, 152) say.
- `XipCache!FairSpec`: the core goes on with the instruction it has begun.
- `XipBoot!FairBootSpec`: the same, and `stage1` goes on polling and counting.
  Nothing makes a byte or an interrupt come, or stop coming: `BootDecides` says
  so in its premise, as the inner loop of `stage1` has no bound of its own.
- `Shell!Spec`, `WF(Main)`: the main loop calls `ush_service` for ever. The host
  need not read and the bus need not answer: timeouts end both waits.

## 5. The proofs

`CdcTxProofs` proves about `CdcTx`, for every ring size that is a power of two
and every packet size, timeout and bound:

- `TypeCorrect`: `Spec => []TypeOK`. `TypeOK` is not inductive: `todo - chunk`
  stays a natural number only because a chunk is part of what is left, so
  `ChunkInv` is added.
- `WindowSelected`, `BusyOwned`, `NoWakeupLost`: three safety properties, with
  bus resets allowed at any point.
- `ClaimExclusive`: at most one owner, assuming `TornResets = FALSE`. The
  assumption is needed: without it the property is false (finding 1).

The argument is one inductive invariant, `ControlInv`, in parts that each need
the ones before:

1. `WindowInv`: the interrupt is masked exactly while a context is in the masked
   part of a kick, with EP1 selected and "unmasked" saved. As the main thread
   cannot be preempted there, the handler is never entered with EP1 selected: what
   it saves is 0, whatever its own branches and its kick select in between, so
   that its restore, and then the main thread's, leave 0 behind.
2. `SeenInv`: what the handler has read, and that it is in its reset branch
   exactly if that holds a reset.
3. `OwnedInv`: the flag is set only while there is an owner or a reset is under
   way. It is preserved because each owner hands over to the next in the step
   in which it ends.
4. `EmptyInv`: a context that found the ring empty is right as long as it
   matters. The handler's own test cannot become stale, since nothing runs
   meanwhile, and the main thread's cannot, since no one else publishes.
5. `WakeInv`: with 3 and 4, bytes in the ring have an owner, or the write that
   published them has not yet looked at the flag.

For the claim two parts are added: `QuietInv` (a reset that is not torn finds
the path at rest) and `ClaimInv` (at most one owner, and an owner means the
flag is set, and a write that is about to claim has found it clear and it still
is). Each preservation lemma has one step per action of `Next`.

`CdcTxStreamProofs` proves `TxStreamImplemented`: for `TornResets = FALSE` the
transmit path implements `UsbTxStream`, for every ring size, packet size and
backlog, by counting bytes on top of `ControlInv` and `ClaimInv`. `Sent` is how many
bytes of the session have left the ring. Outside a reset:

1. `RingInv`: `head` is the place of the number accepted and `tail` that of `Sent`,
   the two less than a ring apart, and the ring holds the bytes between them;
2. `PacketInv`, `FifoInv`, `DeliveredInv`: what a context has copied to
   `ep1_tx_buf`, what the FIFO holds and what the host has, are the accepted bytes at
   their positions. By `ClaimInv` only one of the first two is there at a time,
   which is why a copy in the FIFO is never overwritten and why the premise is
   that of `ClaimExclusive`;
3. `RoomInv`: from the test for room to the store of `head` the write's chunk fits
   behind `head` and, once filled, is there. It survives the handler's kick, which
   only moves `tail` on;
4. `CallInv`: `bt_cdc_write_char`, which loads `head` three times, writes one byte.

`Publish` is then the stream's `Accept`, `HostIn` its `Deliver`, `IsrReset` its
`Reset`, and everything else a stutter. The lemmas the ring needs (`Distance`,
`RingRoom`, `RingFilled`, `RingPushes`, `RingPops`) say what the masked indices do at
every size, the wrap included.

`CdcRxProofs` first proves `TypeOK`, `BankInSync` and `PacketIsAnnounced` of `CdcRx`,
for every ring and bank size, torn resets included. `IInv` adds three parts: a
reset that is not handled yet finds the endpoint empty and the DMA at its first
bank (`ResetIsQuiet`); the causes the handler has read decide the branch it is in
(`HandlerAtBranch`); a packet in the endpoint fills the bank the DMA has left
(`PacketInBank`). The main thread moves `tail` alone and disturbs none of them.

Then `StreamImplemented`: for `TornResets = FALSE`, the receive path implements
`UsbRxStream`. The queue is what the ring holds between tail and head; the byte
that `Fetch` took is the first of it until `Store` moves the tail. With torn
resets the refinement is false: that is finding 2.

`Ep0Proofs` proves the five invariants `TypeOK`, `AnswerFitsUnlessLost`,
`DataMeetsDataStage`, `IdleMeansSetup` and `ReplyWithinLength` and the action
properties `AddressFollowsStatus` and `CompletedIsCarriedOut` of `Ep0Control`, for every set of addresses, codings and
lengths and every number of transfers, abandons and resets. None is inductive by
itself. `Apart` says how far device, core and host may be from each other, one
conjunct for each pair: stage and answer (`AnswerStage`), packet and host
(`PacketOfHost`), stage and host (`DataStageHeld`: the data stage is the host's,
or a leftover of one it gave up), pending address and host (`PendingHeld`).
`AnswerHeld` (`AnswersHold`) then ties what the core holds to the request it is for,
which is what a host that completes a transfer relies on. The lemmas about the
descriptor tables compute them: each table fits in one packet, so `Reply` cuts it
at wLength only, and the configuration announces what it holds.

`XipCacheProofs` proves about `XipCache`, for every number of lines, every set of
pages and with or without aliasing: `TypeCorrect`; and, for a flash that can be
read (`~DmaFails`), `HonestTags` and `Transparent`, that the cache implements
`XipWindow`. The invariant is in two layers. `CallbackInv` says for each stage of
the callback which line is invalid and which selected; it holds whatever the DMA
does (`InvHolds`). `Contents` adds what the lines hold, and needs the reads to
succeed (`ContentsHold`).

`XipBootProofs` first shows that `BootSpec` implies the cache's `Spec`
(`BootUsesCache`), which is little more than how `XipBoot` is composed: the set-up that
clears a tag finds a cache still as at power-on (`Untouched`), and every entry of
a script is an instruction the cache model allows. It carries the cache's theorems
over; hence `BootIsTransparent`, with
`Transparent`. `MagicStops`, `BootTypeCorrect` and
`HandlerIsReady` are its own invariants: a byte that counts as heard is still in
the receiver or just read, and not in the last delay; polling means that a round is left; the
handler runs only in a `main` that has done its three steps (`Handling`).

`VerifierIsRight` states `VerifierTests` for a flash that can be read and every
cache of more than five lines (the code's has 64), which give pages 0 to 5 a line
each. The self-test has one script but not one behaviour: each access may hit or
miss by what its predecessors left, and the DMA may leave `ICINDEX` anywhere.
`Held` and `Misses` tabulate, for each place of the script, what the lines hold and
which pages were missed since the last verdict. `AccessAdvances` and `TextAdvances`
show that each row follows from the one before; `Verifying`, the invariant, that
the cache is always at the row of `step`, on the way from it to the next, or at the
next with the instruction not through. That a check finds its page needs the
cache's own invariants, which `BootUsesCache` carries over.

`ShellProofs` proves all safety properties of `Shell`, for every set of typed
bytes, number of registers, limit of polls, and size of a word, a row and the
address space, with all commands interleaved. For `OnlyEchoIsSuppressed` and
`ImplementsDump`: `CmdInv` ties the shell's state to the command that runs;
`EchoInv` says that a remembered byte is due as an echo or the route has moved,
and that on the CDC route it has; `LinesInv` that an open dump has printed
`processIndex` lines; `BusInv` that, until a transfer times out, at most the one
of the register at hand is under way and the done bit is its own.

For `RawWordIsWhole` and `RawReadsWhatWasAsked`, `RawInv`: the word of the last byte
of the row is the cached one (`RowInv`), so that a byte whose word is not cached
is the first of its word and none of the row's earlier bytes belongs to it;
hence `get_byte` reads a location anew only when the loop reaches its first
byte, and the reads of each location are counted by the loops that have come past
it (`ReadsInv`). A row must be a whole number of words and start at one, which
`RawAssumption` says of 16 and 4. Two reads per location holds for a dump that
ends before the last row of the space of sizes (`size + Columns <= Space`); past
it `process_index_item` wraps and the dump starts again. The bounds of what is
read hold for that dump too.

`UartProofs` proves all safety properties of `UartDownload`, for every script,
number of tries, losses, late answers and depth of the ROM's queue.
`TransferImplemented` is the refinement of `DownloadTransfer`. The wire and the
receive buffer are two ordered channels, so an answer can be stale only behind
an older one: behind an answer to the current packet there is nothing older, and
an answer with the current counter is the one to the current packet. That is why
a counter of two values is enough for the argument and the one of 256 is not
needed in full. `Told` says what the ROM's last answer means, `Outgoing` what is on
the way to it, `Settled` that a call that returned has been carried out exactly
once. `GivesUpForCause` needs more than that: without a late answer the protocol
is stop-and-wait (`StopAndWait`), at most one packet or answer is under way, and the
tries made are the losses suffered on this packet.

Assumptions used: the named ASSUMEs of the modules (sizes, bounds, that
`NoPage` is no page), evaluated by TLC in every run, and the premises of
section 7.

Only model-checked is liveness (`AcceptedIsDelivered`, `WriteReturns`, `HeldIsRead`,
`TransferEnds`, `EveryInstructionRetires`, `BootDecides`, `UploadEnds`,
`CommandEnds`): TLAPS reasons neither about `ENABLED` nor about weak fairness.

## 6. What the checks found

Each is a run that must end in a counterexample.

1. `cdc_tx_claim`. A bus reset in the middle of a main-thread kick clears
   `g_ep1_tx_busy` and the indices (`include/bluetrum_usb.h:391-393`). The kick
   goes on with its old count and loads a packet of the ended session, while
   the next write finds the flag clear and claims the endpoint too. The path
   recovers (`cdc_tx_torn`); stale bytes are sent.
2. `cdc_rx_reset`. `g_cdc_rx_tail = (g_cdc_rx_tail + 1) & mask`
   (`:621`) is a load and a store, with the interrupt enabled. A reset in between
   sets tail to 0 and the store moves it away again: the ring that was emptied
   holds old bytes.
3. `ep0_lost`. In the data stage of SET_LINE_CODING any packet is taken for its
   data (`:447`), a SETUP packet too. The request is acknowledged and never
   decoded.
4. `selftest_verdict`. `entry` resets `errors` before tests 2 and 3
   (`inram/main.c:231`, `:252`), and its last line looks at test 3 only: with page
   1 unreadable, tests 1 and 2 print FAIL and "ALL XIP HARDWARE TESTS PASSED!"
   follows.
5. `xip_alias`. An instruction whose code and data are in two pages of one
   cache line evicts itself on every retry (`src/boot.c:68`). It takes an image
   larger than the 32 KiB cache with such a pair.

The `uart` run has no counterexample, but shows how an upload ends after a late
answer: `_recv_token_packet` returns its ValueError instead of raising it
(`inram/bluetrum/dl/uart.py:70`), no token compares equal to it, and formatting
it with `02X` raises a TypeError. The upload stops, loudly, and no block is
lost or doubled.

Smaller things the models made visible, which no run is spent on:

- `iSerialNumber` names string 3 (`include/bluetrum_usb.h:137`), which
  GET_DESCRIPTOR stalls. A host does without a serial number.
- `ep1_in` announces packets of 64 bytes (`:198`) while the endpoint is set to 32
  (`:284`), the size `docs/bluetrum_usb.md:216` and `:326` give. Packets of 32
  then end a transfer for the host; a byte stream does not mind.
- GET_STATUS for one byte is answered with two, and GET_LINE_CODING with seven
  whatever was asked for (`:498`, `:533`); `ReplyWithinLength` excepts both.
- SET_CONFIGURATION(0) configures the device (`:477-478`); `CompletedIsCarriedOut`
  excepts it.
- A magic byte that comes between the read of another byte and the clear of its
  pending bit (`src/boot.c:51-52`) is lost; `MagicStopsBoot` excepts it.
- A raw dump of all but the last row of the address space, or more, never ends,
  since its index wraps; `CommandEnds` excepts it.
- A character 0xFF that the shell prints with nothing polled before is taken for
  an echo, since `-1 & 0xff` is 0xFF (`src/main.c:147`), and a character polled on
  the UART before the route moved to USB and back is still remembered.
- A `--raw32` row is read twice, once for each column: the hexadecimal and the
  character column of a volatile register may differ. A single word is read once
  because the cache outlives the first pass.

## 7. Premises and limits

About the hardware, which the repository describes only in part:

- An interrupt is taken between two accesses of the main thread as soon as it
  is pending and `PICEN` lets it through; the main thread resumes when the
  handler has returned. The miss callback is not preempted.
- TxPktRdy is cleared when the host has acknowledged the packet, together with
  the transmit event. The receive DMA takes one packet and then waits for
  `URXCSR1 = 0x10` (`docs/bluetrum_usb.md:149`).
- A bus reset flushes the endpoints and sends the receive DMA back to bank 0
  (`docs/bluetrum_usb.md:481`), SET_CONFIGURATION's flush does as well (`:524`).
- The EP0 core accepts a SETUP packet always, and `UCSR0 = 0x48` drops a packet
  behind RxPktRdy.
- The cache starts with no valid tag: whether a warm boot clears the tags that
  `stage1` does not is up to the ROM. `VENDOR_DMA` may leave any value in
  `ICINDEX`; it succeeds but where `DmaFails` says otherwise.
- The UART receiver holds one byte; a second one replaces it or is lost.
- Starting an RF SPI transfer clears its done bit, as no code does; a transfer that
  was given up may finish at any time.

About MicroShell, which is not part of the repository: its states and
`ush_write_pointer` are those the callbacks name; it echoes a typed character or
does not, ends a command at the end of the line, and calls the service callback
of `xxd` for an offset, a row of hexadecimal and a row of characters in turn. The
character pass advances `process_index_item` byte by byte, as the context lines
of the patch (`microshell/microshell_xxd_raw.patch:241-242`) show, and is as wide as the
`size_t offset` it is copied to.

About the boot ROM, of which only the host side is in the repository:

- A packet with the counter of the one before is a retry: it gets the same
  answer and is not carried out again. `uart.py:145-147` says so of requests
  for data; for blocks and pings the retry with the same counter (106-116)
  makes no sense otherwise. Only a request answered with NAK is looked at
  afresh, since the host polls with it (178-180). The premise matters: with a
  ROM that looks afresh at a block it has refused, a late NAK followed by a lost
  ACK makes the host send the block a second time under a new counter.
- It answers NYET when a block filled its last place, and NAK when there is no
  room, when a block was spoilt, or when there is no reply yet (11-19).
- Noise loses packets, cuts them short or spoils a body. A CRC or a length that
  happens to look like the expected token and counter is left out.

Granularity: in `CdcTx` and `CdcRx` a step has at most one access that another
context can disturb, except that neighbouring loads are one step (head and tail
in the copy loop's test; tail and the timeout in the wait). Between them only
the reset branch could write either, and the pairs that are left apart show the
same effect. The DMA of a kick is one step: the code waits for it with the
interrupt masked. In `Ep0Control` a branch of the handler is one step because
the host sees nothing until the branch has answered the core.

Compiler reordering and the widths of the indices are not modelled: the shared
variables are volatile, and an index is masked before it is stored.

In `CdcTx` and `CdcRx` an unconfigured device's write or read returns at once
and is left out as it changes nothing. EP0 events are represented in `CdcRx` by
SET_CONFIGURATION, the only one that concerns the data path; `CdcTx` has the
others, for the windows they select, without what they carry.

In `ShellIo` a character given to the CDC port is taken or lost; how, is `CdcTx`'s
and `CdcRx`'s matter. The three USB models are not composed into one handler: its
branches share only `UINDEX` (in `CdcTx` with every place that saves, selects or
restores it, and proved to be the right one where a kick or the EP0 branch writes
a register behind it, and 0 again when the handler is left), the reset, which each model has with all it clears of its part, and
`g_usb_configured`, which each model sets and clears at the same places.

Not modelled, and why:

- the register headers, linker scripts and build files: no behaviour;
- the ciphers and checksums of the upload tool: pure functions of bit arithmetic,
  without state or interaction, which the provers cannot reach and a table of test
  vectors settles;
- the MicroShell library and the ROM: external, not in the repository;
- number parsing of `xxd --raw` (`microshell_xxd_raw.patch:48-121`): its results are
  the arguments in range that `RawExec` tries;
- `TEST_MODE` builds of `stage1`, `ush_assert_failed` and `default_isr`, which never
  go on; the register print-out of the RAM stub; zeroing `.bss`; `rf_reg_wr`, which
  nothing calls.

## 8. The plan

Done: every part of the repository whose behaviour depends on an order of events,
each against an abstract specification or the properties its user relies on, and
the proofs above. The USB halves and the cache came first, since no test on the
bench can exhaust them; then the boot images and the shell.

Every safety property of a passing run is now a theorem. What is left is upkeep: a
change of the code is a change of its module first, then of what the runs and the
proofs say of it.

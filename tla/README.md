# Bluepill Serial Monster: TLA+ models

This directory specifies the firmware of the repository, a USB device with three
CDC-ACM serial ports on an STM32F103, in TLA+. TLC checks the specifications on small
instances, TLAPS proves theorems about some of them for all instances. Line numbers
refer to the files of the repository; `usb_cdc.c:443` is line 443 of that file.

Contents: [parts of the system](#1-the-system), [modules](#2-modules),
[runs](#3-runs-and-bounds), [fairness](#4-fairness), [proofs](#5-proofs),
[what was found](#6-findings), [what is left out](#7-not-modelled),
[plan](#8-plan), [how to run](#9-running-it).

## 1. The system

The firmware is one program without an operating system. What runs in parallel:

| actor | code | priority |
|---|---|---|
| main loop | `main.c`, `usb_poll()` (`usb_io.c:224-266`): handles at most one USB event, then polls every port (`usb_cdc_poll`, `usb_cdc.c:752-776`) | lowest |
| DMA-TX interrupts, one per port | `usb_cdc.c:459-500` | high |
| USART interrupts, one per port | `usb_cdc.c:504-534` | critical: preempts both |
| hardware | DMA channels, USART registers, USB endpoints and their status bits, flash | - |
| the host | control requests, OUT packets, reads of IN endpoints; a terminal | - |

There is no lock. Main loop and interrupts share `usb_cdc_states[port]` and registers;
the code relies on the order of single loads and stores, on bit-band stores, on one
compare-and-swap (`usb_cdc.c:178-183`), and on the interrupt priorities.

### Components

| component | state | operations | talks to | what makes it correct |
|---|---|---|---|---|
| circular buffers (`circ_buf.h`) | head, tail | count, space, count and space to the end | both port directions | count and space add up; linear parts stay in the array |
| UART transmit (`usb_cdc.c`, `usb_io.c:138`) | tx_buf, `last_dma_tx_size`, pending/ready flags, `usb_rx_pending_ep` | OUT packet, start_tx, tx_complete, USART interrupt, SET_LINE_CODING, poll | DMA, USART, OUT endpoint, TXA pin | bytes in order, once; no wedge; a coding change is made when the data are out; TXA follows the transmission |
| UART receive (`usb_cdc.c:321-369`) | rx_buf, `rx_zlp_pending`, RTS | head synchronisation, packet to the IN endpoint, RTS | circular DMA, IN endpoint, RTS pin | nothing overwritten while RTS is observed; RTS given back; transfers end |
| serial state (`usb_cdc.c:151-185, 646-681`) | `serial_state` and its last value sent | error report by interrupt, input polling per frame, notification | interrupt endpoint | every error and the last input state reach the host, no error twice |
| control endpoint (`usb_core.c:170-339`) | a seven-state machine, payload, callback | setup, data and status stages, stall | hardware's CTR/STAT bits, host ahead of the main loop | each request carried out once and answered exactly, or refused; no panic |
| device lifecycle (`usb_core.c:27-168`, `usb_io.c:34-74, 194-266`, `usb_cdc.c:573-644`) | `usb_device`, DADDR, STAT bits of every endpoint | reset, suspend, SET_CONFIGURATION, SET_ADDRESS, halt | all parts | the device answers at the address it was given, ports are enabled as configured, a halt lasts, a host that resets it gets it back |
| line coding (`usb_cdc.c:250-317, 708-750`) | `line_coding`, USART registers | validate step by step, apply, defer, report | transmit path | the coding reported is the one used, whatever refused requests left behind |
| stored configuration (`device_config.c`) | pages in flash, copy in RAM | load, save with page rotation, reset | shell | a save is atomic and durable under power loss |
| configuration mode (`usb_cdc.c:373-434`) | port 0's buffers, reused | enter, leave | shell, transmit and receive of port 0 | shell, wire and host get their own bytes, all of them, in order |
| shell: line editor (`cdc_shell.c:443-604`) | line, cursor, previous line, escape state | one character at a time | terminal, by escape sequences | the terminal shows the line; Enter runs it |
| shell: commands (`cdc_shell.c:180-353`) | - | uart settings, show, config save/reset | port signals, stored configuration | a setting reaches the pins of the ports named |
| port signals (`usb_cdc.c:192-242, 538-569`, `gpio.c`) | rts/dtr/txa_active, `txa_bitband_clear`, GPIO registers | set, update, reconfigure | shell, interrupts | pins agree with the configuration |
| packet memory (`usb_io.c:19-53, 94-184`, `usb_descriptors.c:12-73`) | buffer table, 512 bytes | lay out, copy in and out by half-words | hardware's transactions of other endpoints | buffers lie apart; a packet gets through whole |
| event loop (`usb_io.c:224-266`) | - | one event per turn: CTR before RESET, SUSP, WKUP, SOF; CTR_TX before CTR_RX | everything | order of ends and beginnings |
| rest | clocks, priorities, LED, UID, descriptors, panic, build | straight-line set-up, constant tables | - | not modelled (section 7) |

The hard behaviours are interleavings of the main loop with two levels of interrupts
(transmission, error reporting, TXA), hardware that never waits (receive DMA, endpoint
0), boundaries (a full buffer, its end, multiples of the packet size), requests put off
and resumed, and power loss. `PROJECT.json` lists them as `hazards`, each at its line.

## 2. Modules

| module | models | interface |
|---|---|---|
| `CircBuf` | the index functions of `circ_buf.h` | operators over head, tail, size |
| `SerialPipe` | abstract: a bounded FIFO that delivers | implemented by `UartTx` and `UartRx` |
| `UartTx` | one port, USB to wire | `MCUartTx` gives the refinement mapping |
| `UartRx` | one port, wire to USB, and notifications | `MCUartRx`, likewise |
| `ControlPipe` | abstract: requests carried out once and answered | implemented by `UsbControl` |
| `UsbControl` | endpoint 0, software and hardware | `MCUsbControl` enumerates the requests |
| `ConfigStore` | abstract: a value in use and a stored one, which a start loads and a save replaces atomically; a save that returns has replaced it | implemented by `DeviceConfig` |
| `DeviceConfig` | `device_config.c`, flash, power | - |
| `CdcShell` | the line editor and a terminal | - |
| `PortPins` | configuration, GPIO registers, levels; the commands that change them | - |
| `UsbDevice` | the device on the bus: reset, suspend, address, configuration, halt, and a host that gives up on it | - |
| `LineCoding` | what SET_LINE_CODING stores and writes, and what that is on the wire | - |
| `PortModes` | composes both directions of port 0 with configuration mode, the shell's output, reset and reconfiguration | uses `CircBuf` |
| `PacketMemory` | the layout of the packet memory and the copying into and out of it, with the firmware's table of endpoints | uses `CircBuf` |
| `UartTxProofs`, `UartRxProofs` | theorems about one direction of a port each, and about the circular buffer it goes through | - |
| `UsbControlProofs`, `UsbDeviceProofs`, `DeviceConfigProofs`, `PacketMemoryProofs` | theorems about the module in the name | - |
| `CdcProofs` | theorems about `LineCoding` and `PortModes` | - |
| `ShellProofs` | theorems about `CdcShell` and `PortPins` | - |

Operators whose comment begins with "Faulty variant" are not part of any
specification: each is what a plausible mistake in the code would make of the
definition that follows it, kept to see that the properties notice it (`mutants` in
`PROJECT.json`).

### UartTx

State: the fields of `usb_cdc_state_t` (`usb_cdc.c:34-53`) the path uses, under their
names (`pending`, `ready` for `line_state_change_pending/ready`, `rx_pending` for
`usb_rx_pending_ep`); the DMA channel (`en`, source, remaining count, completion flag);
the USART (`dr`, `shift`, TC flag, TCIE, line parameters); the OUT endpoint; where the
main loop and the DMA interrupt are (`pc`).

- Every load or store of shared state is one action, so the interrupts may fall between
  any two. `usb_cdc_port_start_tx` (438-457) is seven labels, `start` to `tcie`, run by
  either context: `ReadCount`, `TestBusy`, `ActivateTxa`, `EnableDma`, `SaveSize`,
  `ClearTc`, `EnableTcie`.
- `Runs(ctx)` is the priority rule: the DMA interrupt runs only while no USART interrupt
  is pending, the main loop only while neither is. The USART interrupt is one action
  (`UsartIrq`): nothing preempts it.
- The packet is copied byte by byte (`CopyByte`), the DMA fetches byte by byte
  (`FetchByte`), and both may be under way.
- SET_LINE_CODING is `SetLineCoding`, then `DeferLineCoding` or `WriteBrr` and
  `WriteCr1`, whose read and write of CR1 are apart because the interrupts set TCIE in
  the same register.
- The poll is `PollReady`, `PollApplied`, `PollDeferred`, `PollReceived`, in the code's
  order.
- The TC flag has a third value, `seen`: read by the interrupt and so armed for the
  read-SR-then-write-DR clearing sequence.
- `Delays = FALSE` says that the few instructions between two of the code's steps take
  less than one character (5 us at 2 Mbaud). With `TRUE`, the other ports' interrupts
  may come between; two of the findings need that.

### UartRx

State: `rx_buf`, `rx_zlp_pending`, `rts_active`, `serial_state` and
`serial_state_prev`, the DMA counter, the RTS and input pins, both IN endpoints.
Characters are numbered and carry a bit 7, so that loss, repetition and the 7-bit mask
show. `StoreCharacter` is the circular DMA, which asks nobody; `Burst` bounds how many
characters come within a turn of the main loop. The poll is split at its accesses to
what hardware or interrupt change: `ReadCounter`, `SyncHead`, `ReadState`, `SendState`
or `SendStateBusy`, `ClearErrors` (the compare-and-swap), `BeginSend`, `MaskByte`,
`CopyByte`, `EndSend`. Memory behind the buffer is one Boolean, `spilled`. DSR stands
for DSR, DCD and RI, which are read alike.

### UsbControl

State: `usb_control_ep_struct`, `address` and DADDR, STAT and CTR of both directions,
the packet in each buffer, the host's progress. The hardware completes a transaction
whenever the status bits allow (`HostSetup`, `HostDataIn`, ..., `HostSeesStall`), so the
host may finish a request and send the next SETUP before the main loop has seen the
end. The host may also end a data stage early or give a request up (`HostEndsEarly`,
`HostGivesUp`). A request is its outcome: direction, length, whether the handlers
accept it, how much they reply with. SETUP after a request cut short comes once the
main loop has caught up (`Quiescent`): the host waits seconds before that. The few
instructions between clearing CTR_RX and reading the packet are one step.

A request is a record that says what the device will make of it (`ok`, `reply`). Data that does not
fit `payload_buf` is refused whatever the request is, so such a request counts as not ok
(`RequestAssumption`).

### DeviceConfig

State: every halfword of every page, the configuration in RAM, where
`device_config_save` is. A halfword is represented by the configuration it belongs to;
a page passes the check of magic and CRC exactly if all its halfwords belong to one
configuration. Power may go at every step (`PowerLoss`); an erase or a programming
under way then leaves `Junk` (`Torn`). Flash that is not blank cannot be programmed
(EOP never comes): `SaveEnds` depends on it.

### CdcShell

`process_input` is the function of that name, one action per class of character and
state of the escape machine. Its initial states, steps and types are called `EditorInit`,
`EditorNext` and `EditorTypeOK`, so that `ShellProofs` can extend it together with `PortPins`.
The terminal is a line of text with a column, changed by
nothing but what the shell writes to it. Splitting into arguments is a fold with the
code's one pass (`Scan`), compared with a definition of words that knows nothing of it
(`Words`). The line buffer is followed up to the first character written behind it.

### PortPins

State: configuration, GPIO mode, driven level, `rts_active` and so on, and the level
that the address in `txa_bitband_clear` drives. A uart command is `BeginCommand`, then
settings one at a time (`Set`, then `ConfigurePin`, `UpdateLevels`, `UpdateAddress`, the
steps of `usb_cdc_reconfigure_port_pin`), with transmissions of the port beginning and
ending in between. For "all" the loop hands port -1 on, and the pins it configures are
none of the ports' (what lies in front of `port_config[0]`).

### UsbDevice

State: `usb_device`, `tx_complete_callback`, `usb_cdc_enabled`, `usb_rx_pending_ep`; DADDR,
the RESET and SUSP bits of ISTR, the two STAT bits of each direction and the CTR flags;
the request in `setup_buf`; where the main loop is, and which write of STAT bits it has under
way (`write`); what the host has asked and been told. Control endpoint and one port with its bulk endpoint, which stands for three.

- `MainLoop` is `usb_poll`: one event a turn in the code's order (`ControlSent`,
  `ServeSetup`, `ServeData`, `ServeReset`, `ServeSuspend`, `ServeOther`), then the
  transmission (`PollTest`) and the packet put off (`PollDeferred`). A request is served in
  the steps that write the registers of endpoint 0: `ServeSetup` reads the packet and opens the
  receiving side again, `Execute` carries the request out, `Reply` answers it or `Refuse` stalls
  both sides.
- A write to STAT toggles: `Toggled` is the exclusive or. The code loads the register, makes the
  ones to write from what it read, and stores them: `Begin`, `Load` and `Store`, between any two of
  which the hardware may finish a transaction or see a reset, so that the store leaves other bits than
  the ones wanted. `Wanted` is what `usb_endpoint_set_stall` toggles towards, with the mask the
  code uses; its test and that of `usb_space_available` are loads of their own, before. Only `ServeReset`
  writes without loading, on the assumption that the hardware has cleared the bits.
- A reset of the bus (`BusReset`) takes effect in the hardware at once and in the program
  when the main loop gets to the event, after every CTR flag. In between it serves
  packets and requests from before, and writes the bits that the reset has cleared.
- A suspend is one as the code handles it: `usb_device_handle_suspend` clears DADDR with
  its EF bit, so that the device does not answer after the resume and the host has to
  reset it. `Resume` and `GiveUp` are that.
- The host (`Requests`, `Needed`) asks for anything that makes sense in its phase; when
  the device does not answer, and has had the time to, it resets the bus (`GiveUp`).

The stages of a control request are in `UsbControl`; here a request is SETUP, answer and
the host's last transaction.

### LineCoding

State: `line_coding`, the fields of BRR, CR2 and CR1 it goes to, the two flags of a
deferred change, the notification that follows a change, whether `tx_buf` is empty, and what a request
under way has found of that (`test`). `TestCount` is the test of the count, `SetLineCoding` the rest of
the handler with the setting of the flag; the completion interrupt (`CodingTxComplete`) may come
between them and then sees no change pending. `Receive` fills the buffer whether or not a change is
pending, since the poll reads a packet that was put off without looking at the flag (`usb_cdc.c:766`).
`set_line_coding` is the function of that name as four steps, each of which stores and (unless
the change is deferred) writes before the next one may refuse: a refused request keeps
what the steps before it did. `FrameBits`, `FrameParity`, `FrameStop` and `RateIs` say
what the registers mean on the wire; they come from the reference manual, not from the
code, so that the two can disagree. Initial states, steps and types are `CodingInit`, `CodingNext`
and `CodingTypeOK`, so that `CdcProofs` can extend it together with `PortModes`.

### PortModes

State: `tx_buf` with its channel, `last_dma_tx_size` and TXA; `rx_buf` with its channel's
position and RE; the modes; endpoint packets. Bytes of each direction are numbered, and
`due` has, in order, those that the wire and the host are still to get; `wrong` records who
got another one. The shell is abstract: for n bytes it writes n bytes, as an echo does, up to the bound
(`ShellWrite`, with `Written` for `cdc_shell_write`'s dropping of what does not fit); `CdcShell` has
what it writes. An answer longer than the whole buffer, which would drop its own beginning, is left out.

- `TxComplete` is the completion interrupt, which may fall between any two steps of the
  main loop; in configuration mode it calls `usb_cdc_config_mode_process_tx` as the USB
  event does.
- `Enter` and `Entered` are `usb_cdc_config_mode_enter` cut where it matters: the buffers are
  rewound first, receiver and channel disabled later.
- `Reset` and `Enable` are `usb_cdc_reset` and `usb_cdc_enable`. The DMA channels keep what
  they have: the code adds bits to CCR and writes CNDTR, which an enabled channel
  ignores.
- `Quiet`, `Handled` and `Repeats` say when the pin may change and whether a configured
  device may be configured again. The findings of section 6 need one or another; the
  passing runs show what holds with and without.

### PacketMemory

State: the buffer table as `usb_io_reset` writes it, the memory in half-words, STAT of each
direction reduced to open or not, and the copying under way. `Table` is `usb_endpoints`, and the
constants are its sizes. `Limit` is what BL_SIZE and NUM_BLOCK allow the hardware to store.
One half-word, or the odd last byte, is a step (`SendWord`, `ReadWord`), for flat and for circular
buffers alike: a flat one begins at 0. The hardware moves packets of other endpoints in between
(`HostSends`, `HostReads`), in one step, since it holds the memory's other port.

## 3. Runs and bounds

Times are for two workers on a small machine.

| run | shows | bounds, and why they are enough | distinct states |
|---|---|---|---|
| `UartTx` | no interleaving loses, repeats or reorders a byte, wedges the endpoint or, with the coding left alone, leaves TXA active; the coding in use is the one reported; `SerialPipe` is implemented | 4-byte buffer, packets of 1 and 3, 5 bytes, one request for either coding: the buffer fills, wraps and defers packets, chunks are split at its end, and the request falls at every step | 353 k, 130 s |
| `UartRx` | a sender that observes RTS loses nothing; RTS is given back; transfers end; errors and inputs are reported, errors once; `SerialPipe` is implemented | 8 bytes, so that RTS has room between half and full; 10 characters wrap; packets of 2; two events out of parity error, request, input change | 258 k, 135 s |
| `UartRx_mask` | the 7-bit mask leaves the buffer | 4 bytes, 5 characters | violation |
| `UsbControl` | `ControlPipe` is implemented, no packet of another request, no panic, addresses change at the right time, no false STALL | all requests with lengths and replies 0 to 5 around packets of 2 and a payload limit of 4; three requests, so that what one leaves behind meets two more | 91 k, 15 s |
| `DeviceConfig` | a save is atomic and durable, the store is never emptied, a save ends | 2 pages of 3 halfwords, 3 configurations; the number of saves and power losses is not bounded | small, seconds |
| `CdcShell` | the terminal shows the line, Enter runs what it shows | 8 characters out of 12 (of each class one, and those of escape sequences), a line of 4: sequences of 4 characters with editing before and after, full lines, recall | 1.35 M, 75 s |
| `PortPins` | after a command for one port or a reset, pins, levels and the interrupt's address agree with the configuration | 2 ports, an input, an output and TXA, 3 settings; one port would not tell "all" from "this" | 2.1 M, 60 s |
| `UsbDevice` | the device answers at the address it was given, ports follow the configuration, a halted IN endpoint sends nothing, and a host that resets what does not answer gets the device configured | 2 addresses, 3 resets or suspends nobody asked for: a reset during another's recovery, and one more after it; requests are not bounded | 183 k, 17 s |
| `LineCoding` | the coding reported is the USART's, refused requests in between; a change pending while there are data is made when they are out, and announced | every stop and parity value, 5, 7 and 8 bits, rates 0, 300 (beyond BRR), 9600, 115200 at 36 MHz; any number of requests | 104 k, 100 s |
| `PortModes` | into configuration mode and back at rest: shell, wire and host get their own bytes, and all of them | buffers of 4 bytes, packets of 2: both wrap and fill; 6 bytes out, 4 in, so that each mode sees a full buffer; the pin changes twice | 187 k, 20 s |
| `PortModes_restart` | the same in the middle of transmissions, with a packet put off, and with a reset or a second SET_CONFIGURATION: what is accepted for the wire still comes out in order | 4 bytes out, 2 in, 2 changes, one restart | 258 k, 16 s |
| `PacketMemory` | buffers of all endpoints lie apart and in the memory, and packets get through whole | the firmware's own sizes: endpoints of 16, 32 and 64 bytes, 512 bytes of memory, every endpoint; two packets, so that one is copied while another comes or goes; lengths of 1, one less than the endpoint takes, all of it, and one more; circular buffers that wrap after one byte | 101 k, 35 s |

A type invariant is part of a run where a mistake in the code shows there first (an index
that leaves its array); `TypeOK` of `UsbDevice`, `PortPins`, `PacketMemory` and `PortModes`, and
`CodingTypeOK` of `LineCoding`, are proved (section 5), and `EditorTypeOK` of `CdcShell` follows from what is
proved there of the screen but for the words and the bounds.

Bounds that are guards in the modules are constants named `Max...`; `UsbControl`,
`CdcShell` and `PacketMemory` stop at them, and their configurations say `CHECK_DEADLOCK FALSE` for that
reason. `PortModes_restart` says so because `usb_panic` stops the device there. The other
runs check for deadlock.

The bounds of `UartRx` matter for what it shows of flow control. RTS is computed from
the head of the previous poll, so the fill may reach Size/2 - 2 + 3 Burst + 1 before the
sender stops; for 1024 bytes that holds as long as a turn of the main loop takes fewer
than some 170 characters. A flash erase takes longer: `Burst` states the assumption.

## 4. Fairness

- Main loop: weak. `main` calls `usb_poll` for ever, and no step of it waits.
- `DataReceived`, `Frame`: strong. The loop handles one event per turn, and a turn may
  serve another event; but each endpoint in front of it waits for the host in turn, and
  SOF is served as soon as no CTR flag is set.
- DMA and USART interrupts: weak, given their priorities: a pending interrupt is taken.
- `FetchByte`, `LoadShift`, `ShiftOut`: weak. The hardware moves bytes; for a port with
  CTS this says that the receiver lets it go on in the end.
- `StoreCharacter`: weak. A character the sender has begun arrives.
- `HostReadsData`, `HostReadsNotification`: weak, in `UartRx` only: liveness there is
  about an open port. Nothing is assumed of the host in `UartTx`: what it has handed over
  must get out whether or not it sends more.
- `Transaction` in `UsbControl`: weak: a host goes on with a request it has begun or
  gives it up, and both are in the model.
- `SaveStep` in `DeviceConfig`: weak. The flash finishes what it began.
- `HostAnswered` in `UsbDevice`: weak. A host collects the answer it asked for, and resets a
  device that gives none. `HostSetup(Needed[...])`: strong, as other packets may keep the
  main loop from the control endpoint's turn now and then; a host that wants a device
  configured goes on asking for what is missing. Neither is the code's, both are what
  USB enumeration does; without them nothing of a device could be shown to come about.
- `Finish` in `LineCoding`: weak. A request that was begun is carried out, in the same call.
- `PollReady` in `LineCoding`: strong. Every turn of the main loop ends with the poll, whatever requests
  the turns begin with. Nothing is assumed of the host or of the wire; `Announced` says itself that
  the buffer runs empty time and again. A host that sends without pause keeps a change waiting, since
  its packets are read by the poll all the same.
- `MainLoop`, `Fetch`, `TxComplete`, `HostReads` in `PortModes`: weak, as above.

## 5. Proofs

| theorem | property | for every |
|---|---|---|
| `UartTxProofs!TypeCorrect` | `TypeOK`: both indices of tx_buf stay in the buffer whoever writes them | buffer size above 1, packet sizes, codings, `Delays` either way |
| `UartTxProofs!CodingStaysConsistent` | `CodingConsistent` | the same |
| `UartTxProofs!NothingLost` | `StreamIntact` | buffer size above 1, packet sizes, codings, streams of any length; if the port is used alone (`~Delays`) and no packet is empty |
| `UartTxProofs!WindowHolds` | `DmaWindow` | the same |
| `UartTxProofs!PortIsPipe` | safety of the refinement of `SerialPipe` | the same |
| `UartTxProofs!CountAndSpace` | count and space add up to size - 1 | size above 0, indices in range |
| `UartTxProofs!CountToEnd` | the linear part of the content | the same |
| `UartRxProofs!TypeCorrect` | `TypeOK`: indices and the channel's position stay in the buffer, packets in the endpoint | even buffer size above 3, packet sizes, bursts, with and without flow control |
| `UartRxProofs!ErrorsCounted` | `NoFalseError` | the same |
| `UartRxProofs!FlowControlWorks` | `FlowControlled` | the same, if `Paced`: the sender observes RTS, and six times what may come within a turn of the main loop fits in the buffer |
| `UartRxProofs!PortIsPipe` | safety of the refinement of `SerialPipe` | the same |
| `UartRxProofs!CountJoined`, `CountAfterRead`, `CountAfterStore` | what reading and storing do to the count | size above 0, indices in range |
| `DeviceConfigProofs!TypeCorrect` | `TypeOK` | numbers of pages (two or more), halfwords, configurations |
| `DeviceConfigProofs!PagesStayInOrder` | `PagesInOrder` | the same |
| `DeviceConfigProofs!SaveIsAtomic` | `StoreSpec`: refinement of `ConfigStore` | the same |
| `DeviceConfigProofs!NeverBackToDefault` | `NeverEmptied` | the same |
| `UsbDeviceProofs!TypeCorrect` | `TypeOK` | set of addresses, number of resets and suspends |
| `UsbDeviceProofs!HaltedInIsSilent` | `HaltedInSilent` | the same |
| `UsbDeviceProofs!PortsFollow` | `PortsFollowHost` | the same |
| `UsbDeviceProofs!DeviceReachable` | `Reachable` | the same |
| `CdcProofs!CodingTypeCorrect` | `CodingTypeOK` | clock, sets of rates and word lengths, width of BRR |
| `CdcProofs!ReportedIsUsed` | `WireFormat` | the same |
| `CdcProofs!TypeCorrect` | `TypeOK` of `PortModes`: indices of both buffers and both channels' positions stay in range, in either mode and through every reset | buffer sizes above the packet size, bytes out and in, switches, restarts, `Quiet`, `Handled` and `Repeats` either way |
| `CdcProofs!HostUndisturbed` | `HostGetsReceived`, a part of `NothingAstray` | the same, if there is no restart (`MaxRestarts = 0`) |
| `CdcProofs!NobodysElse` | `NothingAstray` | the same, if `Lone`: no restart, the pin changes while nothing is transmitted or put off, and a packet leaves two bytes of the buffer free |
| `CdcProofs!WrittenSound` | after `cdc_shell_write` the content of the buffer is what is due to the host | sizes, contents, bytes |
| `UsbControlProofs!TypeCorrect` | `TypeOK` | requests, packet size, payload limit, number of requests |
| `UsbControlProofs!PacketsAreOwn` | `NoForeignPacket` | the same |
| `UsbControlProofs!NeverPanics` | `NoPanic` | the same |
| `UsbControlProofs!NeverRefusedFalsely` | `NoFalseRefusal` | the same |
| `UsbControlProofs!EndpointIsPipe` | `PipeSafety`: safety of the refinement of `ControlPipe` | the same |
| `UsbControlProofs!AddressFollows` | `AddressChange` | the same, if SET_ADDRESS is not among the requests given up |
| `PacketMemoryProofs!CopiesInside` | `TypeOK`: a copying loop stays in its buffers | endpoint sizes, memory, circular buffers and numbers of packets, if `Fitting`: the block counts can say the sizes, the memory and the circular buffers hold them |
| `PacketMemoryProofs!LayoutSafe` | `BuffersApart` | the same |
| `PacketMemoryProofs!PacketsArrive` | `PacketsWhole` | the same |
| `ShellProofs!TerminalFollows` | `ScreenShowsLine` | lengths of the line, numbers of arguments and of characters |
| `ShellProofs!ScreenIsRun` | Enter runs `Parse(term.text)`, and nothing else runs anything | the same |
| `ShellProofs!TypeCorrect` | `TypeOK` of `PortPins` | ports, pins, settings |
| `ShellProofs!RegistersFollow` | `AppliedUnlessAll` | the same |

Assumptions are the named `ASSUME`s of the modules the theorems are about, no others but those
in the last column; TLC evaluates them in the runs. The constants of the firmware fulfil all of
them: 1024-byte buffers leave `Paced` 170 characters within a turn, and the sizes of
`usb_descriptors.c` are `Fitting`.

`UartTx`. `TypeOK` alone is not inductive: `avail` and `call.left` are differences, and
the endpoint must not hand over more than was sent. `CopyFits` adds that (bytes being
copied plus bytes in the endpoint are among those sent). One lemma handles
`start_tx` for both contexts, one each group of the main loop's actions, one the rest.
`CodingConsistent` is strengthened to `CodingInv`: between the register writes and the
clearing of the flags (labels `cr1` and `applied`) the stored and the used coding already
agree. It is preserved because requests and poll belong to the same main loop; the
interrupts only set `ready`, and only while a change is pending.

The second half of `UartTxProofs` proves what the path is for, under the two conditions without which
`UartTx_size` and `UartTx_zlp` show it false. `Undisturbed` names them. The invariant says where
each byte is by its number (`BytesInv`: the ones on the wire, in the two registers, and from
`From`, where the channel has got to, up to head), and that the chunk the channel was enabled for
lies within the content and is what the completion will advance tail by, or that the store of
`last_dma_tx_size` is the next step (`ChannelInv`). Why is the count `start_tx` read still right
when the channel is enabled? In the interrupt because the main loop stands still (`IsrInv`). In the
main loop because of the window between storing a packet's last byte and testing the channel
(`MainInv`): at most one byte is moved there, so a chunk that ends in it had been enabled
before the last byte was stored and does not include it; its interrupt therefore finds that byte and
enables the channel again, and the main loop's test finds the channel busy. It uses its count
only if no interrupt came in between. With an empty packet nothing is stored, and with a delay more than
one byte is moved: there the argument, and the code, fail. Handling the modulus once
(`Indices`, the lemmas on `Dist`) keeps it out of the steps' proofs.

`DeviceConfig`. The inductive invariant is `PagesInOrder` with the types: during a save
the old page stays valid until the new one is complete, no page in front of the old one
is valid but the new one, and what has been written of the new page is a prefix of the
configuration. Without it a save could pick a page whose completion leaves two valid
pages in the wrong order. From it follow: a halfword short of complete is not
`Valid` (`InvalidHalfword`), so `Load` does not change (`OldPageKept`); completing the
page changes it, or its invalidation does, depending on which of the two pages comes
first (`NewPageComplete`, `OldPageGone`); the other steps of a save stutter. Only a power
loss may end a save that has not replaced the stored value (`PowerLossRefines`), and the
abstract store tells it from a save's return by the value in use.

`UsbDevice`. None of the three properties is inductive, because between a reset of the bus
and its event the main loop may serve a SETUP packet of before the reset. The invariants
therefore speak of the times when no reset is pending, and of what that one request can
leave behind. `RequestInv`: without a reset pending, the request being served is the one the
host waits for, and nothing has answered it yet; with one, the host has asked nothing.
`WriteInv`: which write is under way, told by where the main loop is, so that a write of the poll's is
over before a request is carried out. `HaltInv`: the IN endpoint is silent (stalled or disabled) from
the store of a halt on, and while that store is still to come, what has been loaded would stall
or disable the endpoint, the one or the other according to whether the hardware has taken a packet
since (`SentMeanwhile`); a write that would make it valid is begun only on bits that read NAK, and with
none halted. `PortInv`:
`usb_device.state` is never `configured` (which is why a suspend does not stop the ports), and
who has enabled the ports. `AddressInv`: where an address is on its way from the request by
`usb_device` and the callback to DADDR. Each is kept by every action (one step of the proof
each) given `TypeOK` and `RequestInv`; `Inductive` puts them together.

`LineCoding`. `WireFormat` says nothing while a change is deferred, and what is deferred then may
be half a coding that was refused. So the invariant has to say of every stored coding, accepted or
not, that the request made of it when the poll applies it is not refused (`Settable`: a word length
other than 7 and 8 comes with no parity only), and of the registers that they are those of the
stored coding but for the word length (`Says`). One lemma for each step of
`usb_cdc_set_line_coding` keeps both (`RateStep`, `StopStep`, `BitsStep`, `ParityStep`),
`Request` composes them, and `Quotient` is the arithmetic of BRR.

`PortModes`. The invariant says where the bytes due are. `Stretch` is the one notion for it: a queue
lies in a buffer from an index on if each of its bytes is at its distance from there, and lemmas say what
storing at the end (`StretchLonger`) and taking from the front (`StretchShorter`, `OldestFirst`) do to it for every size.
For the wire (`TxSound`) the queue begins where the channel has got to, and is as long as the content less
what the chunk has already given; with the channel idle there is none. For the host
(`RxSound`) it begins at tail and ends where something was stored last: the receive channel's position
outside configuration mode, head inside, where the channel is off and the shell stores. `Apart` is the
moment at which one turns into the other: from `Enter`, which empties the buffer, before
`Entered` disables the receiver; in between a character may still come, and `FromHead` is why it does
not matter where the channel stands when it is enabled again. `TxModes` and `RxModes` tie the modes to the
channels: no packet put off and no chunk under way in configuration mode, no receiver in it.
`HostUndisturbed` needs of all that only that nothing is reset, since a reset leaves the
channel enabled (`PortModes_reset`). For the wire and the shell the conditions of `Lone` cannot be left out:
`PortModes_window` is the pin without `Quiet`, `PortModes_putoff` without `Handled`, `PortModes_stale` a
restart. With `Packet + 1 < Size`
a packet in configuration mode always fits in the empty buffer, whose test is a strict one (`usb_cdc.c:407`): with one byte less it ends in
`usb_panic`. The firmware's sizes, 64 and 1024, fulfil it.

`UsbControl`. What the endpoint may do next depends on how far host and main loop have got, which
need not be the same stage: the host may have ended a transfer and sent the next SETUP before
the main loop has seen the end of the last packet. So the invariant is a disjunction of stages
(`Stage`). While the host waits for a request the transfer is in one of nine (`Waiting` to
`Stalled`), each with the state of the state machine, the status bits, whose packet is in which
buffer, and an equation between what the host has got, what is offered and what is left of the
payload, whose sum is the answer `ControlPipe` asks for. Between requests (`Rest`) only the
end of the last one can be left; once a request is cut short nothing is known but `Sound`, which
holds whatever the host does and is why even then no packet is reported as sent in a state that
waits for none. Each action's lemma first shows from its guard which stages it can start from,
mostly one, and then the one it leads to. With that, `NoFalseRefusal` is read off the stages, and the
refinement has one lemma for each action of `ControlPipe`: carrying out happens only in
`Processing`, completion only when the equation has nothing left to send. `AddressInv` adds
where a new address is: announced under the old one, or confirmed and about to be used.

`PortPins`. A command changes the configuration first and the registers later, a reset both
pin by pin. The invariant says that a register that disagrees with the configuration is one
that the reset's loop (`todo`) or the setting under way has yet to write (`ModeInv`, `LevelInv`,
`ClearInv`), and nothing about a port after a command for "all", which writes another's.

`UartRx`. Loss is a matter of three indices: where the hardware stores (`Slot`), the one the poll
has read from CNDTR (`dma_head`) and the one the port works with (`head`). `LagInv` says that they
follow each other around the buffer at no more than `Burst` each, and that together with `Count`
they make up everything unread. `RoomInv` is what RTS is worth: when it is on, the count
was below the half at some time since which `head` has moved by at most one turn's characters; so the
count is, and the two lags and the character a sender may have begun fit behind it. That is where
six bursts come from, and the bound is sharp: TLC finds `FlowControlled` violated with a burst of
one at 4 bytes and of two at 8 and 10 bytes, and satisfied at 6 and 12. `ContentInv` says by
its number where each character is, in the packets, or at its distance from tail; it is what both
`FlowControlled` and the refinement are read off. `ErrorInv` counts: errors told, and one more if one is in
`serial_state` or in its copy and yet to be told, are no more than there were. It does not need `Paced`.

`PacketMemory`. The layout is a sum over the table; the lemmas `OffsetDef` to `OffsetsGrow` unfold it for
the seven endpoints and show that buffers follow each other and end within the memory, `BuffersDisjoint`
and `WordsApart` carry that to the half-words an action writes. The invariant says what lies in the memory:
a packet that has arrived or is to be sent lies in its buffer whole (`WaitingInv`); of one being
copied the first `done` bytes lie where they belong, on one side or the other (`SendInv`,
`ReadInv`), and the endpoint is closed, so that the hardware leaves it alone. A half-word is two bytes,
hence the even sizes of `Fitting`: with an odd one the last byte of one buffer and the first of the next would share
a half-word.

`CdcShell`. The screen's equation is inductive with the types (`EditorInv`): each key's lemma computes what
the sequence of writes, movements and erasures makes of the terminal (`Shown`) and what the program
makes of the line, both from the two parts of the line in front of the cursor and behind it.
`WriteToEnd` is the one fact about the terminal they share. What is run on Enter is then
`Parse` of what is shown; that `Parse` splits a line of any length as `Words` says is induction over a fold.

Only model-checked: that `Parse` finds the words (the second half of `RunsWhatIsShown`) and all
liveness: `EndpointReopens`, `TxaReleased`, `FlowResumes`, `TransferEnds`, `ErrorReported`, `InputsReported`,
`SaveEnds`, `Enumerates`, `Announced`, `AllComesOut`, `WireComesOut` and the liveness of the pipes. Liveness
under fairness, `ENABLED` and induction over data (what a fold over a line of any length computes) are out of the
prover's reach and stay with TLC.

## 6. Findings

A run that ends in a violation states what a comment or the project's README says. The
listed one:

| configuration | property | what happens |
|---|---|---|
| `UartRx_mask` | `MaskStaysInBuffer` | the mask (`usb_cdc.c:331-334`) does not wrap and clears bits behind `rx_buf` |

Further counterexamples, kept as configurations and reproduced with
`tlc -config <file>.cfg <module>` (those called `..._findings` name several properties: keep the one
in question):

| configuration | property | what happens |
|---|---|---|
| `UartTx_findings` | `DeferredChangeMade` | the last DMA interrupt falls between the test of the count and `line_state_change_pending = 1` (`usb_cdc.c:728-730`): nobody sets `ready` until more data is sent |
| `UartTx_findings` | `TxaAlwaysReleased` | CR1's read-modify-write (306) undoes TCIE set by the DMA interrupt (454): TXA stays active |
| `UartTx_zlp` | `CountTruthful` | after a zero-length packet `start_tx` may use a count read before (442) the interrupt that frees the channel (443): bytes are sent again and tail passes head |
| `UartTx_findings` | `NoReceiveWhilePending` | the poll (766) reads a packet that was put off for a pending change. Harmless for the stream. Testing the flag there as well would, together with the lost wake-up, wedge the endpoint: `PollDeferredWaits` is that repair, and `EndpointReopens` rejects it |
| `UartTx_findings` | `NoChangeUnderCharacter` | the buffer is empty while two characters are still in the USART |
| `UartTx_txaidle` | `TxaWhileTransmitting` | TC of the last transmission clears TXA after it was set for the next (446, 508) |
| `UartTx_txalate` | `TxaAlwaysReleased` | `SR &= ~TC` (453) comes after the last character was out; needs a delay of the DMA interrupt by two characters |
| `UartTx_size` | `CountTruthful` | `last_dma_tx_size` is stored (450) after the channel was enabled; needs a delay by a chunk |
| `UartRx_rts` | `RtsAsSoonAs` | RTS follows the fill of the previous poll (364, 368) |
| `UartRx_seven` | `SevenBitWords` | wrapped characters keep bit 7 (331) |
| `UsbControl_callback` | `CallbackOfExchange` | a SETUP does not clear `tx_complete_callback` (`usb_core.c:327`) |
| `PortPins_all` | `AppliedInstantly` | the loops over "all" (`cdc_shell.c:181-219`) pass the command's port, -1, instead of `port_index` |
| `PortPins_txa` | `TxaInactiveAtRest` | the USART interrupt clears the pin (509) but not `txa_active`; the next reconfiguration drives it |
| `UsbDevice_findings` | `OpenAfterReset` | a packet, request or poll handled between a bus reset and its event sets STAT bits, which `usb_io_reset` (`usb_io.c:49`) then toggles off |
| `UsbDevice_findings` | `SuspendStopsPorts` | nothing sets `usb_device.state` to configured (`usb_core.c:36, 42`): a suspend stops no port |
| `UsbDevice_findings` | `OutOpen` | clearing a halt (`usb_io.c:204`) disables the OUT endpoint: the XOR uses the sending side's bits |
| `UsbDevice_findings` | `HaltedInStays` | the host takes a packet between the load and the store of a halt (`usb_io.c:194`): VALID has become NAK, the ones that would have made it STALL disable the endpoint, and clearing the halt is skipped for a disabled one (192) |
| `UsbDevice_findings` | `HaltedOutStays` | reading a packet (`usb_io.c:155`) reopens an OUT endpoint halted meanwhile |
| `LineCoding_findings` | `RateAsAsked` | a quotient above 16 bits is cut (`usb_cdc.c:253-255`): low rates are accepted and others used |
| `LineCoding_findings` | `FrameAsAsked` | 7 bits without parity are transmitted as 8 (290-306) |
| `LineCoding_refused` | `RefusedLeavesFrame` | a coding refused for its parity (310) has stored its word length, which a deferred change applies |
| `PortModes_window` | `ShellGetsTyped` | a completion between rewinding (378) and disabling (380) moves tail past head: the first packet typed ends in `usb_panic` (410) |
| `PortModes_putoff` | `ShellGetsTyped` | a packet put off before configuration mode is read into the shell's buffer (766) and handed to it |
| `PortModes_reset` | `HostGetsReceived` | a reset leaves the receive channel enabled (617); the host gets as many bytes nobody sent as the channel had stored |
| `PortModes_stale` | `WireGetsSent` | a transmit channel at work goes on after a reset and sends what `memset` (600) left |
| `PortModes_receiver` | `AllComesOut` | a reset in configuration mode, and SET_CONFIGURATION enables the receiver (634): characters over the shell's output |
| `PortModes_txa` | `TxaWithChannel` | entering configuration mode disables the channel (380) in the middle of a chunk: TXA stays active |
| `CdcShell_findings` | `RecallsLastCommand` | Enter with the cursor at the beginning does not save the line (`cdc_shell.c:582`) |
| `CdcShell_findings` | `LineFits` | the limit is tested after the insertion and against the cursor (594) |

## 7. Not modelled

- Descriptors (`usb_descriptors.c:75` ff.): constant data for the host. The table of endpoints in
  front of them is `Table` of `PacketMemory`.
- Clock, interrupt priorities' set-up, LED, unique id, linker script, Makefile, INF file:
  straight-line or not code. `usb_panic` is a state of `UsbControl`, shown unreachable there,
  and of `PortModes`, where `PortModes_window` reaches it.
- Shell commands that only print (help, version, show); formatting of any output.
- Bytes the USART interrupt takes from DR instead of the DMA channel (`usb_cdc.c:518`):
  a matter of bus cycles.
- CRC collisions: a torn page is taken to fail its check.
- The delay of 20 frames between two readings of the inputs; the RX and TX pins' own
  electrical set-up.
- A bus reset's event (`usb_io_reset`, `usb_device_handle_reset`) is one step: the bus stays in reset for
  10 ms, longer than the handler runs, and its stores do not depend on what was loaded.
- The load and the store of a STAT register are apart in `UsbDevice` only. In `UsbControl`, `UartTx`,
  `UartRx`, `PortModes` and `PacketMemory` it is one step to open an endpoint: it answers NAK then, so
  that no transaction ends in between, and what a reset does there is a matter of `UsbDevice`.
- `UsbControl` stalls both directions in one step, and refuses a request with more data than
  `payload_buf` holds in the step that reads its SETUP. So a packet of such data that arrives after
  `usb_read` has opened the endpoint (`usb_core.c:257`) and before the stall has been stored (268) is
  left out. What it would do between the load and the store of `usb_io.c:202` is what
  `HaltedInStays` shows of line 194: the receiving side ends up disabled, until a reset.
- The packet memory in the modules other than `PacketMemory`: they copy packets in one step or, in
  `UartTx` and `UartRx`, byte by byte. A SETUP that replaces a packet between the two stores of
  `usb_read` (`usb_io.c:103`), and hardware that reads a half-word being written.
- Three ports at once: each module has one, `PortPins` two. What one port's work costs
  another in time is beyond a model without time.
- Remote wake-up, string descriptors, interface and endpoint requests other than halt:
  they read, and `UsbControl` has them as replies of some length.

## 8. Plan

Done: the core, in the order `CircBuf`, `SerialPipe`, `UartTx`, `DeviceConfig`, `UartRx`,
`UsbControl`, `CdcShell`, `PortPins`; then `UsbDevice`, `LineCoding`, `PortModes` and
`PacketMemory`; proofs about `CircBuf`, `UartTx`, `UartRx`, `DeviceConfig`, `UsbControl`, `UsbDevice`,
`LineCoding`, `PortModes`, `PacketMemory`, `CdcShell` and `PortPins`: every safety invariant that a run checks,
but for the splitting into words.

Next modules:

1. The stall of `UsbControl` in its steps, with data that arrives in between.
2. Three ports in one loop: the hardware's choice of EP_ID against one event a turn.

Next proofs: of `PortModes`, that the wire's bytes stay in the order accepted through a reset, with
what the last chunk may still send stated apart; of `UartTx`, `StreamIntact` with empty packets,
under the condition that none ends while the channel does.

## 9. Running it

    tlc -workers 2 -config UartTx.cfg MCUartTx
    tlc -workers 2 -config UartRx.cfg MCUartRx
    tlc -workers 2 -config UsbControl.cfg MCUsbControl
    tlc -workers 2 -config DeviceConfig.cfg DeviceConfig
    tlc -workers 2 -config CdcShell.cfg CdcShell
    tlc -workers 2 -config PortPins.cfg PortPins
    tlc -workers 2 -config UsbDevice.cfg UsbDevice
    tlc -workers 2 -config LineCoding.cfg LineCoding
    tlc -workers 2 -config PortModes.cfg PortModes
    tlc -workers 2 -config PortModes_restart.cfg PortModes
    tlc -workers 2 -config PacketMemory.cfg PacketMemory
    tlapm UartTxProofs.tla
    tlapm UartRxProofs.tla
    tlapm DeviceConfigProofs.tla
    tlapm UsbDeviceProofs.tla
    tlapm CdcProofs.tla
    tlapm UsbControlProofs.tla
    tlapm PacketMemoryProofs.tla
    tlapm ShellProofs.tla

The community modules must be on TLC's path (`CdcShell` uses `SequencesExt` and
`FiniteSetsExt`, `PortModes` `SequencesExt`).

# Verification of the rpi-mske kernel

TLA+ models of rpi-mske, a small kernel for the Raspberry Pi model B, the TLC
runs that check them, and TLAPS proofs about them. Paths below are those of the
repository (`src/src/...`); line numbers are those of the code that was
modelled.

The kernel is one thread without a scheduler. What makes it hard is everything
that runs beside that thread: the PL011's shift register and FIFOs, the
VideoCore behind the mailbox, the interrupt lines, and the handlers that may
interrupt it. Each of them acts between any two register accesses of the code,
so most models have one action per access, or per polling loop, and one per
thing the hardware can do in between.

## 1. The system

| Component | State | Operations | Interacts with | Hard behaviour | What makes it correct |
|---|---|---|---|---|---|
| Device table, `common/device.c` | `num_devices`, `device_table[]` (`valid`, `dev_ops`) | `device_init`, `device_register`, `device_read/write/destroy` | calls a driver's `init` in the middle of a registration, and its operations afterwards | unbounded scan, `valid` set before `dev_ops`, count reset before the slots, a driver that fails to start, a handler that calls in between | count = valid slots; the scan stays in the table; an id reaches the driver it was given for |
| UART driver, `uart/uart.c` | hardware registers only | `uart_init`, `uart_write`/`uart_putc`, `uart_read`/`uart_getc`, `uart_destroy` | registered in the table; used by `printk` directly | FIFOs move while they are polled; re-initialisation with bytes queued | nothing lost, repeated or overtaken; writes return |
| Console, `init/kernel.c`, `klibc/src/putc.c` | `uart_dev_id`, `buffer`, the program counter | `kernel_main`, `uart_register`, `putc` | device table, UART, printk | return values ignored in the echo loop; CR LF only in printk; two users of one transmitter | every accepted character answered once, in order |
| Mailbox, `memory/mailbox.c` | two FIFOs, `count`, `data` | `read_mailbox`, `write_mailbox` | VideoCore | words of other channels, a time-out counted over the call, the status of the wrong mailbox | no wanted word is dropped; a read gives up only unanswered, and returns unless words of other channels never end |
| Framebuffer, `video/framebuffer.c` | `mailbuffer` (shared), `_physical_screenbase`, `_screensize`, `_pitch`, `_screen_width/_height`, cursor, colours | `init_framebuffer`, `get_resolution`, `set_up_screen`, `print_*`, setters | mailbox, VideoCore | four requests in one shared buffer, each may fail or be answered after the reader gave up | success only with what was granted; the buffer is not touched while it is the VideoCore's |
| Interrupt controller, `irq/irq.c` | `mske_irq_vector_table[]`, CPSR.I, pending registers | `interrupt_controller_init`, `register_interrupt`, `enable_irqs`, `disable_irqs`, `enable_irq`, `disable_irq`, `handler_irq` | handlers, `stub_irq` | two-store entries, two-read dispatch, nesting, lines without a handler, lines the dispatch does not see | entries never seen half written; what is dispatched is raised; what is raised is served |
| Exception entry, `init/entry.S`, `exceptions/exceptions.c` | frames on the SVC stack | `saveall`, `restoreall`, eight stubs | `handler_irq`, `handler_fiq`, empty handlers | nested frames; handlers of faults that return to the fault | a level resumes where it was, with its mask |
| GPIO, LED, panic, `gpio/gpio.c`, `led/led.c`, `common/panic.c` | GPIO registers | `set_gpio_function`, `set_gpio_state`, `set_gpio_pull_up_down`, `init_led`, `set_led_state`, `kernel_panic` | UART and LED set-up | a register's contents used as an address | the documented sequence reaches the pads of one pin only |
| Timer, `timer/timer.c` | free-running 32-bit counter | `usleep` | `blink`, `kernel_panic` | the counter wraps | sleeps as long as asked, and ends |
| ATAGS, `init/atags.c` | `model`, `mem_total`, `initrd_*` | `resume_atags`, `next`, `find` | boot loader's list, printk | lists without an end, a search that steps twice | the walk ends; a token is found where it is |
| printk formatting, `klibc/src/vprintk.c` | none | `vprintk`, `printNum` | `putc` | end of format after `%`, widths, the most negative number | prints the number it was given |
| Virtual memory, `memory/memory.c` | `pagetable0`, page table at 0x4000 | `init_memory`, `mem_v2p` | nobody: the call in `kernel_main` is commented out | descriptor kinds | translation follows the descriptor |
| Palette and font, `video/palette.c` | none | `rgb_565` | `print_pixel` | none | 5-6-5 bits of the colour |
| Boot, `init/boot.s`, `kernel.ld` | BSS | `_start` | `kernel_main` | stores 16 bytes at a time | BSS is zero |

`PROJECT.json` lists the same components with their status and, under
`hazards`, the lines where something can go wrong that a test would hardly
reach, with the properties that cover each.

## 2. Modules

| Module | Models | Uses |
|---|---|---|
| `DeviceRegistry` | what the device table promises: an abstract registry | |
| `Devices` | `common/device.c` | `DeviceRegistry` (refinement) |
| `DevicesProofs` | proofs about `Devices` | `Devices` |
| `Uart` | `uart/uart.c` and the PL011 | |
| `EchoLine` | what the console promises: an abstract line | |
| `Console`, `MCConsole` | `kernel_main` over table and driver | `Devices`, `Uart`, `EchoLine` (refinement) |
| `ConsoleProofs` | proofs about `Console` | `Console` |
| `Mailbox` | `memory/mailbox.c` and the VideoCore's end of it | |
| `MailboxProofs` | proofs about `Mailbox` | `Mailbox` |
| `Framebuffer`, `MCFramebuffer` | `init_framebuffer`, and the VideoCore's replies | `Mailbox` |
| `FramebufferProofs` | proofs about `Framebuffer` | `Framebuffer` |
| `Irq` | `irq/irq.c`, `stub_irq`, the pending registers | |
| `IrqProofs` | proofs about `Irq` | `Irq` |
| `Vprintk` | `klibc/src/vprintk.c` | |
| `PrintProofs` | proofs about the two ends of a printed line, its text and its way out | `Vprintk`, `Uart` |
| `Board` | `gpio/gpio.c`, `led/led.c`, `timer/timer.c`, `blink`, `kernel_panic` | |
| `BoardProofs` | proofs about `Board` | `Board` |
| `Boot`, `MCBoot` | `init/boot.s`, `init/atags.c` | |
| `Memory` | `memory/memory.c`, `video/palette.c` | |
| `BootProofs` | proofs about `Boot` and about `Memory` | `Boot`, `Memory` |

Each module's state and actions carry the names of the code. A `pc` (in
`Framebuffer`, `Console` and `Vprintk` `fpc`, `kpc` and `vpc`, in `Irq` one `at`
per level) says
which call is under way and where; locals of the C functions are variables of
the same name. Operators after a comment `Mutant:` are wrong versions of the
definition that follows; no specification uses them. They show that the
property they are listed with in `PROJECT.json` can fail. A module that runs
another's actions through `INSTANCE` does not repeat its type invariant.

**Devices.** One action per store of `device_register` and `device_init`, per
turn of the scan, and for either outcome of the driver's `init`. A handler may
dispatch any id it was given at any of these points (`HandlerCalls`), the kernel
only between its calls (`KernelCalls`). `device_destroy` calls the driver and
leaves the slot valid, so it is `Dispatch` too. The history `clients` is what
the callers of `device_register` believe.

**Uart.** The transmitter takes a byte from its FIFO and finishes it, two
actions, at any time; a byte arrives at any time, and is lost if the FIFO is
full. The transmitter starts a byte only while enabled. `uart_init`'s
configuration after the wait is one step, since the UART is disabled during it.
The write to FR at `uart.c:69` is to a read-only register and clears nothing, so
the FIFOs survive `uart_init`. A `size_t` is modelled modulo `WordSize`.

**Console.** `kernel_main`'s steps run the actions of `Devices` and `Uart`
through `INSTANCE`. `uart_init` runs between `ScanFree` and `DriverStarts` of
the registration. What the framebuffer and the tag list print is part of
`Text`; `putc` turns every LF of it into CR LF, and nothing of the echo. A
registration that fails, by a full table or a driver that does not start, ends in
`panic`; that it never does is part of `UsesUart`. What `kernel_panic` does then
is `Board`'s.

**Mailbox.** A word is a channel and a number. A poll of the status, a read and
a store are separate actions. The C struct has only the status register of
mailbox 0, so `MAILBOX_FULL` is about mailbox 0 while `Store` appends to mailbox
1, as in the code. The VideoCore may post on channels the ARM does not read as
often as it likes; `MaxPosts` bounds only its posts on those that the ARM does.
The history `sent` has the words of the latter.

**Framebuffer.** The request is sent and the answer awaited with Mailbox's
actions. The VideoCore processes the buffer (`VcProcess`) some time before it
answers, and it may succeed, refuse, leave the allocation out or unanswered, or
lead the walk over the tags astray. The mailbuffer is abstracted to the code
word, the kind of request, the reply, and how that walk ends. Every drawing
function is the furthest address it writes: `Draw` is what `init_framebuffer`
draws whatever `set_up_screen` returned; afterwards anybody may set the cursor
and print characters (`Client`). Colours are left out, no address depends on
them. The bytes per pixel are 2 once `set_up_screen` has been entered; before that
`_bytes_per_pixel` is 0, `print_pixel` finds no depth it knows, and a character
printed then writes nothing (`DepthSet`).

**Irq.** Level 0 is the thread; each interrupt taken adds a level. When a line
is raised and IRQs are not masked the CPU can only take the interrupt. Handlers
may call `register_interrupt` and mask or unmask IRQs themselves, also nested.
The inline assembly of `irq_disable` overwrites `r0` without declaring it, and
the build is at -O2, so `register_interrupt`'s index afterwards is either what
it was or far outside the table: `Register` chooses. The lines enabled in the
controller are a constant, because `enable_irq` writes to an address it reads
from the enable register and enables nothing (`irq.c:96`).

**Vprintk.** A turn of `vprintk`'s loop prints a character or converts one
directive. The scan of flags and width is one action, since it only collects
them; the loops of `printNum` are a step per turn, over words of `IntBits` and
`LongLongBits`. `Reading` is what a reader makes of the characters printed.
Powers and readings are recursive functions, so that they can be reasoned about.
`putc`'s CR LF is left to `Console`.

**Board.** `kernel_main` from `init_led` through `blink` to the UART's pins, or
to `kernel_panic` when the UART fails to register. A call into `gpio.c` is one
step, because nothing else looks at its registers; inside it every access has
the address that the code really uses, which is the register's contents
(`gpio.c:36`, `gpio.c:68`). The three registers hold at first what the boot
loader left, out of the constants `Fsel1`, `Pud` and `Pudclk0`. The pads take the
pull as long as their bit is set in the clock register, so that a bit the boot
loader left there clocks them at each store. The LED shines when pin 16 is an
output that is low, and `flashes` counts how often it begins to. The counter ticks at any
time, up to `MaxLag` ticks between two polls of a sleep. `elapsed`, `lag` and
`flashes` are histories.

**Boot.** From reset to the end of `resume_atags`, in words. The clearing is a
step per `stmia`, the walk a step per tag. `find` is not recursive here: `Claims`
gives what its test after an inner loop may say, from the first turn at which
that loop stops; beyond the NUL of either string lies anything, so that a search
which runs past it may go either way. Any list whose tags have a size and end in
`NONE` may be there, or none at all.

**Memory.** `mem_v2p` over a memory of 32-bit words, with the two lookups as
the code makes them; `init_memory`, one step because nothing runs beside it; and
`rgb_565`. There is no run: TLC has no integers of that size, and a smaller word
has no room for the page sizes.

## 3. Runs

| Run | Bounds | Checks |
|---|---|---|
| `devices` | 3 slots, 2 drivers | `CountMatchesTable`, `ScanInBounds`, `ClientsServed`, `NoNullCall`, `CallsReturn`, and `Implements`: `Devices` is a `DeviceRegistry` |
| `uart` | FIFOs of 2, 2 characters, writes and reads of up to 2 bytes, 4 bytes out, 3 in, words of 4 bits, re-initialisation allowed | `SentInOrder`, `ReadInOrder`, `CallsReturn` |
| `console` | FIFOs of 2, boot text of 3 characters (5 with CR), 4 characters in | `EchoConserved`, `UsesUart`, and `Echoes`: `Console` is an `EchoLine` |
| `mailbox` | FIFOs of 2, 2 channels of which 1 is read, 2 requests, 2 posts on the channel read and any number on the other, time-out after 2 empty polls | `NoneWantedDropped`, `CallsReturn`, `GivesUpUnanswered` |
| `framebuffer` | FIFOs of 3, the kernel's 656 x 416 on a display of 1920 x 1080 or QEMU's 0 x 0, any number of posts on another channel, time-out at once, cursors at 0, 60 and far outside | `BufferNotShared`, `SuccessMeansGranted`, `DrawsBounded`, `InitReturns` |
| `fb_draws_inside` | the same | violated: `DrawsInside` |
| `irq` | one line in each register and one with a bit of its own (29, 60, 64 and the UART's 57), 1 handler besides the default, 2 interrupts nested | `EntryNotInterrupted`, `CalledAsRegistered`, `DispatchesRaised`, `DispatchesShown`, `Served` |
| `vprintk` | `int` and `long` of 4 bits, `long long` of 7, widths 0, 1, 2, 3 and 5, strings of up to 2 characters | `NumberReadsBack`, `FieldFilled`, `DigitsFit`, `ConversionEnds` |
| `board` | a counter of 3 bits, from every value; sleeps of 3 and 2, 3 flashes, polls up to 2 ticks late; GPFSEL1 left with no pin set, the UART's pins, pin 16 as an output, all three, or its own address; any of GPPUD's signals; in GPPUDCLK0 no bit, pin 16's, the UART pins', its own address, or GPPUD's; any pull | `BlinkEndsDark`, `SleepsAsAsked`, `MainOrFlashing` |
| `board_led` | a counter of 3 bits; sleeps of 1, 1 flash, polls up to 1 tick late; GPFSEL1 with the UART's pins set, GPPUD and GPPUDCLK0 zero, any pull | violated: `LedConfigured` |
| `boot` | a BSS of 8 words, lists of up to 2 tags between `CORE` and `NONE`, command lines of up to 6 characters out of 3 and some of up to 9, tokens of 3 | `ClearsBss`, `TagsTaken`, `ModelBacked`, `WalkEnds` |
| `boot_find` | the same | violated: `FindsToken` |

Why the bounds are enough. The table fills, is reset and fills again with 3
slots, and a failed start leaves a hole at every position. A FIFO of 2 is empty,
partly full and full, and 4 bytes pass through it twice. A mailbox of 2
is full with two of the four answers and posts. The time-out is a count of empty polls: one or two are
as good as 2^25, because the VideoCore may take any time. In `framebuffer` the
FIFOs are shallower than the four requests, so that answers nobody waited for
may fill mailbox 0, as posts to other channels could on the board, where they
hold 8. A basic line, one in each pending register, and one that has a bit of
its own are the four cases `handler_irq` tells apart. A `long long` of 7 bits
has three octal digits, as many as the buffer holds beside its NUL, and the most
negative and the largest unsigned number; the widths are below, at and above the
length of every number. A counter of 8 wraps within every sequence of two or
three sleeps, from every start, and a poll that comes 2 ticks after the one
before may miss the very tick at which a sleep is over. What the boot loader left
in the GPIO registers matters by the function of pin 16, by the clock bits that are
set, and by whether it is a register's address: the values of `board` have each
of these, though not every word a register can hold. Two tags are enough for one of each pair of
kinds to follow, and to repeat, the other; a line over three characters has the
token at each place, with its characters apart, and incomplete at its end.

Deadlock is checked in `devices`, `irq`, `vprintk` and `board`, whose systems
never stop. In the others they do stop: the line goes quiet once all the bytes
of the bound have been sent (`uart`, `console`), the requests are used up
(`mailbox`), the screen is drawn (`framebuffer`), the list has been walked
(`boot`). Three calls of the code can hang, and the passing runs state exactly
when: `uart_init` when bytes are queued, `write_mailbox` when mailbox 0 is full,
and `read_mailbox` while words of other channels keep coming (`CallsReturn` of
`Uart` and of `Mailbox`, `InitReturns`).

### What the violated properties show

* `DrawsInside`: the inclusive loops of `print_rectangle` draw a row and a
  column too many, beyond the last byte of the framebuffer.
* `LedConfigured`: `init_led` changes neither the function nor the pull of pin
  16, because the GPIO functions write to the address that a register holds. The
  LED works if the boot loader has made the pin an output.
* `FindsToken`: `find` looks at every other character from the second on, so
  that a command line with the token is taken for one without.

### What passing properties say that one might not expect

* `GivesUpUnanswered`: a read that times out returns 0xffffffff, or the last
  word of another channel it has popped; never a word of its own channel.
* `CallsReturn` of `Mailbox`: `write_mailbox` waits for room in the mailbox it
  does not write, and hangs while that one is full. `read_mailbox` counts only
  polls of an empty mailbox (`mailbox.c:27-37`), so that it does not "eventually
  give up" (`mailbox.c:23`) while the VideoCore posts on other channels for ever;
  `ReadReturns` and `InitReturns` except exactly that: infinitely many words
  dropped.
* `DrawsBounded`: a failed set-up is drawn in all the same, from address 0 or
  with a pitch of 0, and stays inside what was granted or below the kernel. After
  a successful one the drawing ends where the size in `_screen_width` and
  `_screen_height` says. `framebuffer.c:27-28` calls these the size of the
  allocated frame buffer; but when the last request fails, whose result is ignored
  (`framebuffer.c:391`), they are those of the display there was before, and the
  drawing goes on far past the framebuffer. The bound holds in that case too, and
  says how far.
* `DispatchesShown`: a line that has a bit of its own in the basic pending
  register - the UART's, for one - is dispatched only beside another line of its
  register. Alone it is never served, and `handler_irq` prints "No interrupt
  avaiable" of it; `Served` asks that a line be shown as long as it is raised.
* `BlinkEndsDark`: although the pins are never configured, the LED ends dark. Lit
  as often as asked it has only been if the boot loader left pin 16 an output or
  GPFSEL1 its own address; otherwise never.
* `ModelBacked`: a model other than the first is reported only if the token's
  characters are in the line in this order, except perhaps the last, but they
  need not be together.

### Fairness

* `Devices`: a call into `device.c` goes on (weak fairness of its steps). The
  environment need not call.
* `Uart`, `Console`: the kernel is the only thread and polls, so its steps go
  on; so does the transmitter, which runs on the UART clock. Nobody has to send.
* `Mailbox`, `Framebuffer`: only the ARM's steps are fair. The VideoCore may
  stop at any point, or post for ever, and the properties hold either way.
* `Vprintk`: a conversion goes on. Nobody has to call, and formats may be long.
* `Board`: the kernel runs, and time passes. `Boot`: nothing else runs yet.
* `Irq`: the CPU's steps go on; a handler that calls into `irq.c` again and
  again returns in the end (strong fairness of its return). `Served` assumes in
  its statement that IRQs do not stay masked, that the line's handler stays
  registered, that no line of higher rank is raised for good, and that the line is
  shown to the dispatch while it is raised.

## 4. Proofs

For every value of the constants, under the assumption that each module names.
TLC evaluates it for the values of the runs.

| Assumption | What it asks | Why the code justifies it |
|---|---|---|
| `DevicesAssumption` | 1 to 256 slots | an id is a `u8` |
| `UartAssumption` | a FIFO of at least one byte, buffers whose size a word can count | the PL011; a buffer in memory is smaller than its address space |
| `ConsoleAssumption` | both together, a text and its LF and CR among the line's characters, `UartOps` a driver unlike the two that mean none | `uart_ops` is an object of its own, never `NULL` |
| `MailboxAssumption` | a FIFO of at least one word, what is read is a channel, `Invalid` is no word | 0xffffffff has channel 15, which nobody uses |
| `FramebufferAssumption` | displays narrower than 16384 pixels; the size asked for has 3 rows and 16384 pixels; the VideoCore never allocates at address 0 | `kernel_main` asks for 656 x 416; a row of any display stays below 0x8000, where the kernel begins |
| `VprintkAssumption` | words of at least one bit, an `int` no longer than a `long long`, widths that a word can hold, 0 for none among them | the ARM's 32 and 64 bits; a width is collected in a `u64` |
| `IrqAssumption` | lines 0 to 71, of which 0 to 63 come from the GPU | `irq.h` |
| `BoardAssumption` | a delay and a late poll are together below a turn of the counter; registers hold numbers, GPPUD one of its signals | a turn is 4295 s, `blink` and `kernel_panic` sleep for a second at most; GPPUD has the three signals of `gpio.h` |
| `BootAssumption` | the BSS is a multiple of four words, the variables lie in it and apart, lists are well formed, strings and tokens hold no NUL inside | `kernel.ld` aligns the BSS; C strings |

**`DevicesProofs`**: `TypeCorrect`, `CountCorrect`, `ScanSafe`, `ClientsSafe`,
`CallsSafe`, and `Refinement`, that `Devices` implements `DeviceRegistry`. The
invariant `IInv` adds to the stated ones what makes them inductive: during a
registration the count is below the size and all slots the scan has passed
are valid (so that a scan at the last slot would mean a full table, against
the count), and the ids of the clients are the valid slots, except for the one
being marked.

**`PrintProofs`**, about `Uart`: `UartTypeCorrect`, `SendsInOrder`,
`ReadsInOrder`. `SentInOrder` and `ReadInOrder` are inductive with the types: the
store is guarded by the poll and the transmitter can only make room. The module
extends `Uart` and `Vprintk`, whose names are therefore apart: `PrintSpec` is the
specification of `Vprintk`.

**`PrintProofs`**, about `Vprintk`: `ReadsBack`, `FillsField`, `DigitsFitBuffer`
and `ConversionAdvances`, for words of every size, every width and argument.
`IInv` has a conjunct for each loop of `printNum`. `Digits`: the digits so far are
the remainders of a chain of quotients that begins with the number, and what is
left of the number is the chain's end. Each division takes three bits at least,
as the smallest base is 8, so that there are never more digits than the buffer
holds (`DigitsCounted`). `Filling`: what has been written, with what is still to be
padded and emitted, fills the field, or is the sign and the digits alone where
these are longer. `Text`: what has been written reads as the quotient at which
the digits still to be emitted begin, so that each digit emitted leads one
quotient back in the chain, the last one to the number itself. `Conversions` has
the sign: the word that `-num` wraps to is the magnitude, also of the most
negative number. `Standing` keeps what was printed when the turn is over.

Since the provers cannot instantiate an induction theorem, induction is over a
set: if one that holds 0 and the successors of its members lacked a number, it
would lack a least one (`LeastOf`, `Induction`). That the recursive functions are
defined is proved from `Recursion`: values that each follow from the one before
exist up to any length.

`ConversionAdvances` is the safety part of `ConversionEnds`: every step of a
conversion begins a later phase, or leaves its loop a smaller natural number of
turns. With the fairness of `Convert`, it ends.

**`ConsoleProofs`**: `EchoConserves`, `UsesTheUart`, and `EchoesInOrder`: every
step of the kernel and the hardware beside it is a step of `EchoLine` or leaves
its variables alone, which is all of `Echoes` but the fairness. `EchoConserved`
is not inductive: a character would be lost if `uart_write` were called while it
still has one, or if the id reached no driver. `Control` follows the three
programs together - before the registration nothing is registered and the UART
is off, the registration takes slot 0 and marks it only after `uart_init` has
returned, and from then on the id is that of a slot with the driver - and
`Buffers` says what `text` and `buf` hold in each phase. With `U!SentInOrder` the
script of the `EchoLine` is the wire, the shift register, the FIFO, the text, the
character in hand and the receive FIFO put one after the other, so that a byte
which leaves the shift register is the next one of the script
(`WireFollowsScript`). The text is expanded by a recursive function, `Emitted`;
that it is defined, and gives characters, is proved by the least length for
which it would not be (`EmittedEquation`, `PrintedType`).

**`MailboxProofs`**: `TypeCorrect`, `GivesUpRight`, `NoneIsDropped`. `CallInv`
says that a read has so far seen only words of other channels, has polled no
more often than it may, and goes to the read register only for a word that is
there; hence what is left in `data` when it gives up is not of its channel.
`NoneIsDropped` is about a single read channel, as the kernel has
(`framebuffer.c:225`): with two, a read of one drops the words of the other, by
design. `NoneWantedDropped` pairs each word sent and not returned with its place
in mailbox 0, in order and onto all words of read channels there. It is kept step
by step: a word sent extends the pairing by the last place, a word popped shifts
it, and as the pairing is increasing and onto, the first wanted word of the FIFO
is the next one unread (`Nearer`, `Shifted`).

**`FramebufferProofs`**: `BufferSafe`, `SuccessRight`, `DrawingBounded`.
`BufferInv` has the argument of the first: requests are outstanding in mailbox 1
or with the VideoCore; there is at most one, none while the mailbuffer is filled,
and while there is one the mailbuffer is as it was sent. So when a success or a
pitch is found in it, nothing is outstanding (`AnsweredIsProcessed`), although
the code never looks whether the mailbox answered. `ReplyInv` says that a reply
belongs to the request that awaits it, `FieldsInv` that the static variables hold
what the requests before this one showed and that the cursor is at most one
column and row off the screen, `TouchedInv` how far was drawn in each way
`init_framebuffer` can end. `DrawingBounded` compares rows times pitch with the
size granted, or with where the screen the kernel believes in ends, for every
display and also after the failure that is ignored.

**`IrqProofs`**: `TypeCorrect`, `NotInterrupted`, `CallsAsRegistered`,
`DispatchSound`, `DispatchesOnlyShown`. `IInv` adds that a level which is waiting
is in its own code (so that at most one entry is half written, by the level that
runs), that every other entry pairs a handler with its own parameter, and that the
bit which sent `handler_irq` to a pending register still has a line raised there
that the bit shows. `DispatchesOnlyShown` rests on the last: no line falls between
the two reads, since only a handler makes one fall and none runs then.

**`BoardProofs`**: `TypeCorrect`, `TimerCorrect`, `SleepsRight`, `EndsDark`.
`TimerInv` says that the counter is `ts` plus the time elapsed, modulo a word,
and that no sleep has lasted longer than asked for by more than the time since
its last poll. `FlashInv` follows `blink`: no GPIO call comes in between, so that
pin 16 keeps its function; every flash begins with the latch high and is counted
if the pin is an output, so that the LED is dark at the end and has been lit as
often as asked, or never. `GpioInv` is what the types of the registers need, for
every contents the boot loader leaves: a GPIO function may store to any of the
three registers, but what it stores has nothing in the two bits of GPPUD that was
not there before, so that GPPUD holds one of its three signals and the pads take
no other pull.

**`BootProofs`**, about `Boot`: `BssCleared`, `TagsRight`, `ModelRight`. The
invariants say that everything below `r4` is zero, that the variables hold what
the tags before the current one say, and that a model other than the first was
found in the last command line (`Backed`). `FindBacked` has the reason: when
`find` claims a token, its inner loop has gone on for all characters but the last
(`ClaimsGoOn`, by the least turn at which it could have stopped), and at each of
them it compared one of the string's with the token's.

**`BootProofs`**, about `Memory`: `Translates`, `SupersectionStrays`,
`BaseAligned` and `PaletteFields`, for every memory and every word. `PageSize`,
`Entry` and `Mapped`, which they compare the code with, are the architecture's.
`SupersectionStrays` is the one case in which the code is wrong: it keeps bits
20 to 23 of a supersection's descriptor as if they were part of its base.
`Memory` is only proved.

Only model-checked:

* liveness, which TLAPS does not reach: `CallsReturn` of `Devices`, `Uart` and
  `Mailbox`, `InitReturns`, `ConversionEnds`, `Served`, `MainOrFlashing`,
  `WalkEnds`, and the fairness part of `Echoes`. Of `ConversionEnds` and
  `Echoes` the safety part is proved (`ConversionAdvances`, `EchoesInOrder`).

## 5. Not modelled

* `enable_irq`, `disable_irq`, FIQs, and the exception stubs other than IRQ's.
  The first two store to the address that a register holds (`irq.c:96`) and
  enable nothing; the handlers behind the stubs are empty, FIQs stay masked, and
  no code of the repository installs the vector or calls the interrupt
  controller.
* Pins of 32 and above in `gpio.c`: no caller has one.
* A boot loader's list with a tag of size 0, on which the walk would not end.
* The page table that the boot loader would have to leave at 0x4000: `init_memory`
  is commented out in `kernel_main`, and its effect on the MMU is left out but for
  the base register.
* The value `uart_read` returns: after `while (nbytes--)` it is -1, the value of
  `MSKE_ERR_OPEN`, for every read; `ret` of `Uart` has it, no caller looks.
* Caches and barriers: the accesses are taken to happen as written.
* Spontaneous falling of an interrupt line between the two reads of a dispatch:
  a line falls only by its handler.
* The build files, the SD card script, the font and the firmware images.

## 6. Plan

In this order:

1. `Devices`, `Uart`, `Console` with their abstract specifications and proofs
   (done): the path every character takes.
2. `Mailbox`, `Framebuffer` with proofs (done).
3. `Irq`, `Vprintk` with proofs (done).
4. `Board` with proofs of the timer, the LED and the registers, `Boot` with
   proofs (done).
5. `Memory` with proofs (done).
6. `Exceptions`, once the vector is installed: frames of all stubs on the SVC
   stack, with FIQ inside IRQ.

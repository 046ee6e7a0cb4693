------------------------------- MODULE Board -------------------------------
(* The status LED: the GPIO calls of init_led and uart_init, blink of        *)
(* kernel_main and the loop of kernel_panic, over usleep (src/src/gpio,      *)
(* led, timer, common/panic.c, init/kernel.c).                               *)
(*                                                                           *)
(* The system timer (external) counts microseconds, modulo the size of a     *)
(* word, beside the kernel.  Nothing else sees the GPIO registers, so a call *)
(* into gpio.c is one step; the pads (external) take the pull of GPPUD while *)
(* their bit is set in GPPUDCLK0, and the function of their field in         *)
(* GPFSEL1.  The LED hangs between pin 16 and the supply: low lights it.     *)
EXTENDS Integers, Sequences

CONSTANTS
  WordSize,     \* the counter is modulo this (2^32)
  Ntimes,       \* flashes of blink (3)
  BlinkDelay, PanicDelay,   \* microseconds slept: 1000000 and 250000
  MaxLag,       \* at most so many microseconds pass between two polls
  Fsel1, Pud, Pudclk0   \* what GPFSEL1, GPPUD and GPPUDCLK0 may hold when the
                        \* boot loader is done

ASSUME BoardAssumption ==
  /\ {WordSize, Ntimes, BlinkDelay, PanicDelay, MaxLag} \subseteq Nat
  /\ BlinkDelay + MaxLag < WordSize /\ PanicDelay + MaxLag < WordSize
  /\ Fsel1 \subseteq Nat /\ Pud \subseteq 0 .. 2 /\ Pudclk0 \subseteq Nat

\* GPIO_BASE is 0x20200000.
GPIO_FSEL1 == 538968068
GPIO_PUD   == 538968212
GPIO_PUDCLK0 == 538968216
Registers == {GPIO_FSEL1, GPIO_PUD, GPIO_PUDCLK0}

GPIO_STATUS_LED_PIN == 16
TX_GPIO_PIN  == 14
RCV_GPIO_PIN == 15
Pins == {TX_GPIO_PIN, RCV_GPIO_PIN, GPIO_STATUS_LED_PIN}
OFF    == 0     \* of enum PullUpDown, with DOWN = 1 and UP = 2
OUTPUT == 1     \* of enum GPIO_Funcs
FN0    == 4

VARIABLES
  reg,          \* Registers -> contents
  pull,         \* Pins -> the pull of the pad
  high,         \* whether pin 16's output latch is set
  counter,      \* system_timer->counter_lo
  pc,           \* where kernel_main is
  calls,        \* GPIO calls of init_led or uart_init still to do
  i,            \* of blink
  us, ts,       \* of usleep: its argument, and the counter when it was called
  elapsed,      \* history: microseconds since ts was read
  lag,          \* history: microseconds since usleep last read the counter
  flashes       \* history: times blink has lit the LED

gpio  == <<reg, pull>>
led   == <<high, flashes>>
timer == <<us, ts, elapsed, lag>>
vars  == <<gpio, led, counter, pc, calls, i, timer>>

\* Where kernel_main goes when a usleep there returns.
After == [off |-> "light", on |-> "next", panic_off |-> "panic_light",
          panic_on |-> "panic"]

TypeOK ==
  /\ reg \in [Registers -> Nat]
  /\ pull \in [Pins -> 0 .. 2]
  /\ high \in BOOLEAN
  /\ counter \in 0 .. WordSize - 1
  /\ pc \in {"init_led", "blink", "light", "next", "register", "uart_init", "main",
             "panic", "panic_light"} \cup DOMAIN After
  /\ Len(calls) <= 4
  /\ i \in 0 .. Ntimes
  /\ us \in {BlinkDelay, PanicDelay}
  /\ ts \in 0 .. WordSize - 1
  /\ elapsed \in 0 .. WordSize - 1
  /\ lag \in 0 .. MaxLag
  /\ flashes \in 0 .. Ntimes

Function(pin) == (reg[GPIO_FSEL1] \div 8 ^ (pin % 10)) % 8
Lit == ~high /\ Function(GPIO_STATUS_LED_PIN) = OUTPUT

-----------------------------------------------------------------------------
\* gpio.c

\* mmio_write: an address that is no register's is somewhere in memory.  GPPUD
\* has two bits.
Written(r, address, data) ==
  IF address \in Registers
    THEN [r EXCEPT ![address] = IF address = GPIO_PUD THEN data % 4 ELSE data]
    ELSE r

\* The field of a pin in old set to fn: (old & ~(7 << shift)) | (fn << shift).
WithField(old, pin, fn) ==
  LET unit == 8 ^ (pin % 10)
  IN  old + (fn - ((old \div unit) % 8)) * unit

\* The register is dereferenced first: what is read, and written, is at the
\* address that it holds.
set_gpio_function(pin, fn) ==
  LET address == reg[GPIO_FSEL1]
      old     == IF address \in Registers THEN reg[address] ELSE 0
  IN  /\ reg' = Written(reg, address, WithField(old, pin, fn))
      /\ UNCHANGED pull

\* The pads whose bits are clocked take the control signal; before had the others.
Clocked(r, before) ==
  [p \in Pins |->
     IF (r[GPIO_PUDCLK0] \div 2 ^ p) % 2 = 1 THEN r[GPIO_PUD] ELSE before[p]]

\* Here too, at either end of the clock: *pud_addr is the address.  A clock that
\* the boot loader left on stays on, and clocks all along.
set_gpio_pull_up_down(pin, fn) ==
  LET signal  == Written(reg, GPIO_PUD, fn)
      clock   == Written(signal, signal[GPIO_PUDCLK0], 2 ^ pin)
      removed == Written(clock, GPIO_PUD, OFF)
  IN  /\ pull' = Clocked(removed, Clocked(clock, Clocked(signal, pull)))
      /\ reg' = Written(removed, removed[GPIO_PUDCLK0], 0)

Call(f, pin, value) == [f |-> f, pin |-> pin, value |-> value]

init_led == << Call("pull", GPIO_STATUS_LED_PIN, OFF),
               Call("function", GPIO_STATUS_LED_PIN, OUTPUT) >>

uart_pins == << Call("pull", TX_GPIO_PIN, OFF), Call("pull", RCV_GPIO_PIN, OFF),
                Call("function", TX_GPIO_PIN, FN0), Call("function", RCV_GPIO_PIN, FN0) >>

Init ==
  /\ reg \in [Registers -> Fsel1 \cup Pud \cup Pudclk0]
  /\ reg[GPIO_FSEL1] \in Fsel1 /\ reg[GPIO_PUD] \in Pud /\ reg[GPIO_PUDCLK0] \in Pudclk0
  /\ \E p \in 0 .. 2 : pull = Clocked(reg, [pin \in Pins |-> p])
  /\ high \in BOOLEAN
  /\ counter \in 0 .. WordSize - 1
  /\ pc = "init_led" /\ calls = init_led
  /\ i = 0 /\ us = BlinkDelay /\ ts = 0 /\ elapsed = 0 /\ lag = 0
  /\ flashes = 0

GpioCall ==
  /\ calls # <<>>
  /\ LET c == Head(calls)
     IN  \/ c.f = "pull" /\ set_gpio_pull_up_down(c.pin, c.value)
         \/ c.f = "function" /\ set_gpio_function(c.pin, c.value)
  /\ calls' = Tail(calls)
  /\ UNCHANGED <<led, counter, pc, i, timer>>

GpioDone ==
  /\ calls = <<>>
  /\ \/ pc = "init_led" /\ pc' = "blink"
     \/ pc = "uart_init" /\ pc' = "main"
  /\ UNCHANGED <<gpio, led, counter, calls, i, timer>>

-----------------------------------------------------------------------------
\* timer.c

Asleep == pc \in DOMAIN After

\* One microsecond passes.  A sleep polls before MaxLag of them have passed.
Tick ==
  /\ counter' = IF counter = WordSize - 1 THEN 0 ELSE counter + 1
  /\ \/ Asleep /\ lag < MaxLag /\ lag' = lag + 1 /\ elapsed' = elapsed + 1
     \/ ~Asleep /\ UNCHANGED <<lag, elapsed>>
  /\ UNCHANGED <<gpio, led, pc, calls, i, us, ts>>

\* Unsigned subtraction.
Minus(a, b) == IF a >= b THEN a - b ELSE a - b + WordSize

\* Mutant: the counter is compared with the time of the end.
AwakeAbsolute == counter >= (ts + us) % WordSize

Awake == Minus(counter, ts) >= us

\* usleep(delay): ts is read.
Sleeps(delay) ==
  /\ us' = delay
  /\ ts' = counter
  /\ elapsed' = 0 /\ lag' = 0

\* Mutant: each poll counts from the one before.
PollRestarts ==
  /\ Asleep
  /\ lag' = 0 /\ ts' = counter /\ elapsed' = 0
  /\ pc' = IF Awake THEN After[pc] ELSE pc
  /\ UNCHANGED <<gpio, led, counter, calls, i, us>>

\* A poll of the counter.
Poll ==
  /\ Asleep
  /\ lag' = 0
  /\ pc' = IF Awake THEN After[pc] ELSE pc
  /\ UNCHANGED <<gpio, led, counter, calls, i, us, ts, elapsed>>

-----------------------------------------------------------------------------
\* led.c and its two callers

\* GPIO_SET0 or GPIO_CLR0: these are written as registers.
set_led_state(state) == high' = state

\* Mutant: the loop runs once more.
BlinkOffOnceMore ==
  /\ pc = "blink" /\ i <= Ntimes
  /\ set_led_state(TRUE) /\ Sleeps(BlinkDelay) /\ pc' = "off"
  /\ UNCHANGED <<gpio, flashes, counter, calls, i>>

\* blink: two states, a sleep after each, Ntimes over.
BlinkOff ==
  /\ pc = "blink" /\ i < Ntimes
  /\ set_led_state(TRUE) /\ Sleeps(BlinkDelay) /\ pc' = "off"
  /\ UNCHANGED <<gpio, flashes, counter, calls, i>>

BlinkOn ==
  /\ pc = "light"
  /\ set_led_state(FALSE) /\ Sleeps(BlinkDelay) /\ pc' = "on"
  /\ UNCHANGED <<gpio, counter, calls, i>>
  /\ flashes' = IF ~Lit /\ Lit' THEN flashes + 1 ELSE flashes

BlinkNext ==
  /\ pc = "next"
  /\ i' = i + 1
  /\ pc' = "blink"
  /\ UNCHANGED <<gpio, led, counter, calls, timer>>

\* Mutant: the LED is left as the last flash left it.
BlinkEndLit ==
  /\ pc = "blink" /\ i = Ntimes
  /\ pc' = "register"
  /\ UNCHANGED <<gpio, led, counter, calls, i, timer>>

BlinkEnd ==
  /\ pc = "blink" /\ i = Ntimes
  /\ set_led_state(TRUE)
  /\ pc' = "register"
  /\ UNCHANGED <<gpio, flashes, counter, calls, i, timer>>

\* uart_register: uart_init runs within it, or it fails without.
Register ==
  /\ pc = "register"
  /\ \/ pc' = "uart_init" /\ calls' = uart_pins
     \/ pc' = "panic" /\ UNCHANGED calls
  /\ UNCHANGED <<gpio, led, counter, i, timer>>

PanicOff ==
  /\ pc = "panic"
  /\ set_led_state(TRUE) /\ Sleeps(PanicDelay) /\ pc' = "panic_off"
  /\ UNCHANGED <<gpio, flashes, counter, calls, i>>

PanicOn ==
  /\ pc = "panic_light"
  /\ set_led_state(FALSE) /\ Sleeps(PanicDelay) /\ pc' = "panic_on"
  /\ UNCHANGED <<gpio, flashes, counter, calls, i>>

-----------------------------------------------------------------------------
Kernel ==
  \/ GpioCall \/ GpioDone \/ Poll
  \/ BlinkOff \/ BlinkOn \/ BlinkNext \/ BlinkEnd
  \/ Register \/ PanicOff \/ PanicOn

Next == Kernel \/ Tick

\* The kernel runs on, and so does the timer.
Spec == Init /\ [][Next]_vars /\ WF_vars(Kernel) /\ WF_vars(Tick)

-----------------------------------------------------------------------------
Wakes == Poll /\ pc' # pc

\* usleep lasts as long as it was asked to, and no longer than until the next
\* poll, also when the counter wraps meanwhile (timer.c:9).
SleepsAsAsked == [][Wakes => elapsed \in us .. us + MaxLag]_vars

\* "blink finally always turn off led" (kernel.c:39): after blink the LED is dark,
\* and blink has lit it as often as it was asked to - if its pin is an output by
\* then.  If not, it has never been lit: blink cannot tell, and set_gpio_function
\* seldom makes it one (gpio.c:36; LedConfigured).
BlinkEndsDark ==
  pc = "register" =>
    /\ ~Lit
    /\ flashes = IF Function(GPIO_STATUS_LED_PIN) = OUTPUT THEN Ntimes ELSE 0

\* The LED is set up once kernel_main goes on from init_led: "disable pull up
\* down for pin 16" and "configure pin 16 for an OUTPUT" (led.c:8-12).
LedConfigured ==
  pc # "init_led" => /\ pull[GPIO_STATUS_LED_PIN] = OFF
                     /\ Function(GPIO_STATUS_LED_PIN) = OUTPUT

\* Every sleep ends: the kernel gets to its main loop, or flashes the LED for ever
\* in kernel_panic (timer.c:9, panic.c:5-20).
MainOrFlashing == <>(pc = "main") \/ ([]<>high /\ []<>(~high))
=============================================================================

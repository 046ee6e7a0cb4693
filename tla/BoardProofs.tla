----------------------------- MODULE BoardProofs -----------------------------
(* Proofs about Board: that usleep lasts as long as it was asked to, for     *)
(* every width of the counter, every delay and every distance between two    *)
(* polls that add up to less than the counter's range; that blink ends dark, *)
(* and how often it has lit the LED; and what the GPIO registers and the     *)
(* pads can hold, whatever the boot loader left in GPFSEL1, GPPUD and        *)
(* GPPUDCLK0.                                                                *)
EXTENDS Board, SequenceTheorems, TLAPS

\* While a sleep lasts the counter is ts plus what has elapsed, around the end of
\* its range, and no poll has come later than it should.
TimerInv ==
  /\ counter \in 0 .. WordSize - 1
  /\ ts \in 0 .. WordSize - 1
  /\ us \in {BlinkDelay, PanicDelay}
  /\ elapsed \in Nat
  /\ lag \in 0 .. MaxLag
  /\ Asleep => /\ elapsed <= us + lag
               /\ \/ counter = ts + elapsed
                  \/ counter = ts + elapsed - WordSize

\* Unsigned subtraction gives what has elapsed, whether or not the counter has
\* wrapped since (timer.c:9).
LEMMA MinusElapsed ==
  ASSUME TimerInv, Asleep
  PROVE  Minus(counter, ts) = elapsed
<1>1. us + lag < WordSize
  BY BoardAssumption DEF TimerInv
<1>2. elapsed < WordSize
  BY <1>1, BoardAssumption DEF TimerInv
<1> QED
  BY <1>2, BoardAssumption DEF TimerInv, Minus

\* ts is read, and nothing has elapsed yet.
LEMMA SleepsInv ==
  ASSUME TimerInv, NEW d \in {BlinkDelay, PanicDelay}, Sleeps(d), UNCHANGED counter
  PROVE  TimerInv'
BY BoardAssumption DEF TimerInv, Sleeps

\* The kernel's steps other than the poll leave the timer alone or begin a sleep.
LEMMA OthersInv ==
  ASSUME TimerInv,
         \/ GpioCall \/ GpioDone \/ BlinkNext \/ BlinkEnd \/ Register
         \/ UNCHANGED vars
  PROVE  TimerInv'
<1>1. UNCHANGED <<counter, us, ts, elapsed, lag>>
  BY DEF GpioCall, GpioDone, BlinkNext, BlinkEnd, Register, vars, timer
<1>2. Asleep' => Asleep
  BY DEF GpioCall, GpioDone, BlinkNext, BlinkEnd, Register, vars, Asleep, After
<1> QED
  BY <1>1, <1>2 DEF TimerInv

\* The inductive step.
LEMMA TimerStep == TimerInv /\ [Next]_vars => TimerInv'
<1> SUFFICES ASSUME TimerInv, [Next]_vars
             PROVE  TimerInv'
  OBVIOUS
<1>1. CASE Tick
  <2>1. counter' \in 0 .. WordSize - 1
    <3>1. WordSize \in Nat /\ counter \in 0 .. WordSize - 1
      BY BoardAssumption DEF TimerInv
    <3>2. counter' = IF counter = WordSize - 1 THEN 0 ELSE counter + 1
      BY <1>1 DEF Tick
    <3> QED
      BY <3>1, <3>2
  <2>2. UNCHANGED <<us, ts, pc>> /\ Asleep' = Asleep
    BY <1>1 DEF Tick, Asleep
  <2>3. CASE Asleep
    <3>1. lag < MaxLag /\ lag' = lag + 1 /\ elapsed' = elapsed + 1
      BY <1>1, <2>3 DEF Tick
    <3>2. elapsed' <= us' + lag'
      BY <3>1, <2>2, <2>3, BoardAssumption DEF TimerInv
    <3>3. elapsed < WordSize
      BY <2>3, BoardAssumption DEF TimerInv
    <3>4. counter' = ts' + elapsed' \/ counter' = ts' + elapsed' - WordSize
      BY <1>1, <2>2, <2>3, <3>1, <3>3, BoardAssumption DEF Tick, TimerInv
    <3> QED
      BY <2>1, <2>2, <3>1, <3>2, <3>4, BoardAssumption DEF TimerInv
  <2>4. CASE ~Asleep
    BY <1>1, <2>1, <2>2, <2>4 DEF Tick, TimerInv
  <2> QED
    BY <2>3, <2>4
<1>2. CASE Poll
  <2>1. UNCHANGED <<counter, us, ts, elapsed>> /\ lag' = 0 /\ Asleep
    BY <1>2 DEF Poll
  <2>2. CASE Awake
    <3>1. ~Asleep'
      BY <1>2, <2>2 DEF Poll, Asleep, After
    <3> QED
      BY <2>1, <3>1, BoardAssumption DEF TimerInv
  <2>3. CASE ~Awake
    <3>1. elapsed < us
      BY <2>1, <2>3, MinusElapsed, BoardAssumption DEF Awake, TimerInv
    <3> QED
      BY <2>1, <3>1, BoardAssumption DEF TimerInv
  <2> QED
    BY <2>2, <2>3
<1>3. CASE BlinkOff \/ BlinkOn
  BY <1>3, SleepsInv DEF BlinkOff, BlinkOn
<1>4. CASE PanicOff \/ PanicOn
  BY <1>4, SleepsInv DEF PanicOff, PanicOn
<1> QED
  BY <1>1, <1>2, <1>3, <1>4, OthersInv DEF Next, Kernel

\* The invariant holds throughout (timer.c:5-10).
THEOREM TimerCorrect == Spec => []TimerInv
<1>1. Init => TimerInv
  BY BoardAssumption DEF Init, TimerInv, Asleep, After
<1> QED
  BY <1>1, TimerStep, PTL DEF Spec

\* usleep lasts as long as it was asked to, and no longer than until the next
\* poll, also when the counter wraps meanwhile (timer.c:9).
THEOREM SleepsRight == Spec => SleepsAsAsked
<1>1. TimerInv /\ [Next]_vars => [Wakes => elapsed \in us .. us + MaxLag]_vars
  <2> SUFFICES ASSUME TimerInv, Wakes
               PROVE  elapsed \in us .. us + MaxLag
    OBVIOUS
  <2>1. Asleep /\ Awake
    BY DEF Wakes, Poll
  <2>2. elapsed >= us
    BY <2>1, MinusElapsed DEF Awake
  <2> QED
    BY <2>1, <2>2, BoardAssumption DEF TimerInv
<1> QED
  BY <1>1, TimerCorrect, PTL DEF Spec, SleepsAsAsked

-----------------------------------------------------------------------------
\* blink: how far it is, how often it lit the LED, that every flash begins in the
\* dark, and that no GPIO call changes the function of the pin meanwhile.
InBlink == pc \in {"blink", "off", "light", "on", "next", "register"}

PinWorks   == Function(GPIO_STATUS_LED_PIN) = OUTPUT
Flashed(n) == IF PinWorks THEN n ELSE 0

FlashInv ==
  /\ high \in BOOLEAN
  /\ i \in 0 .. Ntimes /\ flashes \in 0 .. Ntimes
  /\ pc = "init_led" => i = 0 /\ flashes = 0
  /\ InBlink => calls = <<>>
  /\ pc = "blink" => flashes = Flashed(i)
  /\ pc \in {"off", "light"} => high = TRUE /\ i < Ntimes /\ flashes = Flashed(i)
  /\ pc \in {"on", "next"} => i < Ntimes /\ flashes = Flashed(i + 1)
  /\ pc = "register" => high = TRUE /\ flashes = Flashed(Ntimes)
  /\ pc \in {"init_led", "blink", "light", "next", "register", "uart_init", "main",
             "panic", "panic_light", "off", "on", "panic_off", "panic_on"}

\* The registers decide the function of the pin.
LEMMA SamePin == ASSUME UNCHANGED reg PROVE PinWorks' <=> PinWorks
BY DEF PinWorks, Function

LEMMA FlashStep == FlashInv /\ [Next]_vars => FlashInv'
<1> SUFFICES ASSUME FlashInv, [Next]_vars
             PROVE  FlashInv'
  OBVIOUS
<1>0. Ntimes \in Nat
  BY BoardAssumption
<1> USE DEF FlashInv, InBlink, Flashed
<1>1. CASE GpioCall
  <2>1. ~InBlink /\ UNCHANGED <<high, flashes, i, pc>>
    BY <1>1 DEF GpioCall, led
  <2> QED
    BY <2>1
<1>2. CASE Tick \/ UNCHANGED vars
  <2>1. UNCHANGED <<reg, calls, high, flashes, i, pc>>
    BY <1>2 DEF Tick, led, gpio, vars
  <2>2. PinWorks' <=> PinWorks
    BY <2>1, SamePin
  <2> QED
    BY <2>1, <2>2
<1>3. CASE GpioDone \/ Register
  <2>1. UNCHANGED <<reg, high, flashes, i>>
    BY <1>3 DEF GpioDone, Register, led, gpio
  <2>2. PinWorks' <=> PinWorks
    BY <2>1, SamePin
  <2> QED
    BY <1>0, <1>3, <2>1, <2>2 DEF GpioDone, Register
<1>4. CASE Poll
  <2>1. UNCHANGED <<reg, calls, high, flashes, i>>
    BY <1>4 DEF Poll, led, gpio
  <2>2. PinWorks' <=> PinWorks
    BY <2>1, SamePin
  <2> QED
    BY <1>4, <2>1, <2>2 DEF Poll, Asleep, After
<1>5. CASE BlinkOff
  <2>1. PinWorks' <=> PinWorks
    BY <1>5, SamePin DEF BlinkOff, gpio
  <2> QED
    BY <1>0, <1>5, <2>1 DEF BlinkOff, set_led_state
<1>6. CASE BlinkOn
  <2>1. /\ pc = "light" /\ high = TRUE /\ high' = FALSE /\ i' = i /\ pc' = "on"
        /\ UNCHANGED <<reg, calls>>
    BY <1>6 DEF BlinkOn, set_led_state, gpio
  <2>2. PinWorks' <=> PinWorks
    BY <2>1, SamePin
  <2>3. ~Lit /\ (Lit' <=> PinWorks)
    BY <2>1, <2>2 DEF Lit, PinWorks
  <2>4. flashes' = IF PinWorks THEN flashes + 1 ELSE flashes
    BY <1>6, <2>3 DEF BlinkOn
  <2>5. i \in 0 .. Ntimes /\ i < Ntimes /\ i' = i
    BY <2>1
  <2>6. flashes = IF PinWorks THEN i ELSE 0
    BY <2>1
  <2>7. flashes' = IF PinWorks' THEN i' + 1 ELSE 0
    BY <2>2, <2>4, <2>5, <2>6
  <2>8. flashes' \in 0 .. Ntimes
    BY <1>0, <2>5, <2>7
  <2> QED
    BY <2>1, <2>5, <2>7, <2>8
<1>7. CASE BlinkNext
  <2>1. PinWorks' <=> PinWorks
    BY <1>7, SamePin DEF BlinkNext, gpio
  <2> QED
    BY <1>0, <1>7, <2>1 DEF BlinkNext, led
<1>8. CASE BlinkEnd
  <2>1. PinWorks' <=> PinWorks
    BY <1>8, SamePin DEF BlinkEnd, gpio
  <2> QED
    BY <1>0, <1>8, <2>1 DEF BlinkEnd, set_led_state
<1>9. CASE PanicOff \/ PanicOn
  <2>1. /\ high' \in BOOLEAN /\ UNCHANGED <<flashes, i>>
        /\ pc' \in {"panic_off", "panic_on"}
    BY <1>9 DEF PanicOff, PanicOn, set_led_state
  <2> QED
    BY <2>1
<1> QED
  BY <1>1, <1>2, <1>3, <1>4, <1>5, <1>6, <1>7, <1>8, <1>9 DEF Next, Kernel

LEMMA FlashesCounted == Spec => []FlashInv
<1>1. Init => FlashInv
  BY BoardAssumption DEF Init, FlashInv, InBlink
<1> QED
  BY <1>1, FlashStep, PTL DEF Spec

\* After blink the LED is dark, and blink has lit it as often as it was asked to
\* if its pin is an output, and never if it is not (kernel.c:39).
THEOREM EndsDark == Spec => []BlinkEndsDark
<1>1. FlashInv => BlinkEndsDark
  BY DEF FlashInv, BlinkEndsDark, Lit, Flashed, PinWorks
<1> QED
  BY <1>1, FlashesCounted, PTL

-----------------------------------------------------------------------------
\* The calls into gpio.c, and what they leave.  A store may go to any of the three
\* registers, or to none, by what is in them; but what is stored has nothing in
\* the two bits of GPPUD that was not there before, so that its contents remain
\* one of the three signals, which is all that a pad can take.
GpioCalls ==
  {c \in [f : {"pull", "function"}, pin : Pins, value : {OFF, OUTPUT, FN0}] :
     c.f = "pull" => c.value = OFF}

RegistersTyped(r) == r \in [Registers -> Nat] /\ r[GPIO_PUD] \in 0 .. 2

GpioInv ==
  /\ RegistersTyped(reg)
  /\ pull \in [Pins -> 0 .. 2]
  /\ calls \in Seq(GpioCalls) /\ Len(calls) <= 4

\* The three registers.
LEMMA Three ==
  /\ {GPIO_FSEL1, GPIO_PUD, GPIO_PUDCLK0} \subseteq Registers
  /\ GPIO_PUD # GPIO_PUDCLK0 /\ GPIO_PUD # GPIO_FSEL1
BY DEF Registers, GPIO_FSEL1, GPIO_PUD, GPIO_PUDCLK0

\* A store leaves them typed wherever it goes.
LEMMA WrittenTyped ==
  ASSUME NEW r, RegistersTyped(r), NEW a, NEW d \in Nat,
         a = GPIO_PUD => d % 4 \in 0 .. 2
  PROVE  RegistersTyped(Written(r, a, d))
<1>1. d % 4 \in Nat
  OBVIOUS
<1> QED
  BY <1>1, Three DEF RegistersTyped, Written

\* The pads take what is in GPPUD, or keep what they have.
LEMMA ClockedTyped ==
  ASSUME NEW r, RegistersTyped(r), NEW before \in [Pins -> 0 .. 2]
  PROVE  Clocked(r, before) \in [Pins -> 0 .. 2]
BY DEF RegistersTyped, Clocked

\* A field of a pin in use is above the low 12 bits.
SameLow(a, b) == a % 4096 = b % 4096

LEMMA FieldSet ==
  ASSUME NEW old \in Nat, NEW pin \in Pins, NEW fn \in {OFF, OUTPUT, FN0}
  PROVE  WithField(old, pin, fn) \in Nat /\ SameLow(WithField(old, pin, fn), old)
<1> USE DEF Pins, TX_GPIO_PIN, RCV_GPIO_PIN, GPIO_STATUS_LED_PIN, OUTPUT, FN0, OFF
<1>2. ASSUME NEW unit \in {4096, 32768, 262144}
      PROVE  /\ old + (fn - ((old \div unit) % 8)) * unit \in Nat
             /\ (old + (fn - ((old \div unit) % 8)) * unit) % 4096 = old % 4096
  <2>1. CASE unit = 4096
    BY <2>1
  <2>2. CASE unit = 32768
    BY <2>2
  <2>3. CASE unit = 262144
    BY <2>3
  <2> QED
    BY <2>1, <2>2, <2>3
<1>3. 8 ^ (pin % 10) \in {4096, 32768, 262144}
  <2> DEFINE unit(p) == 8 ^ (p % 10)
  <2>1. unit(14) = 4096 /\ unit(15) = 32768 /\ unit(16) = 262144
    OBVIOUS
  <2> HIDE DEF unit
  <2>2. unit(pin) \in {4096, 32768, 262144}
    BY <2>1
  <2> QED
    BY <2>2 DEF unit
<1> QED
  BY <1>2, <1>3 DEF WithField, SameLow

LEMMA GpioStep == GpioInv /\ GpioCall => GpioInv'
<1> SUFFICES ASSUME GpioInv, GpioCall
             PROVE  GpioInv'
  OBVIOUS
<1> DEFINE c == Head(calls)
<1>1. /\ c \in GpioCalls
      /\ c.f \in {"pull", "function"} /\ c.pin \in Pins /\ c.value \in {OFF, OUTPUT, FN0}
      /\ c.f = "pull" => c.value = OFF
      /\ calls' \in Seq(GpioCalls) /\ Len(calls') <= 4
  <2>1. c \in GpioCalls /\ calls' \in Seq(GpioCalls) /\ Len(calls') = Len(calls) - 1
    BY HeadTailProperties DEF GpioInv, GpioCall
  <2>2. Len(calls) \in Nat /\ Len(calls) <= 4
    BY LenProperties DEF GpioInv
  <2> HIDE DEF c
  <2> QED
    BY <2>1, <2>2 DEF GpioCalls
<1> HIDE DEF c
<1>2. RegistersTyped(reg) /\ pull \in [Pins -> 0 .. 2]
  BY DEF GpioInv
<1>3. CASE c.f = "pull" /\ set_gpio_pull_up_down(c.pin, c.value)
  <2> DEFINE signal == Written(reg, GPIO_PUD, c.value)
             clock == Written(signal, signal[GPIO_PUDCLK0], 2 ^ c.pin)
             removed == Written(clock, GPIO_PUD, OFF)
  <2>1. RegistersTyped(signal)
    BY <1>1, <1>2, <1>3, WrittenTyped DEF OFF
  <2>2. RegistersTyped(clock)
    <3>1. 2 ^ c.pin \in Nat /\ (2 ^ c.pin) % 4 \in 0 .. 2
      <4> DEFINE bit(p) == 2 ^ p
      <4>1. bit(14) = 16384 /\ bit(15) = 32768 /\ bit(16) = 65536
        OBVIOUS
      <4> HIDE DEF bit
      <4>2. bit(c.pin) \in Nat /\ bit(c.pin) % 4 \in 0 .. 2
        BY <1>1, <4>1 DEF Pins, TX_GPIO_PIN, RCV_GPIO_PIN, GPIO_STATUS_LED_PIN
      <4> QED
        BY <4>2 DEF bit
    <3> HIDE DEF signal
    <3> QED
      BY <2>1, <3>1, WrittenTyped
  <2>3. RegistersTyped(removed)
    <3> HIDE DEF clock
    <3> QED
      BY <2>2, WrittenTyped DEF OFF
  <2>4. /\ pull' = Clocked(removed, Clocked(clock, Clocked(signal, pull)))
        /\ reg' = Written(removed, removed[GPIO_PUDCLK0], 0)
    BY <1>3 DEF set_gpio_pull_up_down
  <2> HIDE DEF signal, clock, removed
  <2>5. RegistersTyped(reg')
    BY <2>3, <2>4, WrittenTyped
  <2>6. pull' \in [Pins -> 0 .. 2]
    BY <1>2, <2>1, <2>2, <2>3, <2>4, ClockedTyped
  <2> QED
    BY <1>1, <2>5, <2>6 DEF GpioInv, RegistersTyped
<1>4. CASE c.f = "function" /\ set_gpio_function(c.pin, c.value)
  <2> DEFINE address == reg[GPIO_FSEL1]
             old == IF address \in Registers THEN reg[address] ELSE 0
             new == WithField(old, c.pin, c.value)
  <2>1. old \in Nat /\ (address = GPIO_PUD => old \in 0 .. 2)
    BY <1>2, Three DEF RegistersTyped
  <2>2. reg' = Written(reg, address, new) /\ pull' = pull
    BY <1>4 DEF set_gpio_function
  <2> HIDE DEF address, old
  <2>3. new \in Nat /\ new % 4096 = old % 4096
    <3>1. old \in Nat /\ c.pin \in Pins /\ c.value \in {OFF, OUTPUT, FN0}
      BY <1>1, <2>1
    <3>2. new \in Nat /\ SameLow(new, old)
      BY <3>1, FieldSet
    <3> QED
      BY <3>2 DEF SameLow
  <2> HIDE DEF new
  <2>4. address = GPIO_PUD => new % 4 \in 0 .. 2
    BY <2>1, <2>3
  <2>5. RegistersTyped(reg')
    BY <1>2, <2>2, <2>3, <2>4, WrittenTyped
  <2> QED
    BY <1>1, <1>2, <2>2, <2>5 DEF GpioInv, RegistersTyped
<1> QED
  BY <1>3, <1>4 DEF GpioCall, c

\* The two lists of calls.
LEMMA CallLists ==
  /\ init_led \in Seq(GpioCalls) /\ Len(init_led) = 2
  /\ uart_pins \in Seq(GpioCalls) /\ Len(uart_pins) = 4
<1>1. /\ Call("pull", GPIO_STATUS_LED_PIN, OFF) \in GpioCalls
      /\ Call("function", GPIO_STATUS_LED_PIN, OUTPUT) \in GpioCalls
      /\ Call("pull", TX_GPIO_PIN, OFF) \in GpioCalls
      /\ Call("pull", RCV_GPIO_PIN, OFF) \in GpioCalls
      /\ Call("function", TX_GPIO_PIN, FN0) \in GpioCalls
      /\ Call("function", RCV_GPIO_PIN, FN0) \in GpioCalls
  BY DEF Call, GpioCalls, Pins
<1> QED
  BY <1>1 DEF init_led, uart_pins

LEMMA GpioKept == Spec => []GpioInv
<1>1. Init => GpioInv
  <2> SUFFICES ASSUME Init
               PROVE  GpioInv
    OBVIOUS
  <2>1. RegistersTyped(reg)
    <3>1. Fsel1 \cup Pud \cup Pudclk0 \subseteq Nat
      <4>1. Pud \subseteq Nat
        BY BoardAssumption
      <4> QED
        BY <4>1, BoardAssumption
    <3>2. reg \in [Registers -> Nat]
      BY <3>1 DEF Init
    <3>3. reg[GPIO_PUD] \in 0 .. 2
      BY BoardAssumption DEF Init
    <3> QED
      BY <3>2, <3>3 DEF RegistersTyped
  <2>2. pull \in [Pins -> 0 .. 2]
    <3>1. PICK p \in 0 .. 2 : pull = Clocked(reg, [pin \in Pins |-> p])
      BY DEF Init
    <3>2. [pin \in Pins |-> p] \in [Pins -> 0 .. 2]
      OBVIOUS
    <3> QED
      BY <2>1, <3>1, <3>2, ClockedTyped
  <2>4. calls \in Seq(GpioCalls) /\ Len(calls) <= 4
    BY CallLists DEF Init
  <2> QED
    BY <2>1, <2>2, <2>4 DEF GpioInv
<1>2. GpioInv /\ [Next]_vars => GpioInv'
  <2> SUFFICES ASSUME GpioInv, [Next]_vars
               PROVE  GpioInv'
    OBVIOUS
  <2>1. CASE GpioCall
    BY <2>1, GpioStep
  <2>2. CASE Register
    <3>1. UNCHANGED <<reg, pull>> /\ calls' \in {calls, uart_pins}
      BY <2>2 DEF Register, gpio
    <3>2. calls' \in Seq(GpioCalls) /\ Len(calls') <= 4
      <4>1. CASE calls' = calls
        BY <4>1 DEF GpioInv
      <4>2. CASE calls' = uart_pins
        BY <4>2, CallLists
      <4> QED
        BY <3>1, <4>1, <4>2
    <3> QED
      BY <3>1, <3>2 DEF GpioInv, RegistersTyped
  <2>3. CASE ~GpioCall /\ ~Register
    <3>1. UNCHANGED <<reg, pull, calls>>
      BY <2>3 DEF Next, Kernel, Tick, GpioDone, Poll, BlinkOff, BlinkOn, BlinkNext,
           BlinkEnd, PanicOff, PanicOn, vars, gpio
    <3> QED
      BY <3>1 DEF GpioInv, RegistersTyped
  <2> QED
    BY <2>1, <2>2, <2>3
<1> QED
  BY <1>1, <1>2, PTL DEF Spec

-----------------------------------------------------------------------------
\* What elapsed since the last sleep began is within a word.
ElapsedInv == elapsed <= us + MaxLag

LEMMA ElapsedStep == TimerInv /\ ElapsedInv /\ [Next]_vars => ElapsedInv'
<1> SUFFICES ASSUME TimerInv, ElapsedInv, [Next]_vars
             PROVE  ElapsedInv'
  OBVIOUS
<1>1. TimerInv'
  BY TimerStep
<1>2. {BlinkDelay, PanicDelay, MaxLag} \subseteq Nat
  BY BoardAssumption
<1>3. CASE Tick
  <2>1. CASE Asleep
    <3>1. Asleep' /\ elapsed' <= us' + lag' /\ lag' <= MaxLag /\ lag' \in Nat
      BY <1>1, <1>3, <2>1 DEF Tick, Asleep, TimerInv
    <3> QED
      BY <1>1, <1>2, <3>1 DEF TimerInv, ElapsedInv
  <2>2. CASE ~Asleep
    BY <1>3, <2>2 DEF Tick, ElapsedInv
  <2> QED
    BY <2>1, <2>2
<1>4. CASE BlinkOff \/ BlinkOn \/ PanicOff \/ PanicOn
  <2>1. elapsed' = 0
    BY <1>4 DEF BlinkOff, BlinkOn, PanicOff, PanicOn, Sleeps
  <2> QED
    BY <1>1, <1>2, <2>1 DEF TimerInv, ElapsedInv
<1>5. CASE GpioCall \/ GpioDone \/ Poll \/ BlinkNext \/ BlinkEnd \/ Register
           \/ UNCHANGED vars
  <2>1. UNCHANGED <<us, elapsed>>
    BY <1>5 DEF GpioCall, GpioDone, Poll, BlinkNext, BlinkEnd, Register, vars, timer
  <2> QED
    BY <2>1 DEF ElapsedInv
<1> QED
  BY <1>3, <1>4, <1>5 DEF Next, Kernel

\* The state keeps its types: the registers hold numbers, whatever the calls that
\* store at the address they find in a register do to them, the pads one of three
\* pulls, and the history of the sleep stays within a word.
THEOREM TypeCorrect == Spec => []TypeOK
<1>1. Init => ElapsedInv
  BY BoardAssumption DEF Init, ElapsedInv
<1>2. Spec => []ElapsedInv
  BY <1>1, ElapsedStep, TimerCorrect, PTL DEF Spec
<1>3. TimerInv /\ ElapsedInv /\ FlashInv /\ GpioInv => TypeOK
  <2> SUFFICES ASSUME TimerInv, ElapsedInv, FlashInv, GpioInv
               PROVE  TypeOK
    OBVIOUS
  <2>1. {WordSize, Ntimes, BlinkDelay, PanicDelay, MaxLag} \subseteq Nat
        /\ BlinkDelay + MaxLag < WordSize /\ PanicDelay + MaxLag < WordSize
    BY BoardAssumption
  <2>2. elapsed \in 0 .. WordSize - 1
    BY <2>1 DEF TimerInv, ElapsedInv
  <2>3. flashes \in 0 .. Ntimes
    BY DEF FlashInv
  <2>4. DOMAIN After = {"off", "on", "panic_off", "panic_on"}
    BY DEF After
  <2> QED
    BY <2>2, <2>3, <2>4 DEF TypeOK, TimerInv, FlashInv, GpioInv, RegistersTyped
<1> QED
  BY <1>2, <1>3, TimerCorrect, FlashesCounted, GpioKept, PTL
=============================================================================

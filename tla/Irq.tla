-------------------------------- MODULE Irq --------------------------------
(* The interrupt dispatch of src/src/irq/irq.c, entered through stub_irq of  *)
(* src/src/init/entry.S.                                                     *)
(*                                                                           *)
(* Level 0 is the thread that set the controller up; level n + 1 is a handler*)
(* that interrupted level n.  Each level is somewhere in irq.c or in its own *)
(* code ("client").  The CPU runs the innermost level, until an interrupt is *)
(* pending and not masked: then it can do nothing but take it.               *)
(*                                                                           *)
(* The controller (external: src/doc/BCM2835-ARM-Peripherals.pdf, chapter 7) *)
(* shows the raised lines in three registers.  A registered handler begins   *)
(* by quieting the device that raised its line.                              *)
EXTENDS Integers

CONSTANTS
  Lines,        \* the lines enabled in the controller
  Direct,       \* the lines of 0..63 that have a bit of their own, 10 to 20, in
                \* the basic pending register, and do not set its bits 8 and 9
  Handlers,     \* functions that can be registered, each with its own parameter
  Default,      \* default_irq_handler
  Null,         \* the NULL the table is born with, and the default's parameter
  Elsewhere,    \* an index outside the table
  MaxLevel      \* bound: interrupts nested in each other

ASSUME IrqAssumption ==
  /\ Lines \subseteq 0 .. 71
  /\ Direct \subseteq 0 .. 63
  /\ Default # Null /\ Handlers \cap {Default, Null} = {}
  /\ Elsewhere \notin Lines
  /\ MaxLevel \in Nat

VARIABLES
  raised,       \* the lines that devices hold raised
  masked,       \* the I bit of CPSR
  fn,           \* line -> irq_fn_handler of mske_irq_vector_table
  param,        \* line -> param of it; a handler stands for its parameter
  level,        \* the level that runs
  at,           \* level -> where it is
  nirq,         \* level -> the line it registers or serves
  call          \* level -> the function it registers, or was called with, and
                \* the parameter: [fn, param]

table == <<fn, param>>
vars  == <<raised, masked, table, level, at, nirq, call>>

Levels == 0 .. MaxLevel
NoCall == [fn |-> Null, param |-> Null]
Ats == {"init", "client", "store_fn", "store_param", "enable",
        "basic", "pending1", "pending2", "dispatch", "handler"}

TypeOK ==
  /\ raised \subseteq Lines
  /\ masked \in BOOLEAN
  /\ fn \in [Lines -> Handlers \cup {Default, Null}]
  /\ param \in [Lines -> Handlers \cup {Null}]
  /\ level \in Levels
  /\ at \in [Levels -> Ats]
  /\ nirq \in [Levels -> Lines \cup {Elsewhere}]
  /\ call \in [Levels -> [fn : Handlers \cup {Default, Null},
                          param : Handlers \cup {Null}]]

\* At reset IRQs are masked.
Init ==
  /\ raised = {}
  /\ masked = TRUE
  /\ fn = [v \in Lines |-> Null]
  /\ param = [v \in Lines |-> Null]
  /\ level = 0
  /\ at = [n \in Levels |-> IF n = 0 THEN "init" ELSE "client"]
  /\ nirq = [n \in Levels |-> Elsewhere]
  /\ call = [n \in Levels |-> NoCall]

-----------------------------------------------------------------------------
\* The controller and the CPU.

Raise(v) ==
  /\ v \notin raised
  /\ raised' = raised \cup {v}
  /\ UNCHANGED <<masked, table, level, at, nirq, call>>

\* An interrupt the CPU is about to take.
Interrupted == raised # {} /\ ~masked /\ level < MaxLevel

\* stub_irq saves all registers and the CPSR, masked, and calls handler_irq.
TakeIrq ==
  /\ Interrupted
  /\ masked' = TRUE
  /\ level' = level + 1
  /\ at' = [at EXCEPT ![level + 1] = "basic"]
  /\ UNCHANGED <<raised, table, nirq, call>>

\* The innermost level goes from a to b.
Runs(a, b) ==
  /\ ~Interrupted
  /\ at[level] = a
  /\ at' = [at EXCEPT ![level] = b]

\* It returns through restoreall: the CPSR is that of the level it interrupted,
\* which had IRQs unmasked, whatever the handler did to the mask.
ReturnFrom(a) ==
  /\ ~Interrupted
  /\ at[level] = a /\ level > 0
  /\ masked' = FALSE
  /\ level' = level - 1
  /\ nirq' = [nirq EXCEPT ![level] = Elsewhere]
  /\ call' = [call EXCEPT ![level] = NoCall]
  /\ UNCHANGED <<raised, table, at>>

-----------------------------------------------------------------------------
\* interrupt_controller_init, once and before anything else: nothing can see a
\* table that is half way, so it is one step.

\* Mutant: the loop leaves the last entry out.
ControllerInitShort ==
  /\ Runs("init", "client")
  /\ fn' = [v \in Lines |-> IF \A w \in Lines : w <= v THEN fn[v] ELSE Default]
  /\ param' = [v \in Lines |-> Null]
  /\ UNCHANGED <<raised, masked, level, nirq, call>>

ControllerInit ==
  /\ Runs("init", "client")
  /\ fn' = [v \in Lines |-> Default]
  /\ param' = [v \in Lines |-> Null]
  /\ UNCHANGED <<raised, masked, level, nirq, call>>

-----------------------------------------------------------------------------
\* register_interrupt, enable_irqs and disable_irqs

\* Mutant: IRQs are not masked while the entry is written.
RegisterUnmasked(v, h) ==
  /\ Runs("client", "store_fn")
  /\ nirq' = [nirq EXCEPT ![level] = v]
  /\ call' = [call EXCEPT ![level] = [fn |-> h, param |-> h]]
  /\ UNCHANGED <<raised, masked, table, level>>

\* irq_disable() overwrites r0 without telling the compiler, and r0 is where
\* nirq is passed: afterwards nirq is what it was, or the CPSR, far too large
\* for an index - whatever the compiler made of it.
Register(v, h) ==
  /\ Runs("client", "store_fn")
  /\ masked' = TRUE
  /\ \E n \in {v, Elsewhere} : nirq' = [nirq EXCEPT ![level] = n]
  /\ call' = [call EXCEPT ![level] = [fn |-> h, param |-> h]]
  /\ UNCHANGED <<raised, table, level>>

\* An entry of the table changes, or memory outside it.
Stored(t, x) == IF nirq[level] = Elsewhere THEN t ELSE [t EXCEPT ![nirq[level]] = x]

StoreFn ==
  /\ Runs("store_fn", "store_param")
  /\ fn' = Stored(fn, call[level].fn)
  /\ UNCHANGED <<raised, masked, param, level, nirq, call>>

StoreParam ==
  /\ Runs("store_param", "enable")
  /\ param' = Stored(param, call[level].param)
  /\ UNCHANGED <<raised, masked, fn, level, nirq, call>>

\* irq_enable(), also when IRQs were masked before the call.
RegisterDone ==
  /\ Runs("enable", "client")
  /\ masked' = FALSE
  /\ UNCHANGED <<raised, table, level, nirq, call>>

SetMask(m) ==
  /\ Runs("client", "client")
  /\ masked # m
  /\ masked' = m
  /\ UNCHANGED <<raised, table, level, nirq, call>>

-----------------------------------------------------------------------------
\* handler_irq

\* The lines a register shows, by the number of its least significant one:
\* nirq = base + 31 - clz(status & -status).
Pending(base) == {b \in 0 .. 31 : base + b \in raised}
Lowest(S)     == CHOOSE b \in S : \A c \in S : b <= c

\* Mutant: the most significant bit is served.
ServesHighest(base) == base + CHOOSE b \in Pending(base) : \A c \in Pending(base) : c <= b

\* Mutant: the leading zeros are subtracted from one too few.
ServesOneBelow(base) == base - 1 + Lowest(Pending(base))

Serves(base) == base + Lowest(Pending(base))

\* Bits 0 to 7, 8 and 9 of IRQ_BASIC_PENDING.
BasicLines == Pending(64) # {}
Bit8 == \E v \in raised \ Direct : v < 32
Bit9 == \E v \in raised \ Direct : v \in 32 .. 63

ReadBasic ==
  /\ BasicLines
  /\ Runs("basic", "dispatch")
  /\ nirq' = [nirq EXCEPT ![level] = Serves(64)]
  /\ UNCHANGED <<raised, masked, table, level, call>>

\* Mutant: what is not in the first register is taken to be in the second.
ReadBasicBitsElse ==
  /\ ~BasicLines
  /\ \/ Bit8 /\ Runs("basic", "pending1")
     \/ ~Bit8 /\ Runs("basic", "pending2")
  /\ UNCHANGED <<raised, masked, table, level, nirq, call>>

ReadBasicBits ==
  /\ ~BasicLines
  /\ \/ Bit8 /\ Runs("basic", "pending1")
     \/ ~Bit8 /\ Bit9 /\ Runs("basic", "pending2")
  /\ UNCHANGED <<raised, masked, table, level, nirq, call>>

\* "No interrupt avaiable": bits 10 to 20 are not looked at.
NothingPending ==
  /\ ~BasicLines /\ ~Bit8 /\ ~Bit9
  /\ ReturnFrom("basic")

ReadPending ==
  /\ \/ Runs("pending1", "dispatch") /\ nirq' = [nirq EXCEPT ![level] = Serves(0)]
     \/ Runs("pending2", "dispatch") /\ nirq' = [nirq EXCEPT ![level] = Serves(32)]
  /\ UNCHANGED <<raised, masked, table, level, call>>

\* The call through the table.
Dispatch ==
  /\ Runs("dispatch", "handler")
  /\ LET v == nirq[level]
     IN  call' = [call EXCEPT ![level] = [fn |-> fn[v], param |-> param[v]]]
  /\ UNCHANGED <<raised, masked, table, level, nirq>>

\* A handler quiets its device and may then use the controller itself;
\* default_irq_handler does nothing.
Quiet ==
  /\ call[level].fn \in Handlers
  /\ Runs("handler", "client")
  /\ raised' = raised \ {nirq[level]}
  /\ UNCHANGED <<masked, table, level, nirq, call>>

DefaultReturns == call[level].fn = Default /\ ReturnFrom("handler")
HandlerReturns == ReturnFrom("client")

-----------------------------------------------------------------------------
\* What a level that was called does until it returns.
CpuStep ==
  \/ ControllerInit
  \/ TakeIrq
  \/ StoreFn \/ StoreParam \/ RegisterDone
  \/ ReadBasic \/ ReadBasicBits \/ NothingPending \/ ReadPending
  \/ Dispatch \/ Quiet \/ DefaultReturns \/ HandlerReturns

Next ==
  \/ CpuStep
  \/ \E v \in Lines : Raise(v)
  \/ \E v \in Lines, h \in Handlers : Register(v, h)
  \/ \E m \in BOOLEAN : SetMask(m)

\* The CPU runs and takes its interrupts, calls into irq.c return, and so do
\* handlers: each after finitely many calls of its own.
Spec == Init /\ [][Next]_vars /\ WF_vars(CpuStep) /\ SF_vars(HandlerReturns)

-----------------------------------------------------------------------------
InEntry == {"init", "store_fn", "store_param", "enable",
            "basic", "pending1", "pending2", "dispatch", "handler"}

\* No interrupt comes between the two stores of an entry, between the reads of
\* the pending registers, or between a dispatch and its handler, even when
\* handlers register handlers (irq.c:66-69, 120-152; entry.S:51).
EntryNotInterrupted ==
  /\ at[level] \in InEntry => masked
  /\ \A n \in Levels : n < level => at[n] = "client"

\* A handler is called with the parameter it was registered with, and never
\* through a NULL entry (irq.c:57-58, 67-68, 152).
CalledAsRegistered ==
  at[level] = "handler" =>
    \/ call[level].fn = Default
    \/ call[level].fn \in Handlers /\ call[level].param = call[level].fn

\* The line that is dispatched is one that is raised: two registers are read to
\* find it, and other lines rise in between (irq.c:120-149).
DispatchesRaised ==
  at[level] \in {"dispatch", "handler"} => nirq[level] \in raised

\* The dispatch gets to see the register of a line: it is the basic one, or bit 8
\* or 9 is set, by this line or another (irq.c:123-138).
Shown(v) ==
  \/ v > 63
  \/ \E w \in raised \ Direct : w < 64 /\ (w < 32 <=> v < 32)

\* The line that is dispatched is one of a register that bits 0 to 9 of the basic
\* one show, until its handler starts (irq.c:123-152).  A line with a bit of its
\* own, 10 to 20, is therefore served beside another of its register at best, and
\* never alone: "No interrupt avaiable" (irq.c:141) is then said of a line that is
\* raised, and stays so.
DispatchesShown == at[level] \in {"dispatch", "handler"} => Shown(nirq[level])

\* A line whose handler is registered and that no line of a higher rank keeps
\* out is served, if IRQs are not masked for ever (irq.c:123-152), and if it is
\* shown as long as it is raised: a line with a bit of its own is not, unless one
\* of its register without is raised as well.
Rank(v) == IF v > 63 THEN v - 72 ELSE v

Served ==
  \A v \in Lines :
    ( /\ []<>(~masked)
      /\ <>[](fn[v] \in Handlers)
      /\ <>[](\A w \in raised : Rank(w) >= Rank(v))
      /\ <>[](v \in raised => Shown(v)) )
    => []<>(v \notin raised)
=============================================================================

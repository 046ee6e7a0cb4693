----------------------------- MODULE IrqProofs -----------------------------
(* Proofs about Irq, for any lines, any handlers and any depth of nesting.   *)
EXTENDS Irq, WellFoundedInduction, TLAPS

\* What a call has found or prepared so far.
Progress ==
  /\ at[level] = "pending1" => Bit8
  /\ at[level] = "pending2" => Bit9
  /\ at[level] \in {"store_fn", "store_param"} =>
       call[level].fn \in Handlers /\ call[level].param = call[level].fn

\* Once set up, an entry of the table pairs a handler with its parameter, but
\* for the entry that is half written; nobody is interrupted at that point.
HalfWritten(v) == at[level] = "store_param" /\ nirq[level] = v

TableCorrect ==
  at[0] # "init" =>
    \A v \in Lines :
      /\ fn[v] \in Handlers \cup {Default}
      /\ HalfWritten(v) => fn[v] = call[level].fn
      /\ ~HalfWritten(v) => fn[v] = Default \/ param[v] = fn[v]

IInv ==
  /\ TypeOK
  /\ EntryNotInterrupted
  /\ Progress
  /\ TableCorrect
  /\ CalledAsRegistered
  /\ DispatchesRaised
  /\ DispatchesShown

-----------------------------------------------------------------------------
\* A set of bits that is not empty has a least one.
LEMMA LowestBit ==
  ASSUME NEW S \in SUBSET (0 .. 31), S # {}
  PROVE  Lowest(S) \in S
<1>1. S \subseteq Nat
  OBVIOUS
<1>2. \E x \in S : \A y \in S : ~ (<<y, x>> \in OpToRel(<, Nat))
  BY <1>1, NatLessThanWellFounded, WFMin
<1>3. ASSUME NEW x \in S, NEW y \in S, ~ (<<y, x>> \in OpToRel(<, Nat))
      PROVE  x <= y
  <2>1. <<y, x>> \in Nat \X Nat /\ <<y, x>>[1] = y /\ <<y, x>>[2] = x
    BY <1>1
  <2>2. ~ (y < x)
    BY <1>3, <2>1 DEF OpToRel
  <2>3. QED BY <1>1, <2>2
<1>4. QED BY <1>2, <1>3 DEF Lowest

\* The line found in a register that shows one is raised (irq.c:145-149).
LEMMA ServesRaised ==
  ASSUME NEW base \in {0, 32, 64}, Pending(base) # {}
  PROVE  Serves(base) \in raised
<1>1. Lowest(Pending(base)) \in Pending(base)
  BY LowestBit DEF Pending
<1>2. QED BY <1>1 DEF Serves, Pending

\* It is one of the 32 that register shows.
LEMMA ServesInRegister ==
  ASSUME NEW base \in {0, 32, 64}, Pending(base) # {}
  PROVE  Serves(base) \in base .. base + 31
<1>1. Lowest(Pending(base)) \in 0 .. 31
  BY LowestBit DEF Pending
<1>2. QED BY <1>1 DEF Serves

\* The bit that led to its register, or the register itself, shows it.
LEMMA ServesShown ==
  ASSUME TypeOK, NEW base \in {0, 32, 64}, Pending(base) # {},
         base = 0 => Bit8, base = 32 => Bit9
  PROVE  Shown(Serves(base))
<1>1. Serves(base) \in base .. base + 31
  BY ServesInRegister
<1>2. CASE base = 64
  BY <1>1, <1>2 DEF Shown
<1>3. CASE base = 0
  <2>1. PICK w \in raised \ Direct : w < 32
    BY <1>3 DEF Bit8
  <2>2. w \in 0 .. 71
    BY IrqAssumption DEF TypeOK
  <2>3. QED BY <1>1, <1>3, <2>1, <2>2 DEF Shown
<1>4. CASE base = 32
  <2>1. PICK w \in raised \ Direct : w \in 32 .. 63
    BY <1>4 DEF Bit9
  <2>2. QED BY <1>1, <1>4, <2>1 DEF Shown
<1>5. QED BY <1>2, <1>3, <1>4

\* Bits 8 and 9 of the basic register promise a line in the other two.
LEMMA BitsShow ==
  ASSUME TypeOK
  PROVE  (Bit8 => Pending(0) # {}) /\ (Bit9 => Pending(32) # {})
<1>1. \A v \in raised : v \in 0 .. 71
  BY IrqAssumption DEF TypeOK
<1>2. ASSUME Bit8 PROVE Pending(0) # {}
  <2>1. PICK v \in raised : v < 32
    BY <1>2 DEF Bit8
  <2>2. v \in 0 .. 31 /\ 0 + v \in raised
    BY <1>1, <2>1
  <2>3. QED BY <2>2 DEF Pending
<1>3. ASSUME Bit9 PROVE Pending(32) # {}
  <2>1. PICK v \in raised : v \in 32 .. 63
    BY <1>3 DEF Bit9
  <2>2. v - 32 \in 0 .. 31 /\ 32 + (v - 32) \in raised
    BY <2>1
  <2>3. QED BY <2>2 DEF Pending
<1>4. QED BY <1>2, <1>3
-----------------------------------------------------------------------------
\* The controller starts in a state that satisfies the invariant.
LEMMA InitIInv == Init => IInv
<1> SUFFICES ASSUME Init PROVE IInv
  OBVIOUS
<1>1. 0 \in Levels /\ \A n \in Levels : ~(n < 0)
  BY IrqAssumption DEF Levels
<1>2. TypeOK
  BY <1>1 DEF Init, TypeOK, Ats, NoCall
<1>3. at[level] = "init" /\ at[0] = "init"
  BY <1>1 DEF Init
<1>4. EntryNotInterrupted
  BY <1>1, <1>3 DEF Init, EntryNotInterrupted
<1>5. Progress /\ TableCorrect /\ CalledAsRegistered /\ DispatchesRaised /\ DispatchesShown
  BY <1>3 DEF Progress, TableCorrect, CalledAsRegistered, DispatchesRaised,
         DispatchesShown
<1>6. QED BY <1>2, <1>4, <1>5 DEF IInv

-----------------------------------------------------------------------------
\* What the parts of the invariant need to know of the level that runs.
LEMMA RunningLevel ==
  ASSUME TypeOK
  PROVE  /\ MaxLevel \in Nat
         /\ level \in Levels /\ level \in Int /\ level >= 0 /\ level <= MaxLevel
         /\ \A n \in Levels : n \in Int /\ n >= 0
         /\ 0 \in Levels
         /\ level < MaxLevel => level + 1 \in Levels
         /\ level > 0 => level - 1 \in Levels
BY IrqAssumption DEF TypeOK, Levels

\* An interrupt is taken only outside irq.c, and leaves a level that is not
\* inside either.
LEMMA TakeIrqIInv == IInv /\ TakeIrq => IInv'
<1> SUFFICES ASSUME IInv, TakeIrq PROVE IInv'
  OBVIOUS
<1>1. TypeOK /\ level + 1 \in Levels
  BY RunningLevel DEF IInv, TakeIrq, Interrupted
<1>2. at[level] = "client"
  BY <1>1 DEF IInv, TypeOK, EntryNotInterrupted, TakeIrq, Interrupted, InEntry, Ats
<1>3. TypeOK'
  BY <1>1 DEF TakeIrq, TypeOK, table, Ats
<1>4. at'[level'] = "basic" /\ \A n \in Levels : n # level + 1 => at'[n] = at[n]
  BY <1>1 DEF TakeIrq, TypeOK
<1>5. EntryNotInterrupted'
  <2>1. masked'
    BY DEF TakeIrq
  <2>2. ASSUME NEW n \in Levels, n < level' PROVE at'[n] = "client"
    <3>1. n # level + 1 /\ (n = level \/ n < level)
      BY <1>1, <2>2, RunningLevel DEF TakeIrq
    <3>2. QED BY <1>2, <1>4, <3>1 DEF IInv, EntryNotInterrupted
  <2>3. QED BY <2>1, <2>2 DEF EntryNotInterrupted
<1>6. Progress' /\ CalledAsRegistered' /\ DispatchesRaised' /\ DispatchesShown'
  BY <1>4 DEF Progress, CalledAsRegistered, DispatchesRaised, DispatchesShown
<1>7. TableCorrect'
  <2>1. at'[0] = at[0]
    BY <1>1, <1>4, RunningLevel
  <2>2. \A v : ~HalfWritten(v) /\ ~HalfWritten(v)'
    BY <1>2, <1>4 DEF HalfWritten
  <2>3. UNCHANGED table
    BY DEF TakeIrq
  <2>4. QED BY <2>1, <2>2, <2>3 DEF IInv, TableCorrect, table
<1>8. QED BY <1>3, <1>5, <1>6, <1>7 DEF IInv

\* A return leaves a level that is in its own code.
LEMMA ReturnIInv ==
  ASSUME IInv, NEW a \in {"basic", "handler", "client"}, ReturnFrom(a)
  PROVE  IInv'
<1>1. TypeOK /\ level - 1 \in Levels /\ level > 0
  BY RunningLevel DEF IInv, ReturnFrom
<1>2. at'[level'] = "client"
  BY <1>1, RunningLevel DEF IInv, EntryNotInterrupted, ReturnFrom
<1>3. TypeOK'
  BY <1>1 DEF ReturnFrom, TypeOK, table, NoCall
<1>4. EntryNotInterrupted'
  <2>1. at'[level'] \notin InEntry
    BY <1>2 DEF InEntry
  <2>2. \A n \in Levels : n < level' => at'[n] = "client"
    BY <1>1, RunningLevel DEF IInv, EntryNotInterrupted, ReturnFrom
  <2>3. QED BY <2>1, <2>2 DEF EntryNotInterrupted
<1>5. Progress' /\ CalledAsRegistered' /\ DispatchesRaised' /\ DispatchesShown'
  BY <1>2 DEF Progress, CalledAsRegistered, DispatchesRaised, DispatchesShown
<1>6. TableCorrect'
  <2>1. UNCHANGED <<table, at>>
    BY DEF ReturnFrom
  <2>2. \A v : ~HalfWritten(v) /\ ~HalfWritten(v)'
    BY <1>2 DEF HalfWritten, ReturnFrom
  <2>3. QED BY <2>1, <2>2 DEF IInv, TableCorrect, table
<1>7. QED BY <1>3, <1>4, <1>5, <1>6 DEF IInv

-----------------------------------------------------------------------------
\* A step of the level that runs leaves the ones it interrupted alone, and
\* keeps IRQs masked as long as it stays inside irq.c.
LEMMA RunsFrame ==
  ASSUME IInv, NEW a, NEW b \in Ats, Runs(a, b), UNCHANGED level,
         b \in InEntry => masked'
  PROVE  /\ EntryNotInterrupted'
         /\ at'[level'] = b
         /\ at' \in [Levels -> Ats]
         /\ a # "init" /\ b # "init" => (at'[0] = "init" <=> at[0] = "init")
<1>1. TypeOK /\ level \in Levels /\ 0 \in Levels
  BY RunningLevel DEF IInv
<1>2. /\ at'[level'] = b
      /\ at' \in [Levels -> Ats]
      /\ \A n \in Levels : n # level => at'[n] = at[n]
  BY <1>1 DEF TypeOK, Runs
<1>3. EntryNotInterrupted'
  <2>1. ASSUME NEW n \in Levels, n < level' PROVE at'[n] = "client"
    BY <1>1, <1>2, <2>1, RunningLevel DEF IInv, EntryNotInterrupted
  <2>2. QED BY <1>2, <2>1 DEF EntryNotInterrupted
<1>4. a # "init" /\ b # "init" => (at'[0] = "init" <=> at[0] = "init")
  BY <1>1, <1>2 DEF Runs
<1>5. QED BY <1>2, <1>3, <1>4

\* The table is set up in one step, with IRQs masked.
LEMMA ControllerInitIInv == IInv /\ ControllerInit => IInv'
<1> SUFFICES ASSUME IInv, ControllerInit PROVE IInv'
  OBVIOUS
<1>1. EntryNotInterrupted' /\ at'[level'] = "client" /\ at' \in [Levels -> Ats]
  BY RunsFrame DEF ControllerInit, Ats, InEntry
<1>2. TypeOK'
  BY <1>1 DEF IInv, TypeOK, ControllerInit
<1>3. Progress' /\ CalledAsRegistered' /\ DispatchesRaised' /\ DispatchesShown'
  BY <1>1 DEF Progress, CalledAsRegistered, DispatchesRaised, DispatchesShown
<1>4. TableCorrect'
  BY <1>1 DEF TableCorrect, HalfWritten, ControllerInit
<1>5. QED BY <1>1, <1>2, <1>3, <1>4 DEF IInv

\* A call of register_interrupt masks IRQs and remembers its arguments.
LEMMA RegisterIInv ==
  ASSUME IInv, NEW v \in Lines, NEW h \in Handlers, Register(v, h)
  PROVE  IInv'
<1>1. TypeOK /\ level \in Levels
  BY RunningLevel DEF IInv
<1>2. EntryNotInterrupted' /\ at'[level'] = "store_fn" /\ at' \in [Levels -> Ats]
      /\ (at'[0] = "init" <=> at[0] = "init") /\ at[level] = "client"
  BY RunsFrame DEF Register, Runs, Ats, InEntry
<1>3. /\ call' \in [Levels -> [fn : Handlers \cup {Default, Null},
                               param : Handlers \cup {Null}]]
      /\ call'[level] = [fn |-> h, param |-> h]
  BY <1>1 DEF Register, TypeOK
<1>4. TypeOK'
  BY <1>1, <1>2, <1>3 DEF Register, TypeOK, table
<1>5. Progress' /\ CalledAsRegistered' /\ DispatchesRaised' /\ DispatchesShown'
  BY <1>2, <1>3 DEF Progress, CalledAsRegistered, DispatchesRaised, DispatchesShown, Register
<1>6. TableCorrect'
  <2>1. \A w : ~HalfWritten(w) /\ ~HalfWritten(w)'
    BY <1>2 DEF HalfWritten
  <2>2. UNCHANGED table
    BY DEF Register
  <2>3. QED BY <1>2, <2>1, <2>2 DEF IInv, TableCorrect, table
<1>7. QED BY <1>2, <1>4, <1>5, <1>6 DEF IInv

\* The first store, with IRQs masked: the entry is half written from here.
LEMMA StoreFnIInv == IInv /\ StoreFn => IInv'
<1> SUFFICES ASSUME IInv, StoreFn PROVE IInv'
  OBVIOUS
<1>1. TypeOK /\ level \in Levels /\ at[level] = "store_fn" /\ masked
  BY RunningLevel DEF IInv, EntryNotInterrupted, StoreFn, Runs, InEntry
<1>2. EntryNotInterrupted' /\ at'[level'] = "store_param" /\ at' \in [Levels -> Ats]
      /\ (at'[0] = "init" <=> at[0] = "init")
  BY <1>1, RunsFrame DEF StoreFn, Ats, InEntry
<1>3. call[level].fn \in Handlers /\ call[level].param = call[level].fn
  BY <1>1 DEF IInv, Progress
<1>4. /\ fn' \in [Lines -> Handlers \cup {Default, Null}]
      /\ \A v \in Lines : fn'[v] = IF v = nirq[level] THEN call[level].fn ELSE fn[v]
  BY <1>1, <1>3, IrqAssumption DEF TypeOK, StoreFn, Stored
<1>5. TypeOK'
  BY <1>2, <1>4 DEF IInv, TypeOK, StoreFn
<1>6. Progress' /\ CalledAsRegistered' /\ DispatchesRaised' /\ DispatchesShown'
  BY <1>2, <1>3 DEF Progress, CalledAsRegistered, DispatchesRaised, DispatchesShown, StoreFn
<1>7. TableCorrect'
  BY <1>1, <1>2, <1>3, <1>4 DEF IInv, TableCorrect, HalfWritten, StoreFn
<1>8. QED BY <1>2, <1>5, <1>6, <1>7 DEF IInv

\* The second store completes it.
LEMMA StoreParamIInv == IInv /\ StoreParam => IInv'
<1> SUFFICES ASSUME IInv, StoreParam PROVE IInv'
  OBVIOUS
<1>1. TypeOK /\ level \in Levels /\ at[level] = "store_param" /\ masked
  BY RunningLevel DEF IInv, EntryNotInterrupted, StoreParam, Runs, InEntry
<1>2. EntryNotInterrupted' /\ at'[level'] = "enable" /\ at' \in [Levels -> Ats]
      /\ (at'[0] = "init" <=> at[0] = "init")
  BY <1>1, RunsFrame DEF StoreParam, Ats, InEntry
<1>3. call[level].fn \in Handlers /\ call[level].param = call[level].fn
  BY <1>1 DEF IInv, Progress
<1>4. /\ param' \in [Lines -> Handlers \cup {Null}]
      /\ \A v \in Lines : param'[v] = IF v = nirq[level] THEN call[level].fn ELSE param[v]
  BY <1>1, <1>3, IrqAssumption DEF TypeOK, StoreParam, Stored
<1>5. TypeOK'
  BY <1>2, <1>4 DEF IInv, TypeOK, StoreParam
<1>6. Progress' /\ CalledAsRegistered' /\ DispatchesRaised' /\ DispatchesShown'
  BY <1>2 DEF Progress, CalledAsRegistered, DispatchesRaised, DispatchesShown
<1>7. TableCorrect'
  BY <1>1, <1>2, <1>4 DEF IInv, TableCorrect, HalfWritten, StoreParam
<1>8. QED BY <1>2, <1>5, <1>6, <1>7 DEF IInv

\* The steps that write neither the table nor the call's record of it.
LEMMA RegisterDoneIInv == IInv /\ RegisterDone => IInv'
<1> SUFFICES ASSUME IInv, RegisterDone PROVE IInv'
  OBVIOUS
<1>1. EntryNotInterrupted' /\ at'[level'] = "client" /\ at' \in [Levels -> Ats]
      /\ (at'[0] = "init" <=> at[0] = "init") /\ at[level] = "enable"
  BY RunsFrame DEF RegisterDone, Runs, Ats, InEntry
<1>2. TypeOK'
  BY <1>1 DEF IInv, TypeOK, RegisterDone, table
<1>3. Progress' /\ CalledAsRegistered' /\ DispatchesRaised' /\ DispatchesShown'
  BY <1>1 DEF Progress, CalledAsRegistered, DispatchesRaised, DispatchesShown
<1>4. TableCorrect'
  BY <1>1 DEF IInv, TableCorrect, HalfWritten, RegisterDone, table
<1>5. QED BY <1>1, <1>2, <1>3, <1>4 DEF IInv

LEMMA SetMaskIInv == ASSUME IInv, NEW m \in BOOLEAN, SetMask(m) PROVE IInv'
<1>1. EntryNotInterrupted' /\ at'[level'] = "client" /\ at' \in [Levels -> Ats]
      /\ (at'[0] = "init" <=> at[0] = "init") /\ at[level] = "client"
  BY RunsFrame DEF SetMask, Runs, Ats, InEntry
<1>2. TypeOK'
  BY <1>1 DEF IInv, TypeOK, SetMask, table
<1>3. Progress' /\ CalledAsRegistered' /\ DispatchesRaised' /\ DispatchesShown'
  BY <1>1 DEF Progress, CalledAsRegistered, DispatchesRaised, DispatchesShown
<1>4. TableCorrect'
  BY <1>1 DEF IInv, TableCorrect, HalfWritten, SetMask, table
<1>5. QED BY <1>1, <1>2, <1>3, <1>4 DEF IInv

-----------------------------------------------------------------------------
\* handler_irq runs with IRQs masked and leaves the table alone.
HandlerSteps == {"basic", "pending1", "pending2", "dispatch", "handler"}

LEMMA HandlerFrame ==
  ASSUME IInv, NEW a \in HandlerSteps, NEW b \in HandlerSteps \cup {"client"},
         Runs(a, b), UNCHANGED <<masked, table, level>>
  PROVE  /\ EntryNotInterrupted' /\ TableCorrect'
         /\ at'[level'] = b /\ at' \in [Levels -> Ats]
<1>1. /\ EntryNotInterrupted' /\ at'[level'] = b /\ at' \in [Levels -> Ats]
      /\ (at'[0] = "init" <=> at[0] = "init") /\ at[level] = a
  <2>1. b \in Ats /\ a # "init" /\ b # "init"
    BY DEF HandlerSteps, Ats
  <2>2. masked'
    BY DEF IInv, EntryNotInterrupted, HandlerSteps, InEntry, Runs
  <2>3. QED BY <2>1, <2>2, RunsFrame DEF Runs
<1>2. \A v : ~HalfWritten(v) /\ ~HalfWritten(v)'
  BY <1>1 DEF HalfWritten, HandlerSteps
<1>3. TableCorrect'
  BY <1>1, <1>2 DEF IInv, TableCorrect, table
<1>4. QED BY <1>1, <1>3

\* A line that rises changes nothing for a call that is under way.
LEMMA RaiseIInv == ASSUME IInv, NEW v \in Lines, Raise(v) PROVE IInv'
<1>1. TypeOK'
  BY DEF IInv, TypeOK, Raise, table
<1>2. EntryNotInterrupted' /\ TableCorrect' /\ CalledAsRegistered'
  BY DEF IInv, EntryNotInterrupted, TableCorrect, HalfWritten, CalledAsRegistered,
         Raise, table
<1>3. raised \subseteq raised'
  BY DEF Raise
<1>4. Progress'
  BY <1>3 DEF IInv, Progress, Bit8, Bit9, Raise
<1>5. DispatchesRaised'
  BY <1>3 DEF IInv, DispatchesRaised, Raise
<1>6. DispatchesShown'
  BY <1>3 DEF IInv, DispatchesShown, Shown, Raise
<1>7. QED BY <1>1, <1>2, <1>4, <1>5, <1>6 DEF IInv

\* A basic line is found in the register that was read.
LEMMA ReadBasicIInv == IInv /\ ReadBasic => IInv'
<1> SUFFICES ASSUME IInv, ReadBasic PROVE IInv'
  OBVIOUS
<1>1. EntryNotInterrupted' /\ TableCorrect' /\ at'[level'] = "dispatch"
      /\ at' \in [Levels -> Ats]
  BY HandlerFrame DEF ReadBasic, HandlerSteps
<1>2. Serves(64) \in raised
  BY ServesRaised DEF ReadBasic, BasicLines
<1>3. level \in Levels /\ raised \subseteq Lines
  BY DEF IInv, TypeOK
<1>4. /\ nirq' \in [Levels -> Lines \cup {Elsewhere}]
      /\ nirq'[level'] = Serves(64) /\ nirq'[level'] \in raised'
  BY <1>2, <1>3 DEF IInv, TypeOK, ReadBasic
<1>5. TypeOK'
  BY <1>1, <1>4 DEF IInv, TypeOK, ReadBasic, table
<1>6. Progress' /\ CalledAsRegistered' /\ DispatchesRaised' /\ DispatchesShown'
  <2>1. Shown(Serves(64)) /\ UNCHANGED raised
    BY ServesShown DEF IInv, ReadBasic, BasicLines
  <2>2. Shown(nirq[level])'
    BY <1>4, <2>1 DEF Shown
  <2>3. QED
    BY <1>1, <1>4, <2>2 DEF Progress, CalledAsRegistered, DispatchesRaised, DispatchesShown
<1>7. QED BY <1>1, <1>5, <1>6 DEF IInv

\* Otherwise bit 8 or 9 says which register to read.
LEMMA ReadBasicBitsIInv == IInv /\ ReadBasicBits => IInv'
<1> SUFFICES ASSUME IInv, ReadBasicBits PROVE IInv'
  OBVIOUS
<1>1. PICK b \in {"pending1", "pending2"} :
        Runs("basic", b) /\ (b = "pending1" => Bit8) /\ (b = "pending2" => Bit9)
  BY DEF ReadBasicBits
<1>2. EntryNotInterrupted' /\ TableCorrect' /\ at'[level'] = b
      /\ at' \in [Levels -> Ats]
  BY <1>1, HandlerFrame DEF ReadBasicBits, HandlerSteps
<1>3. TypeOK'
  BY <1>2 DEF IInv, TypeOK, ReadBasicBits, table
<1>4. Progress' /\ CalledAsRegistered' /\ DispatchesRaised' /\ DispatchesShown'
  BY <1>1, <1>2 DEF Progress, CalledAsRegistered, DispatchesRaised, DispatchesShown, ReadBasicBits,
                    Bit8, Bit9
<1>5. QED BY <1>2, <1>3, <1>4 DEF IInv

\* The line that made the bit be set is still raised when that register is read.
LEMMA ReadPendingIInv == IInv /\ ReadPending => IInv'
<1> SUFFICES ASSUME IInv, ReadPending PROVE IInv'
  OBVIOUS
<1>1. PICK a \in {"pending1", "pending2"}, base \in {0, 32} :
        /\ (a = "pending1" /\ base = 0) \/ (a = "pending2" /\ base = 32)
        /\ Runs(a, "dispatch")
        /\ nirq' = [nirq EXCEPT ![level] = Serves(base)]
  BY DEF ReadPending
<1>2. EntryNotInterrupted' /\ TableCorrect' /\ at'[level'] = "dispatch"
      /\ at' \in [Levels -> Ats]
  BY <1>1, HandlerFrame DEF ReadPending, HandlerSteps
<1>3. Serves(base) \in raised /\ Shown(Serves(base))
  <2>1. Pending(base) # {} /\ (base = 0 => Bit8) /\ (base = 32 => Bit9)
    BY <1>1, BitsShow DEF IInv, Progress, Runs
  <2>2. QED BY <2>1, ServesRaised, ServesShown DEF IInv
<1>4. level \in Levels /\ raised \subseteq Lines
  BY DEF IInv, TypeOK
<1>5. nirq' \in [Levels -> Lines \cup {Elsewhere}] /\ nirq'[level'] \in raised'
      /\ nirq'[level'] = Serves(base)
  BY <1>1, <1>3, <1>4 DEF IInv, TypeOK, ReadPending
<1>6. TypeOK'
  BY <1>2, <1>5 DEF IInv, TypeOK, ReadPending, table
<1>7. Progress' /\ CalledAsRegistered' /\ DispatchesRaised' /\ DispatchesShown'
  <2>1. UNCHANGED raised
    BY DEF ReadPending
  <2>2. Shown(nirq[level])'
    BY <1>3, <1>5, <2>1 DEF Shown
  <2>3. QED
    BY <1>2, <1>5, <2>2 DEF Progress, CalledAsRegistered, DispatchesRaised, DispatchesShown
<1>8. QED BY <1>2, <1>6, <1>7 DEF IInv

\* The entry that is called is complete: no level is half way through it.
LEMMA DispatchIInv == IInv /\ Dispatch => IInv'
<1> SUFFICES ASSUME IInv, Dispatch PROVE IInv'
  OBVIOUS
<1> DEFINE v == nirq[level]
<1>1. EntryNotInterrupted' /\ TableCorrect' /\ at'[level'] = "handler"
      /\ at' \in [Levels -> Ats]
  BY HandlerFrame DEF Dispatch, HandlerSteps
<1>2. TypeOK /\ level \in Levels /\ 0 \in Levels /\ at[level] = "dispatch"
  BY RunningLevel DEF IInv, Dispatch, Runs
<1>3. v \in raised /\ v \in Lines
  BY <1>2 DEF IInv, DispatchesRaised, TypeOK
<1>4. at[0] # "init"
  BY <1>2, RunningLevel DEF IInv, EntryNotInterrupted
<1>5. fn[v] \in Handlers \cup {Default} /\ (fn[v] = Default \/ param[v] = fn[v])
  BY <1>2, <1>3, <1>4 DEF IInv, TableCorrect, HalfWritten
<1>6. /\ call' \in [Levels -> [fn : Handlers \cup {Default, Null},
                               param : Handlers \cup {Null}]]
      /\ call'[level'] = [fn |-> fn[v], param |-> param[v]]
  BY <1>2, <1>3 DEF TypeOK, Dispatch
<1>7. TypeOK'
  BY <1>1, <1>6 DEF IInv, TypeOK, Dispatch, table
<1>8. CalledAsRegistered'
  BY <1>1, <1>5, <1>6 DEF CalledAsRegistered
<1>9. Progress' /\ DispatchesRaised' /\ DispatchesShown'
  <2>1. Shown(v) /\ UNCHANGED raised
    BY <1>2 DEF IInv, DispatchesShown, Dispatch
  <2>2. nirq'[level'] = v
    BY DEF Dispatch
  <2>3. Shown(nirq[level])'
    BY <2>1, <2>2 DEF Shown
  <2>4. QED BY <1>1, <1>3, <2>2, <2>3 DEF Progress, DispatchesRaised, DispatchesShown, Dispatch
<1>10. QED BY <1>1, <1>7, <1>8, <1>9 DEF IInv

\* A handler lowers its own line, and is in its own code from there on.
LEMMA QuietIInv == IInv /\ Quiet => IInv'
<1> SUFFICES ASSUME IInv, Quiet PROVE IInv'
  OBVIOUS
<1>1. EntryNotInterrupted' /\ TableCorrect' /\ at'[level'] = "client"
      /\ at' \in [Levels -> Ats]
  BY HandlerFrame DEF Quiet, HandlerSteps
<1>2. TypeOK'
  BY <1>1 DEF IInv, TypeOK, Quiet, table
<1>3. Progress' /\ CalledAsRegistered' /\ DispatchesRaised' /\ DispatchesShown'
  BY <1>1 DEF Progress, CalledAsRegistered, DispatchesRaised, DispatchesShown
<1>4. QED BY <1>1, <1>2, <1>3 DEF IInv

-----------------------------------------------------------------------------
\* The invariant is inductive.
LEMMA StepIInv == IInv /\ [Next]_vars => IInv'
<1> SUFFICES ASSUME IInv, [Next]_vars PROVE IInv'
  OBVIOUS
<1>1. CASE ControllerInit
  BY <1>1, ControllerInitIInv
<1>2. CASE TakeIrq
  BY <1>2, TakeIrqIInv
<1>3. CASE StoreFn \/ StoreParam \/ RegisterDone
  BY <1>3, StoreFnIInv, StoreParamIInv, RegisterDoneIInv
<1>4. CASE ReadBasic \/ ReadBasicBits \/ ReadPending
  BY <1>4, ReadBasicIInv, ReadBasicBitsIInv, ReadPendingIInv
<1>5. CASE NothingPending \/ DefaultReturns \/ HandlerReturns
  BY <1>5, ReturnIInv DEF NothingPending, DefaultReturns, HandlerReturns
<1>6. CASE Dispatch \/ Quiet
  BY <1>6, DispatchIInv, QuietIInv
<1>7. CASE \E v \in Lines : Raise(v)
  BY <1>7, RaiseIInv
<1>8. CASE \E v \in Lines, h \in Handlers : Register(v, h)
  BY <1>8, RegisterIInv
<1>9. CASE \E m \in BOOLEAN : SetMask(m)
  BY <1>9, SetMaskIInv
<1>10. CASE UNCHANGED vars
  BY <1>10 DEF IInv, TypeOK, EntryNotInterrupted, Progress, Bit8, Bit9, TableCorrect,
               HalfWritten, CalledAsRegistered, DispatchesRaised, DispatchesShown, Shown,
               vars, table
<1>11. QED
  BY <1>1, <1>2, <1>3, <1>4, <1>5, <1>6, <1>7, <1>8, <1>9, <1>10 DEF Next, CpuStep

\* IInv holds in every reachable state.
LEMMA Invariant == Spec => []IInv
<1>1. IInv /\ [Next]_vars => IInv'
  BY StepIInv
<1>2. QED BY InitIInv, <1>1, PTL DEF Spec

\* Table, mask and levels are well typed: in particular no dispatch and no
\* store uses an index that is neither a line nor knowingly outside (irq.c).
THEOREM TypeCorrect == Spec => []TypeOK
<1>1. IInv => TypeOK
  BY DEF IInv
<1>2. QED BY Invariant, <1>1, PTL

\* No interrupt comes while irq.c is half way through a registration or a
\* dispatch, however deep handlers nest (irq.c:66-69, 115-153).
THEOREM NotInterrupted == Spec => []EntryNotInterrupted
<1>1. IInv => EntryNotInterrupted
  BY DEF IInv
<1>2. QED BY Invariant, <1>1, PTL

\* A handler gets the parameter it was registered with, and NULL is never
\* called (irq.c:57-58, 67-68, 152).
THEOREM CallsAsRegistered == Spec => []CalledAsRegistered
<1>1. IInv => CalledAsRegistered
  BY DEF IInv
<1>2. QED BY Invariant, <1>1, PTL

\* What is dispatched is raised (irq.c:120-152).
THEOREM DispatchSound == Spec => []DispatchesRaised
<1>1. IInv => DispatchesRaised
  BY DEF IInv
<1>2. QED BY Invariant, <1>1, PTL


\* A line is dispatched only from a register that bits 0 to 9 show, until its
\* handler starts: one with a bit of its own never alone (irq.c:123-152).
THEOREM DispatchesOnlyShown == Spec => []DispatchesShown
<1>1. IInv => DispatchesShown
  BY DEF IInv
<1>2. QED BY Invariant, <1>1, PTL
=============================================================================

-------------------------------- MODULE Uart --------------------------------
(* The polled driver of src/src/uart/uart.c and the PL011 it drives.         *)
(*                                                                           *)
(* The hardware (external: src/doc/BCM2835-ARM-Peripherals.pdf, chapter 13)  *)
(* is two FIFOs, a transmit shift register and an enable bit.  It runs       *)
(* beside the driver: between any two register accesses a byte may leave the *)
(* transmit FIFO, or one may arrive, and one that finds the receive FIFO     *)
(* full is lost.  The driver's client calls uart_init first, then uart_write *)
(* and uart_read in any order, and uart_init again if Reinit says so.        *)
EXTENDS Integers, Sequences

CONSTANTS
  Bytes,        \* the characters that occur
  FifoDepth,    \* depth of each FIFO (16 with LCRH.FEN set)
  WordSize,     \* the values of a size_t or mske_ret_code_t: 2^32
  Reinit,       \* whether uart_init is called again once the UART is in use
  MaxWrite,     \* bound: bytes of one uart_write
  MaxRead,      \* bound: bytes of one uart_read
  MaxOut,       \* bound: bytes written in all
  MaxIn         \* bound: bytes that arrive in all

ASSUME UartAssumption ==
  /\ FifoDepth \in Nat \ {0}
  /\ Reinit \in BOOLEAN
  /\ {WordSize, MaxWrite, MaxRead, MaxOut, MaxIn} \subseteq Nat
  /\ MaxWrite < WordSize /\ MaxRead < WordSize

VARIABLES
  enabled,      \* UARTEN, TXE and RXE of the control register, set together
  txfifo,       \* bytes stored in DR and not yet being sent
  shifter,      \* the byte on its way out: a sequence of at most one
  rxfifo,       \* bytes received and not yet read from DR
  pc,           \* where the driver is
  buf,          \* uart_write's buffer, from the next byte on
  nbytes,       \* uart_read's nbytes
  ret,          \* the value the last call returned
  written,      \* history: bytes stored in DR
  wire,         \* history: bytes that left the shift register
  arrived,      \* history: bytes that entered the receive FIFO
  got,          \* history: bytes uart_read stored in its callers' buffers
  offered       \* bytes the other end of the line has sent, lost ones included

hardware == <<enabled, txfifo, shifter, rxfifo, wire, arrived, offered>>
driver   == <<pc, buf, nbytes, ret, written, got>>
vars     == <<hardware, driver>>

Words == 0 .. WordSize - 1

TypeOK ==
  /\ enabled \in BOOLEAN
  /\ txfifo \in Seq(Bytes) /\ Len(txfifo) <= FifoDepth
  /\ shifter \in {<<>>} \cup {<<b>> : b \in Bytes}
  /\ rxfifo \in Seq(Bytes) /\ Len(rxfifo) <= FifoDepth
  /\ pc \in {"idle", "drain", "write", "read", "getc"}
  /\ buf \in Seq(Bytes)
  /\ nbytes \in Words
  /\ ret \in Int
  /\ written \in Seq(Bytes) /\ wire \in Seq(Bytes)
  /\ arrived \in Seq(Bytes) /\ got \in Seq(Bytes)
  /\ offered \in 0 .. MaxIn

Init ==
  /\ enabled = FALSE
  /\ txfifo = <<>> /\ shifter = <<>> /\ rxfifo = <<>>
  /\ pc = "idle" /\ buf = <<>> /\ nbytes = 0 /\ ret = 0
  /\ written = <<>> /\ wire = <<>> /\ arrived = <<>> /\ got = <<>>
  /\ offered = 0

-----------------------------------------------------------------------------
\* The hardware.

\* The transmitter only starts a byte while it is enabled.
StartByte ==
  /\ enabled /\ shifter = <<>> /\ txfifo # <<>>
  /\ shifter' = <<Head(txfifo)>>
  /\ txfifo' = Tail(txfifo)
  /\ UNCHANGED <<enabled, rxfifo, wire, arrived, offered, driver>>

\* A byte that was started is completed, enabled or not.
FinishByte ==
  /\ shifter # <<>>
  /\ wire' = wire \o shifter
  /\ shifter' = <<>>
  /\ UNCHANGED <<enabled, txfifo, rxfifo, arrived, offered, driver>>

Receive(b) ==
  /\ enabled /\ offered < MaxIn
  /\ offered' = offered + 1
  /\ IF Len(rxfifo) < FifoDepth
       THEN /\ rxfifo' = Append(rxfifo, b)
            /\ arrived' = Append(arrived, b)
       ELSE UNCHANGED <<rxfifo, arrived>>
  /\ UNCHANGED <<enabled, txfifo, shifter, wire, driver>>

\* Mutants: the poll of TXFF sees a full FIFO one byte late, or is inverted.
FullSeenLate  == Len(txfifo) > FifoDepth
FullPollWrong == Len(txfifo) # FifoDepth

\* The flags of FR the driver polls.
FR_TXFF == Len(txfifo) = FifoDepth
FR_RXFE == rxfifo = <<>>

\* Mutant: BUSY is taken to cover the receiver.
BusyReceiving == rxfifo # <<>> \/ shifter # <<>>

FR_BUSY == txfifo # <<>> \/ shifter # <<>>

-----------------------------------------------------------------------------
\* uart_init: the UART is disabled first, and then waited for.

InitDisable ==
  /\ pc = "idle"
  /\ enabled => Reinit
  /\ enabled' = FALSE
  /\ pc' = "drain"
  /\ UNCHANGED <<txfifo, shifter, rxfifo, wire, arrived, offered,
                 buf, nbytes, ret, written, got>>

\* The rest of uart_init configures a UART nothing can reach: one step.
InitConfigure ==
  /\ pc = "drain"
  /\ ~FR_BUSY
  /\ enabled' = TRUE
  /\ ret' = 0
  /\ pc' = "idle"
  /\ UNCHANGED <<txfifo, shifter, rxfifo, wire, arrived, offered,
                 buf, nbytes, written, got>>

-----------------------------------------------------------------------------
\* uart_write: uart_putc for every byte.

WriteStart(s) ==
  /\ pc = "idle" /\ enabled
  /\ Len(written) + Len(s) <= MaxOut
  /\ buf' = s
  /\ nbytes' = Len(s)
  /\ pc' = "write"
  /\ UNCHANGED <<hardware, ret, written, got>>

\* Mutant: uart_putc does not wait, and a byte stored in a full FIFO is lost.
PutcNoWait(b) ==
  /\ txfifo' = IF FR_TXFF THEN txfifo ELSE Append(txfifo, b)
  /\ written' = Append(written, b)
  /\ UNCHANGED <<enabled, shifter, rxfifo, wire, arrived, offered>>

\* uart_putc, also reached from printk through BSP_output_char.
Putc(b) ==
  /\ ~FR_TXFF
  /\ txfifo' = Append(txfifo, b)
  /\ written' = Append(written, b)
  /\ UNCHANGED <<enabled, shifter, rxfifo, wire, arrived, offered>>

WriteByte ==
  /\ pc = "write" /\ buf # <<>>
  /\ Putc(Head(buf))
  /\ buf' = Tail(buf)
  /\ UNCHANGED <<pc, nbytes, ret, got>>

WriteDone ==
  /\ pc = "write" /\ buf = <<>>
  /\ ret' = nbytes
  /\ pc' = "idle"
  /\ UNCHANGED <<hardware, buf, nbytes, written, got>>

-----------------------------------------------------------------------------
\* uart_read: while (nbytes--) reads a byte; the test that ends the loop
\* decrements once more, and what is left is returned.

ReadStart(n) ==
  /\ pc = "idle" /\ enabled
  /\ nbytes' = n
  /\ pc' = "read"
  /\ UNCHANGED <<hardware, buf, ret, written, got>>

Decremented == (nbytes - 1) % WordSize

\* A size_t returned as the signed mske_ret_code_t.
AsRetCode(n) == IF 2 * n < WordSize THEN n ELSE n - WordSize

ReadTest ==
  /\ pc = "read"
  /\ nbytes' = Decremented
  /\ \/ nbytes # 0 /\ pc' = "getc" /\ UNCHANGED ret
     \/ nbytes = 0 /\ pc' = "idle" /\ ret' = AsRetCode(Decremented)
  /\ UNCHANGED <<hardware, buf, written, got>>

\* Mutant: uart_getc does not wait, and DR read empty yields a stale byte.
GetcNoWait ==
  /\ rxfifo' = IF FR_RXFE THEN rxfifo ELSE Tail(rxfifo)
  /\ \E b \in Bytes : got' = Append(got, IF FR_RXFE THEN b ELSE Head(rxfifo))
  /\ UNCHANGED <<enabled, txfifo, shifter, wire, arrived, offered>>

Getc ==
  /\ ~FR_RXFE
  /\ rxfifo' = Tail(rxfifo)
  /\ got' = Append(got, Head(rxfifo))
  /\ UNCHANGED <<enabled, txfifo, shifter, wire, arrived, offered>>

ReadByte ==
  /\ pc = "getc"
  /\ Getc
  /\ pc' = "read"
  /\ UNCHANGED <<buf, nbytes, ret, written>>

-----------------------------------------------------------------------------
Buffers == UNION {[1 .. n -> Bytes] : n \in 0 .. MaxWrite}

DriverStep == InitConfigure \/ WriteByte \/ WriteDone \/ ReadTest \/ ReadByte
Transmit   == StartByte \/ FinishByte

Next ==
  \/ Transmit
  \/ \E b \in Bytes : Receive(b)
  \/ DriverStep
  \/ InitDisable
  \/ \E s \in Buffers : WriteStart(s)
  \/ \E n \in 0 .. MaxRead : ReadStart(n)

\* The clock of the UART and the polling loops run on; nobody has to send.
Spec == Init /\ [][Next]_vars /\ WF_vars(DriverStep) /\ WF_vars(Transmit)

-----------------------------------------------------------------------------
\* What is written leaves on the wire complete and in order, whatever the
\* interleaving of the transmitter and the driver and across a re-initialisation
\* (uart.c:63-69, 107-109).
SentInOrder == written = wire \o shifter \o txfifo

\* What enters the receive FIFO reaches the callers complete and in order
\* (uart.c:114-116, 137-138).
ReadInOrder == arrived = got \o rxfifo

\* A call of uart_write returns: the transmitter it polls is running, even if
\* uart_init was called in between (uart.c:107).
WriteReturns == (pc = "write") ~> (pc = "idle")

\* uart_init returns ("wait for end of transmission or reception(?)",
\* uart.c:65) - unless bytes are queued when it disables the transmitter, which
\* then never sends them.
InitReturns == (pc = "drain") ~> (pc = "idle" \/ txfifo # <<>>)

\* The polling loops of the driver end (uart.c:66, 107), with that exception.
CallsReturn == WriteReturns /\ InitReturns
=============================================================================

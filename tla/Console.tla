------------------------------ MODULE Console ------------------------------
(* kernel_main of src/src/init/kernel.c as the user of the device table and  *)
(* of the UART: reset the table, register the UART driver, print the boot    *)
(* text, and echo every character for ever.  The table is Devices and the    *)
(* driver Uart; the kernel's steps below run theirs, and the UART hardware   *)
(* runs beside the kernel.                                                   *)
EXTENDS Integers, Sequences

CONSTANTS
  Bytes, LF, CR, \* the characters on the line
  Text,         \* the characters printk hands to putc before the echo starts
  FifoDepth, WordSize, MaxIn,                   \* as in Uart
  MAX_DEVICES, UartOps, NullOps, InvalidDev     \* as in Devices

ASSUME ConsoleAssumption ==
  /\ {LF, CR} \subseteq Bytes /\ Text \in Seq(Bytes)
  /\ FifoDepth \in Nat \ {0} /\ MaxIn \in Nat
  /\ WordSize \in Nat /\ WordSize > 1
  /\ MAX_DEVICES \in 1 .. 256
  /\ UartOps \notin {NullOps, InvalidDev} /\ NullOps # InvalidDev

VARIABLES
  enabled, txfifo, shifter, rxfifo, wire, arrived, offered,     \* Uart
  upc, buf, nbytes, uret, written, got,
  num_devices, valid, table_ops, dpc, i, dev_ops, dret, clients, served, \* Devices
  kpc,          \* where kernel_main is
  uart_dev_id,  \* what uart_register returned
  text,         \* the characters still to be printed, as putc emits them
  buffer        \* the local buffer of the echo loop

\* putc (klibc/src/putc.c) sends CR before every LF; the echo does not use it.
putc(c) == IF c = LF THEN <<CR, LF>> ELSE <<c>>

\* What the first n characters of Text become.
Emitted[n \in 0 .. Len(Text)] ==
  IF n = 0 THEN <<>> ELSE Emitted[n - 1] \o putc(Text[n])

Printed == Emitted[Len(Text)]

U == INSTANCE Uart WITH
  pc <- upc, ret <- uret, Reinit <- FALSE, MaxWrite <- 1, MaxRead <- 1,
  MaxOut <- 2 * Len(Text) + MaxIn

D == INSTANCE Devices WITH pc <- dpc, ret <- dret, DevOps <- {UartOps}

uart   == <<enabled, txfifo, shifter, rxfifo, wire, arrived, offered,
            upc, buf, nbytes, uret, written, got>>
table  == <<num_devices, valid, table_ops, dpc, i, dev_ops, dret, clients, served>>
kernel == <<kpc, uart_dev_id, text, buffer>>
vars   == <<uart, table, kernel>>

Init ==
  /\ U!Init
  /\ D!Init
  /\ kpc = "start"
  /\ uart_dev_id = 0
  /\ text = Printed
  /\ buffer \in Bytes           \* an uninitialised local

-----------------------------------------------------------------------------
\* device_init()
Reset ==
  /\ \/ kpc = "start" /\ D!InitStart /\ kpc' = "reset"
     \/ kpc = "reset" /\ D!InitClear /\ UNCHANGED kpc
     \/ kpc = "reset" /\ D!InitDone /\ kpc' = "register"
  /\ UNCHANGED <<uart, uart_dev_id, text, buffer>>

\* uart_register(): device_register with uart_init as the init callback.
Register ==
  /\ kpc = "register"
  /\ IF D!TableFull
       THEN D!RegisterFull /\ uart_dev_id' = D!MSKE_ERR /\ kpc' = "panic"
       ELSE /\ D!RegisterStart(UartOps) /\ kpc' = "registering"
            /\ UNCHANGED uart_dev_id
  /\ UNCHANGED <<uart, text, buffer>>

\* uart_init has returned, and reports success.
Started == enabled /\ uret = D!MSKE_SUCESS

\* Mutant: the driver is taken as started without uart_init having run.
RegisteringNoInit ==
  /\ kpc = "registering"
  /\ \/ D!ScanTaken \/ D!ScanFree \/ D!MarkValid
     \/ dpc = "init" /\ D!DriverStarts
  /\ UNCHANGED <<uart, kernel>>

Registering ==
  /\ kpc = "registering"
  /\ \/ (D!ScanTaken \/ D!ScanFree \/ D!MarkValid) /\ UNCHANGED uart
     \/ dpc = "init" /\ ~enabled /\ U!InitDisable /\ UNCHANGED table
     \/ dpc = "init" /\ U!InitConfigure /\ UNCHANGED table
     \/ dpc = "init" /\ Started /\ D!DriverStarts /\ UNCHANGED uart
  /\ UNCHANGED kernel

\* device_register is over, with the id or because the driver failed.
Registered ==
  /\ kpc = "registering"
  /\ IF dpc = "init" THEN enabled /\ ~Started /\ D!DriverFails ELSE D!BindOps
  /\ uart_dev_id' = IF dret'.code < 0 THEN D!MSKE_ERR ELSE dret'.code
  /\ kpc' = IF dret'.code < 0 THEN "panic" ELSE "print"
  /\ UNCHANGED <<uart, text, buffer>>

-----------------------------------------------------------------------------
\* welcome_message, resume_atags and init_framebuffer, as far as the line can
\* tell: characters through printk, one by one.
PrintChar ==
  /\ kpc = "print" /\ text # <<>>
  /\ U!Putc(Head(text))
  /\ text' = Tail(text)
  /\ UNCHANGED <<upc, buf, nbytes, uret, got, table, kpc, uart_dev_id, buffer>>

PrintDone ==
  /\ kpc = "print" /\ text = <<>>
  /\ kpc' = "read"
  /\ UNCHANGED <<uart, table, uart_dev_id, text, buffer>>

-----------------------------------------------------------------------------
\* device_read(uart_dev_id, &buffer, 1): an id that reaches no driver leaves
\* buffer as it is, and the return value is ignored either way.
Read ==
  /\ kpc = "read"
  /\ D!Dispatch(uart_dev_id)
  /\ IF served'.to = UartOps THEN U!ReadStart(1) /\ kpc' = "reading"
                             ELSE UNCHANGED uart /\ kpc' = "write"
  /\ UNCHANGED <<uart_dev_id, text, buffer>>

Reading ==
  /\ kpc = "reading"
  /\ \/ /\ U!ReadTest
        /\ kpc' = IF upc' = "idle" THEN "write" ELSE "reading"
        /\ UNCHANGED buffer
     \/ /\ U!ReadByte
        /\ buffer' = Head(rxfifo)
        /\ UNCHANGED kpc
  /\ UNCHANGED <<table, uart_dev_id, text>>

\* Mutant: the loop writes only what a read reported as one byte.
WriteIfRead ==
  /\ kpc = "write"
  /\ IF uret = 1
       THEN D!Dispatch(uart_dev_id) /\ U!WriteStart(<<buffer>>) /\ kpc' = "writing"
       ELSE UNCHANGED <<uart, table>> /\ kpc' = "read"
  /\ UNCHANGED <<uart_dev_id, text, buffer>>

\* Mutant: the echo expands LF as printk does.
WriteExpanded ==
  /\ kpc = "write"
  /\ D!Dispatch(uart_dev_id)
  /\ U!WriteStart(putc(buffer)) /\ kpc' = "writing"
  /\ UNCHANGED <<uart_dev_id, text, buffer>>

\* device_write(uart_dev_id, &buffer, 1)
Write ==
  /\ kpc = "write"
  /\ D!Dispatch(uart_dev_id)
  /\ IF served'.to = UartOps THEN U!WriteStart(<<buffer>>) /\ kpc' = "writing"
                             ELSE UNCHANGED uart /\ kpc' = "read"
  /\ UNCHANGED <<uart_dev_id, text, buffer>>

Writing ==
  /\ kpc = "writing"
  /\ \/ U!WriteByte /\ UNCHANGED kpc
     \/ U!WriteDone /\ kpc' = "read"
  /\ UNCHANGED <<table, uart_dev_id, text, buffer>>

-----------------------------------------------------------------------------
Kernel == \/ Reset \/ Register \/ Registering \/ Registered
          \/ PrintChar \/ PrintDone
          \/ Read \/ Reading \/ Write \/ Writing

Hardware(A) == A /\ UNCHANGED <<table, kernel>>

Transmit == Hardware(U!Transmit)
Receive  == \E b \in Bytes : Hardware(U!Receive(b))

Next == Kernel \/ Transmit \/ Receive

\* The kernel is the only thread and never sleeps; the baud clock runs.
Spec == Init /\ [][Next]_vars /\ WF_vars(Kernel) /\ WF_vars(Transmit)

-----------------------------------------------------------------------------
\* A byte the echo loop holds between uart_getc and uart_putc.
InHand ==
  IF kpc = "write" \/ (kpc = "reading" /\ upc = "read" /\ nbytes = 0)
    THEN <<buffer>> ELSE buf

\* Nothing is lost, repeated or reordered between the receive FIFO and DR: what
\* was accepted is what was stored, what is in the loop's hand, and what waits
\* in the FIFO - after the text, of which every LF went out as CR LF
\* (kernel.c:82-86, uart.c:105-141, putc.c:6-12).
EchoConserved ==
  Printed \o arrived = written \o text \o InHand \o rxfifo

\* The UART driver is the device the kernel reads and writes, and it is used
\* only once uart_init has returned: no call hits an unregistered id, and the
\* registration never ends in kernel_panic (kernel.c:68-73).
UsesUart ==
  /\ kpc # "panic"
  /\ kpc \in {"print", "read", "reading", "write", "writing"} =>
       enabled /\ uart_dev_id \in DOMAIN clients
  /\ kpc \in {"reading", "writing"} => served.to = UartOps

\* The kernel is the echoing line it was meant to be, also in that every
\* accepted character is eventually answered.
Line == INSTANCE EchoLine WITH
  Characters <- Bytes, Greeting <- Printed, accepted <- arrived, out <- wire

Echoes == Line!Spec
=============================================================================

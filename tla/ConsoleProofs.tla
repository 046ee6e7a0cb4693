---------------------------- MODULE ConsoleProofs ----------------------------
(* Proofs about Console, for any text, any FIFO depth and any device table.  *)
EXTENDS Console, SequenceTheorems, WellFoundedInduction, TLAPS

-----------------------------------------------------------------------------
\* A non-empty set of natural numbers has a least element.
LEMMA LeastOf ==
  ASSUME NEW S \in SUBSET Nat, S # {}
  PROVE  \E x \in S : \A y \in S : x <= y
<1>1. \E x \in S : \A y \in S : ~ (<<y, x>> \in OpToRel(<, Nat))
  BY NatLessThanWellFounded, WFMin
<1>2. ASSUME NEW x \in S, NEW y \in S, ~ (<<y, x>> \in OpToRel(<, Nat))
      PROVE  x <= y
  <2>1. <<y, x>> \in Nat \X Nat /\ <<y, x>>[1] = y /\ <<y, x>>[2] = x
    OBVIOUS
  <2>2. ~ (y < x)
    BY <1>2, <2>1 DEF OpToRel
  <2>3. QED BY <2>2
<1>3. QED BY <1>1, <1>2

\* putc sends characters of the line.
LEMMA PutcType ==
  ASSUME NEW c \in Bytes PROVE putc(c) \in Seq(Bytes)
<1>1. LF \in Bytes /\ CR \in Bytes
  BY ConsoleAssumption
<1>2. <<CR, LF>> \in Seq(Bytes) /\ <<c>> \in Seq(Bytes)
  BY <1>1
<1>3. QED BY <1>2 DEF putc

\* The first n characters of Text, printed: f[k] is what the first k become.
Prints(f, n) ==
  /\ f \in [0 .. n -> Seq(Bytes)]
  /\ f[0] = <<>>
  /\ \A k \in 1 .. n : f[k] = f[k - 1] \o putc(Text[k])

\* Text can be printed to the end: if not, there is a least length that cannot,
\* it is not 0, and one more character can follow what could.
LEMMA Printable == \E f : Prints(f, Len(Text))
<1> DEFINE bad == {n \in 0 .. Len(Text) : \A f : ~ Prints(f, n)}
<1>1. Len(Text) \in Nat /\ \A k \in 1 .. Len(Text) : putc(Text[k]) \in Seq(Bytes)
  <2>1. Text \in Seq(Bytes)
    BY ConsoleAssumption
  <2>2. QED BY <2>1, PutcType
<1>2. SUFFICES ASSUME bad # {} PROVE FALSE
  <2>1. Len(Text) \notin bad
    BY <1>2
  <2>2. QED BY <2>1, <1>1
<1>3. PICK n \in bad : \A m \in bad : n <= m
  <2>1. bad \in SUBSET Nat
    OBVIOUS
  <2> HIDE DEF bad
  <2>2. QED BY <1>2, <2>1, LeastOf
<1>4. n \in Nat /\ n <= Len(Text) /\ \A f : ~ Prints(f, n)
  BY <1>1
<1>5. n # 0
  <2>1. Prints([k \in 0 .. 0 |-> <<>>], 0)
    <3>1. <<>> \in Seq(Bytes)
      BY EmptySeq
    <3>2. QED BY <3>1 DEF Prints
  <2>2. QED BY <2>1, <1>4
<1>6. n - 1 \notin bad /\ n - 1 \in 0 .. Len(Text)
  <2>1. n - 1 \in Int /\ ~ (n <= n - 1)
    BY <1>4
  <2>2. n - 1 \in 0 .. Len(Text)
    BY <1>1, <1>4, <1>5
  <2> HIDE DEF bad
  <2>3. QED BY <2>1, <2>2, <1>3
<1>7. PICK f : Prints(f, n - 1)
  BY <1>6
<1> DEFINE g == [k \in 0 .. n |-> IF k = n THEN f[n - 1] \o putc(Text[n]) ELSE f[k]]
<1>8. putc(Text[n]) \in Seq(Bytes)
  BY <1>1, <1>4, <1>5
<1>9. f[n - 1] \in Seq(Bytes)
  BY <1>4, <1>5, <1>7 DEF Prints
<1>10. f[n - 1] \o putc(Text[n]) \in Seq(Bytes)
  BY <1>8, <1>9, ConcatProperties
<1>11. \A k \in 0 .. n : k # n => k \in 0 .. n - 1
  BY <1>4
<1>12. \A k \in 0 .. n : g[k] \in Seq(Bytes)
  <2>1. ASSUME NEW k \in 0 .. n PROVE g[k] \in Seq(Bytes)
    <3>1. CASE k = n
      BY <3>1, <1>10
    <3>2. CASE k # n
      BY <3>2, <1>7, <1>11 DEF Prints
    <3>3. QED BY <3>1, <3>2
  <2>2. QED BY <2>1
<1>13. \A k \in 1 .. n : g[k] = g[k - 1] \o putc(Text[k])
  <2>1. ASSUME NEW k \in 1 .. n PROVE g[k] = g[k - 1] \o putc(Text[k])
    <3>1. k - 1 \in 0 .. n /\ k - 1 # n /\ k \in 0 .. n /\ n \in 0 .. n
      BY <1>4
    <3>2. g[k - 1] = f[k - 1]
      BY <3>1
    <3>3. CASE k = n
      BY <3>1, <3>2, <3>3
    <3>4. CASE k # n
      <4>1. k \in 1 .. n - 1
        BY <3>4, <1>4
      <4>2. f[k] = f[k - 1] \o putc(Text[k])
        BY <4>1, <1>7 DEF Prints
      <4>3. QED BY <3>1, <3>2, <3>4, <4>2
    <3>5. QED BY <3>3, <3>4
  <2>2. QED BY <2>1
<1>14. g[0] = <<>>
  <2>1. 0 \in 0 .. n /\ g[0] = f[0]
    BY <1>4, <1>5
  <2>2. QED BY <2>1, <1>7 DEF Prints
<1>15. g \in [0 .. n -> Seq(Bytes)]
  BY <1>12
<1>16. Prints(g, n)
  <2> HIDE DEF g
  <2>1. QED BY <1>13, <1>14, <1>15 DEF Prints
<1>17. QED BY <1>16, <1>4

\* Emitted is defined by its equation...
LEMMA EmittedEquation ==
  Emitted = [n \in 0 .. Len(Text) |->
               IF n = 0 THEN <<>> ELSE Emitted[n - 1] \o putc(Text[n])]
<1> DEFINE Body(f) == [n \in 0 .. Len(Text) |->
                         IF n = 0 THEN <<>> ELSE f[n - 1] \o putc(Text[n])]
<1>1. PICK f : Prints(f, Len(Text))
  BY Printable
<1>2. Len(Text) \in Nat
  <2>1. Text \in Seq(Bytes)
    BY ConsoleAssumption
  <2>2. QED BY <2>1
<1>3. f = Body(f)
  <2>1. \A n \in 0 .. Len(Text) : n # 0 => n \in 1 .. Len(Text)
    BY <1>2
  <2>2. \A n \in 0 .. Len(Text) :
           f[n] = IF n = 0 THEN <<>> ELSE f[n - 1] \o putc(Text[n])
    BY <1>1, <2>1 DEF Prints
  <2>3. QED BY <1>1, <2>2 DEF Prints
<1>4. Emitted = CHOOSE h : h = Body(h)
  BY DEF Emitted
<1> HIDE DEF Body
<1>5. Emitted = Body(Emitted)
  BY <1>3, <1>4
<1>6. QED BY <1>5 DEF Body

\* ... and what is printed is a sequence of characters of the line.
LEMMA PrintedType == Printed \in Seq(Bytes)
<1> DEFINE bad == {n \in 0 .. Len(Text) : Emitted[n] \notin Seq(Bytes)}
<1>1. Len(Text) \in Nat /\ \A k \in 1 .. Len(Text) : putc(Text[k]) \in Seq(Bytes)
  <2>1. Text \in Seq(Bytes)
    BY ConsoleAssumption
  <2>2. QED BY <2>1, PutcType
<1>2. SUFFICES ASSUME bad # {} PROVE FALSE
  BY <1>1, <1>2 DEF Printed
<1>3. PICK n \in bad : \A m \in bad : n <= m
  <2>1. bad \in SUBSET Nat
    OBVIOUS
  <2> HIDE DEF bad
  <2>2. QED BY <1>2, <2>1, LeastOf
<1>4. n \in Nat /\ n <= Len(Text) /\ Emitted[n] \notin Seq(Bytes)
  BY <1>1
<1>5. n # 0
  <2>1. 0 \in 0 .. Len(Text)
    BY <1>1
  <2>2. Emitted[0] = <<>>
    BY <2>1, EmittedEquation
  <2>3. QED BY <2>2, <1>4, EmptySeq
<1>6. n - 1 \notin bad /\ n - 1 \in 0 .. Len(Text)
  <2>1. n - 1 \in Int /\ ~ (n <= n - 1)
    BY <1>4
  <2>2. n - 1 \in 0 .. Len(Text)
    BY <1>1, <1>4, <1>5
  <2> HIDE DEF bad
  <2>3. QED BY <2>1, <2>2, <1>3
<1>7. Emitted[n - 1] \in Seq(Bytes) /\ putc(Text[n]) \in Seq(Bytes)
  BY <1>1, <1>4, <1>5, <1>6
<1>8. Emitted[n] = Emitted[n - 1] \o putc(Text[n])
  <2>1. n \in 0 .. Len(Text)
    BY <1>1, <1>4
  <2>2. QED BY <2>1, <1>5, EmittedEquation
<1>9. Emitted[n] \in Seq(Bytes)
  BY <1>7, <1>8, ConcatProperties
<1>10. QED BY <1>4, <1>9
-----------------------------------------------------------------------------
\* The invariant: the types; where the kernel, the table and the driver are
\* with respect to each other; what the buffers hold; and the two orders.
Types ==
  /\ enabled \in BOOLEAN
  /\ txfifo \in Seq(Bytes) /\ rxfifo \in Seq(Bytes)
  /\ shifter \in {<<>>} \cup {<<b>> : b \in Bytes}
  /\ written \in Seq(Bytes) /\ wire \in Seq(Bytes) /\ arrived \in Seq(Bytes)
  /\ buf \in Seq(Bytes) /\ text \in Seq(Bytes) /\ buffer \in Bytes
  /\ table_ops \in [D!Slots -> {UartOps, NullOps}]

Starting == kpc \in {"start", "reset", "register"}
InUse    == kpc \in {"print", "read", "reading", "write", "writing"}

\* Until the registration nothing is registered and the UART is off.
StartControl ==
  Starting =>
    /\ ~enabled /\ upc = "idle" /\ uret = 0
    /\ valid = {} /\ num_devices = 0
    /\ dpc = IF kpc = "reset" THEN "clear" ELSE "idle"

\* The registration takes slot 0, and uart_init, which always succeeds, has
\* returned before the slot is marked.
RegisterControl ==
  kpc = "registering" =>
    /\ i = 0 /\ dev_ops = UartOps /\ uret = 0
    /\ dpc \in {"scan", "init", "mark", "bind"}
    /\ valid = IF dpc = "bind" THEN {0} ELSE {}
    /\ upc \in {"idle", "drain"}
    /\ dpc = "scan" \/ enabled => upc = "idle"
    /\ dpc = "scan" => ~enabled
    /\ dpc \in {"mark", "bind"} => enabled

\* From then on the id the kernel holds is that of a slot with the driver.
UseControl ==
  InUse =>
    /\ enabled /\ dpc = "idle"
    /\ valid = {0} /\ table_ops[0] = UartOps
    /\ uart_dev_id = 0 /\ 0 \in DOMAIN clients
    /\ kpc \in {"print", "read", "write"} => upc = "idle"
    /\ kpc = "reading" => upc \in {"read", "getc"}
    /\ kpc = "writing" => upc = "write"
    /\ kpc \in {"reading", "writing"} => served.to = UartOps

Control ==
  /\ Starting \/ kpc = "registering" \/ InUse
  /\ StartControl /\ RegisterControl /\ UseControl

\* The text is printed before the echo, the driver's buffer is empty outside
\* uart_write, and uart_read is asked for one byte.
Buffers ==
  /\ InUse /\ kpc # "print" => text = <<>>
  /\ kpc # "writing" => buf = <<>>
  /\ kpc = "reading" /\ upc = "getc" => nbytes = 0
  /\ kpc = "reading" /\ upc = "read" => nbytes \in {0, 1}

IInv == Types /\ Control /\ Buffers /\ EchoConserved /\ U!SentInOrder

-----------------------------------------------------------------------------
\* A character taken from the front of one sequence and put at the end of the
\* one before it leaves their concatenation as it was.
LEMMA MoveFront ==
  ASSUME NEW S, NEW s \in Seq(S), NEW t \in Seq(S), t # <<>>
  PROVE  /\ Head(t) \in S /\ Tail(t) \in Seq(S) /\ t = <<Head(t)>> \o Tail(t)
         /\ Append(s, Head(t)) \in Seq(S)
         /\ s \o t = Append(s, Head(t)) \o Tail(t)
<1>1. Head(t) \in S /\ Tail(t) \in Seq(S)
  BY HeadTailProperties
<1>2. t = <<Head(t)>> \o Tail(t)
  OBVIOUS
<1>3. s \o (<<Head(t)>> \o Tail(t)) = (s \o <<Head(t)>>) \o Tail(t)
  BY <1>1, ConcatAssociative
<1>4. Append(s, Head(t)) = s \o <<Head(t)>>
  BY <1>1, AppendIsConcat
<1>5. QED BY <1>1, <1>2, <1>3, <1>4

\* Appending to the last of two sequences appends to their concatenation.
LEMMA AppendLast ==
  ASSUME NEW S, NEW s \in Seq(S), NEW t \in Seq(S), NEW e \in S
  PROVE  /\ Append(t, e) \in Seq(S)
         /\ s \o Append(t, e) = Append(s \o t, e)
<1>1. Append(t, e) = t \o <<e>> /\ Append(s \o t, e) = (s \o t) \o <<e>>
  BY AppendIsConcat, ConcatProperties
<1>2. s \o (t \o <<e>>) = (s \o t) \o <<e>>
  BY ConcatAssociative
<1>3. QED BY <1>1, <1>2, AppendProperties

\* Concatenation of sequences of characters.
LEMMA Assoc ==
  \A s, t, u \in Seq(Bytes) : (s \o t) \o u = s \o (t \o u)
BY ConcatAssociative

\* The sequences of the invariant.
LEMMA AllSequences ==
  ASSUME Types
  PROVE  /\ shifter \in Seq(Bytes) /\ wire \o shifter \in Seq(Bytes)
         /\ <<buffer>> \in Seq(Bytes) /\ InHand \in Seq(Bytes)
         /\ written \o text \in Seq(Bytes)
         /\ written \o text \o InHand \in Seq(Bytes)
         /\ Printed \o arrived \in Seq(Bytes)
<1>1. shifter \in Seq(Bytes)
  <2>1. CASE shifter = <<>>
    BY <2>1
  <2>2. ASSUME NEW b \in Bytes, shifter = <<b>> PROVE shifter \in Seq(Bytes)
    BY <2>2
  <2>3. QED BY <2>1, <2>2 DEF Types
<1>2. wire \in Seq(Bytes) /\ written \in Seq(Bytes) /\ text \in Seq(Bytes)
      /\ buf \in Seq(Bytes) /\ arrived \in Seq(Bytes) /\ buffer \in Bytes
  BY DEF Types
<1>3. <<buffer>> \in Seq(Bytes)
  BY <1>2
<1>4. InHand \in Seq(Bytes)
  BY <1>2, <1>3 DEF InHand
<1>5. wire \o shifter \in Seq(Bytes) /\ written \o text \in Seq(Bytes)
  BY <1>1, <1>2, ConcatProperties
<1>6. Printed \o arrived \in Seq(Bytes)
  BY <1>2, PrintedType, ConcatProperties
<1>7. written \o text \o InHand \in Seq(Bytes)
  BY <1>4, <1>5, ConcatProperties
<1>8. QED BY <1>1, <1>3, <1>4, <1>5, <1>6, <1>7

-----------------------------------------------------------------------------
\* The kernel starts with an empty table, a quiet UART and the text to print.
LEMMA InitIInv == Init => IInv
<1> SUFFICES ASSUME Init PROVE IInv
  OBVIOUS
<1> USE DEF Init, U!Init, D!Init
<1>1. <<>> \in Seq(Bytes)
  BY EmptySeq
<1>2. Types
  BY <1>1, PrintedType DEF Types
<1>3. Control
  BY DEF Control, Starting, InUse, StartControl, RegisterControl, UseControl
<1>4. Buffers
  BY DEF Buffers, InUse
<1>5. EchoConserved
  <2>1. InHand = <<>>
    BY DEF InHand
  <2>2. \A s \in Seq(Bytes) : s \o <<>> = s /\ <<>> \o s = s
    BY ConcatEmptySeq
  <2>3. QED BY <2>1, <2>2, PrintedType DEF EchoConserved
<1>6. U!SentInOrder
  <2>1. <<>> = <<>> \o <<>> \o <<>>
    OBVIOUS
  <2>2. QED BY <2>1 DEF U!SentInOrder
<1>7. QED BY <1>2, <1>3, <1>4, <1>5, <1>6 DEF IInv

\* device_init empties the table.
LEMMA ResetIInv == IInv /\ Reset => IInv'
<1> SUFFICES ASSUME IInv, Reset PROVE IInv'
  OBVIOUS
<1> USE DEF IInv, Reset, uart
<1>1. Starting /\ Starting' /\ ~InUse /\ ~InUse'
      /\ kpc # "registering" /\ kpc' # "registering"
  BY DEF Starting, InUse
<1>2. table_ops' = table_ops /\ valid' \subseteq valid /\ num_devices' \in {0, num_devices}
  BY DEF D!InitStart, D!InitClear, D!InitDone
<1>3. dpc' = IF kpc' = "reset" THEN "clear" ELSE "idle"
  BY <1>1 DEF D!InitStart, D!InitClear, D!InitDone, Control, StartControl
<1>4. Types'
  BY <1>2 DEF Types, D!Slots
<1>5. Control'
  BY <1>1, <1>2, <1>3 DEF Control, StartControl, RegisterControl, UseControl
<1>6. Buffers' /\ InHand' = InHand
  BY <1>1 DEF Buffers, InHand, Starting
<1>7. QED BY <1>4, <1>5, <1>6 DEF EchoConserved, U!SentInOrder

\* uart_register finds the table empty, so the registration starts.
LEMMA RegisterIInv == IInv /\ Register => IInv'
<1> SUFFICES ASSUME IInv, Register PROVE IInv'
  OBVIOUS
<1> USE DEF IInv, Register, uart
<1>1. ~ D!TableFull
  BY ConsoleAssumption DEF D!TableFull, Control, StartControl, Starting
<1>2. /\ kpc' = "registering" /\ dpc' = "scan" /\ i' = 0 /\ dev_ops' = UartOps
      /\ UNCHANGED <<valid, table_ops>>
  BY <1>1 DEF D!RegisterStart
<1>3. Types'
  BY <1>2 DEF Types, D!Slots
<1>4. Control'
  BY <1>2 DEF Control, Starting, InUse, StartControl, RegisterControl, UseControl
<1>5. Buffers' /\ InHand' = InHand
  BY <1>2 DEF Buffers, InHand, InUse
<1>6. QED BY <1>3, <1>4, <1>5 DEF EchoConserved, U!SentInOrder

\* The scan takes slot 0, uart_init succeeds, and the slot is marked after it.
LEMMA RegisteringIInv == IInv /\ Registering => IInv'
<1> SUFFICES ASSUME IInv, Registering PROVE IInv'
  OBVIOUS
<1> USE DEF IInv, Registering, Started, kernel, uart, table
<1>1. RegisterControl /\ ~Starting /\ ~Starting' /\ ~InUse /\ ~InUse'
      /\ kpc = "registering" /\ kpc' = "registering"
  BY DEF Control, Starting, InUse
<1>2. /\ UNCHANGED <<txfifo, shifter, rxfifo, wire, arrived, written, buf>>
      /\ UNCHANGED <<text, buffer, table_ops, i, dev_ops, uret>>
      /\ enabled' \in BOOLEAN
  BY <1>1 DEF Types, RegisterControl, U!InitDisable, U!InitConfigure, D!ScanTaken,
       D!ScanFree, D!MarkValid, D!DriverStarts, D!MSKE_SUCESS
<1>3. Types'
  BY <1>2 DEF Types, D!Slots
<1>4. RegisterControl'
  BY <1>1 DEF RegisterControl, U!InitDisable, U!InitConfigure, D!ScanTaken,
       D!ScanFree, D!MarkValid, D!DriverStarts, D!MSKE_SUCESS
<1>5. Control'
  BY <1>1, <1>4 DEF Control, StartControl, UseControl
<1>6. Buffers' /\ InHand' = InHand
  BY <1>1, <1>2 DEF Buffers, InHand
<1>7. QED BY <1>2, <1>3, <1>5, <1>6 DEF EchoConserved, U!SentInOrder

\* The kernel gets the id of slot 0.
LEMMA RegisteredIInv == IInv /\ Registered => IInv'
<1> SUFFICES ASSUME IInv, Registered PROVE IInv'
  OBVIOUS
<1> USE DEF IInv, Registered, uart
<1>1. RegisterControl /\ kpc = "registering" /\ dpc = "bind" /\ D!BindOps
  <2>1. RegisterControl /\ kpc = "registering"
    BY DEF Control, Starting, InUse
  <2>2. ~(dpc = "init" /\ ~Started /\ enabled)
    BY <2>1 DEF RegisterControl, Started, D!MSKE_SUCESS
  <2> QED
    BY <2>1, <2>2 DEF D!BindOps
<1>2. i = 0 /\ dev_ops = UartOps /\ valid = {0} /\ enabled /\ upc = "idle"
  BY <1>1 DEF RegisterControl
<1>3. D!dev_id = 0
  BY <1>2 DEF D!dev_id
<1>4. dret'.code = 0
  BY <1>1, <1>3 DEF D!BindOps
<1>5. kpc' = "print" /\ uart_dev_id' = 0
  BY <1>4
<1>6. 0 \in D!Slots
  BY ConsoleAssumption DEF D!Slots
<1>7. table_ops' \in [D!Slots -> {UartOps, NullOps}] /\ table_ops'[0] = UartOps
  BY <1>1, <1>2, <1>6 DEF Types, D!BindOps
<1>8. 0 \in DOMAIN clients' /\ dpc' = "idle" /\ valid' = valid
  BY <1>1, <1>3 DEF D!BindOps
<1>9. Types'
  BY <1>7 DEF Types, D!Slots
<1>10. Control'
  BY <1>2, <1>5, <1>7, <1>8
     DEF Control, Starting, InUse, StartControl, RegisterControl, UseControl
<1>11. Buffers' /\ InHand' = InHand
  BY <1>1, <1>5 DEF Buffers, InHand
<1>12. QED BY <1>9, <1>10, <1>11 DEF EchoConserved, U!SentInOrder

-----------------------------------------------------------------------------
\* A character of the text goes from the text to what is written.
LEMMA PrintCharIInv == IInv /\ PrintChar => IInv'
<1> SUFFICES ASSUME IInv, PrintChar PROVE IInv'
  OBVIOUS
<1> USE DEF IInv, PrintChar, U!Putc, table
<1>1. /\ Head(text) \in Bytes /\ Tail(text) \in Seq(Bytes)
      /\ Append(written, Head(text)) \in Seq(Bytes)
      /\ written \o text = Append(written, Head(text)) \o Tail(text)
  <2>1. written \in Seq(Bytes) /\ text \in Seq(Bytes) /\ text # <<>>
    BY DEF Types
  <2>2. QED BY ONLY <2>1, MoveFront
<1>2. /\ Append(txfifo, Head(text)) \in Seq(Bytes)
      /\ (wire \o shifter) \o Append(txfifo, Head(text))
           = Append((wire \o shifter) \o txfifo, Head(text))
  <2> DEFINE w == wire \o shifter
  <2>1. w \in Seq(Bytes) /\ txfifo \in Seq(Bytes)
    BY AllSequences DEF Types
  <2> HIDE DEF w
  <2>2. /\ Append(txfifo, Head(text)) \in Seq(Bytes)
      /\ w \o Append(txfifo, Head(text)) = Append(w \o txfifo, Head(text))
    BY <1>1, <2>1, AppendLast
  <2>3. QED BY <2>2 DEF w
<1>3. Types'
  BY <1>1, <1>2 DEF Types, D!Slots
<1>4. Control'
  BY DEF Control, Starting, InUse, StartControl, RegisterControl, UseControl
<1>5. Buffers' /\ InHand' = InHand
  BY DEF Buffers, InHand, InUse
<1>6. written' \o text' = written \o text
  BY <1>1
<1>7. EchoConserved'
  BY <1>5, <1>6 DEF EchoConserved
<1>8. U!SentInOrder'
  BY <1>2 DEF U!SentInOrder
<1>9. QED BY <1>3, <1>4, <1>5, <1>7, <1>8

\* The text ends, and the echo begins.
LEMMA PrintDoneIInv == IInv /\ PrintDone => IInv'
<1> SUFFICES ASSUME IInv, PrintDone PROVE IInv'
  OBVIOUS
<1> USE DEF IInv, PrintDone, uart, table
<1>1. Types'
  BY DEF Types, D!Slots
<1>2. Control'
  BY DEF Control, Starting, InUse, StartControl, RegisterControl, UseControl
<1>3. Buffers' /\ InHand' = InHand
  BY DEF Buffers, InHand, InUse
<1>4. QED BY <1>1, <1>2, <1>3 DEF EchoConserved, U!SentInOrder

\* A call through the id of the kernel reaches the driver.
LEMMA DispatchReaches ==
  ASSUME IInv, InUse, D!Dispatch(uart_dev_id)
  PROVE  /\ served'.to = UartOps
         /\ UNCHANGED <<num_devices, valid, table_ops, dpc, i, dev_ops, dret, clients>>
BY DEF IInv, Control, UseControl, D!Dispatch, Starting, InUse

\* The read is asked for one byte.
LEMMA ReadIInv == IInv /\ Read => IInv'
<1> SUFFICES ASSUME IInv, Read PROVE IInv'
  OBVIOUS
<1> USE DEF IInv, Read
<1>1. served'.to = UartOps
      /\ UNCHANGED <<num_devices, valid, table_ops, dpc, i, dev_ops, dret, clients>>
  BY DispatchReaches DEF InUse
<1>2. /\ nbytes' = 1 /\ upc' = "read" /\ kpc' = "reading"
      /\ UNCHANGED <<enabled, txfifo, shifter, rxfifo, wire, arrived, buf, written>>
  BY <1>1 DEF U!ReadStart, U!hardware
<1>3. Types'
  BY <1>1, <1>2 DEF Types, D!Slots
<1>4. Control'
  BY <1>1, <1>2 DEF Control, Starting, InUse, StartControl, RegisterControl, UseControl
<1>5. Buffers' /\ InHand' = InHand
  BY <1>2 DEF Buffers, InHand, InUse
<1>6. QED BY <1>2, <1>3, <1>4, <1>5 DEF EchoConserved, U!SentInOrder

\* The byte goes from the FIFO to the loop's hand, and stays there.
LEMMA ReadingIInv == IInv /\ Reading => IInv'
<1> SUFFICES ASSUME IInv, Reading PROVE IInv'
  OBVIOUS
<1> USE DEF IInv, Reading, table
<1>1. Control /\ UseControl /\ InUse /\ InUse' /\ buf = <<>> /\ text = <<>>
  BY DEF Control, Buffers, InUse
<1>2. CASE /\ U!ReadTest
           /\ kpc' = IF upc' = "idle" THEN "write" ELSE "reading"
           /\ UNCHANGED buffer
  <2>1. UNCHANGED <<enabled, txfifo, shifter, rxfifo, wire, arrived, buf, written>>
    BY <1>2 DEF U!ReadTest, U!hardware
  <2>2. \/ nbytes = 1 /\ upc' = "getc" /\ kpc' = "reading" /\ nbytes' = 0
        \/ nbytes = 0 /\ upc' = "idle" /\ kpc' = "write"
    <3>1. (1 - 1) % WordSize = 0
      BY ConsoleAssumption
    <3>2. nbytes \in {0, 1}
      BY <1>2 DEF Buffers, U!ReadTest
    <3>3. QED BY <1>2, <3>1, <3>2 DEF U!ReadTest, U!Decremented
  <2>3. Types'
    BY <1>2, <2>1 DEF Types, D!Slots
  <2>4. Control'
    BY <1>1, <2>1, <2>2
       DEF Control, Starting, InUse, StartControl, RegisterControl, UseControl
  <2>5. Buffers'
    BY <2>1, <2>2 DEF Buffers, InUse
  <2>6. InHand' = InHand
    BY <1>2, <2>1, <2>2 DEF InHand, U!ReadTest
  <2>7. QED BY <2>1, <2>3, <2>4, <2>5, <2>6 DEF EchoConserved, U!SentInOrder
<1>3. CASE U!ReadByte /\ buffer' = Head(rxfifo) /\ UNCHANGED kpc
  <2>1. /\ upc = "getc" /\ upc' = "read" /\ nbytes = 0 /\ nbytes' = 0
        /\ rxfifo # <<>> /\ rxfifo' = Tail(rxfifo)
        /\ UNCHANGED <<enabled, txfifo, shifter, wire, arrived, buf, written>>
    BY <1>3 DEF U!ReadByte, U!Getc, U!FR_RXFE, Buffers
  <2>2. /\ Head(rxfifo) \in Bytes /\ Tail(rxfifo) \in Seq(Bytes)
        /\ rxfifo = <<Head(rxfifo)>> \o Tail(rxfifo)
    BY <2>1, MoveFront DEF Types
  <2>3. Types'
    BY <1>3, <2>1, <2>2 DEF Types, D!Slots
  <2>4. Control'
    BY <1>1, <1>3, <2>1
       DEF Control, Starting, InUse, StartControl, RegisterControl, UseControl
  <2>5. Buffers'
    BY <1>1, <1>3, <2>1 DEF Buffers, InUse
  <2>6. InHand = <<>> /\ InHand' = <<Head(rxfifo)>>
    BY <1>1, <1>3, <2>1 DEF InHand
  <2>7. EchoConserved'
    <3>1. written \o text \in Seq(Bytes)
      BY AllSequences
    <3>2. <<Head(rxfifo)>> \in Seq(Bytes)
      BY <2>2
    <3>3. (written \o text) \o (<<Head(rxfifo)>> \o Tail(rxfifo))
            = ((written \o text) \o <<Head(rxfifo)>>) \o Tail(rxfifo)
      BY <2>2, <3>1, <3>2, Assoc
    <3>4. (written \o text) \o <<>> = written \o text
      BY <3>1, ConcatEmptySeq
    <3>5. QED BY <2>1, <2>2, <2>6, <3>3, <3>4 DEF EchoConserved
  <2>8. QED BY <2>1, <2>3, <2>4, <2>5, <2>7 DEF U!SentInOrder
<1>4. QED BY <1>2, <1>3

\* The byte goes from the loop's hand to the driver's buffer.
LEMMA WriteIInv == IInv /\ Write => IInv'
<1> SUFFICES ASSUME IInv, Write PROVE IInv'
  OBVIOUS
<1> USE DEF IInv, Write
<1>1. served'.to = UartOps
      /\ UNCHANGED <<num_devices, valid, table_ops, dpc, i, dev_ops, dret, clients>>
  BY DispatchReaches DEF InUse
<1>2. /\ buf' = <<buffer>> /\ upc' = "write" /\ kpc' = "writing"
      /\ UNCHANGED <<enabled, txfifo, shifter, rxfifo, wire, arrived, written>>
  BY <1>1 DEF U!WriteStart, U!hardware
<1>3. Types'
  BY <1>1, <1>2, AllSequences DEF Types, D!Slots
<1>4. Control'
  BY <1>1, <1>2 DEF Control, Starting, InUse, StartControl, RegisterControl, UseControl
<1>5. Buffers' /\ InHand' = InHand
  BY <1>2 DEF Buffers, InHand, InUse
<1>6. QED BY <1>2, <1>3, <1>4, <1>5 DEF EchoConserved, U!SentInOrder

\* And from there to what is written.
LEMMA WritingIInv == IInv /\ Writing => IInv'
<1> SUFFICES ASSUME IInv, Writing PROVE IInv'
  OBVIOUS
<1> USE DEF IInv, Writing, table
<1>1. Control /\ UseControl /\ InUse /\ InUse' /\ text = <<>>
  BY DEF Control, Buffers, InUse
<1>2. CASE U!WriteByte /\ UNCHANGED kpc
  <2>1. /\ buf # <<>> /\ buf' = Tail(buf) /\ upc = "write" /\ UNCHANGED upc
        /\ txfifo' = Append(txfifo, Head(buf))
        /\ written' = Append(written, Head(buf))
        /\ UNCHANGED <<enabled, shifter, rxfifo, wire, arrived>>
    BY <1>2 DEF U!WriteByte, U!Putc
  <2>2. /\ Head(buf) \in Bytes /\ Tail(buf) \in Seq(Bytes)
        /\ Append(written, Head(buf)) \in Seq(Bytes)
        /\ written \o buf = Append(written, Head(buf)) \o Tail(buf)
    <3>1. written \in Seq(Bytes) /\ buf \in Seq(Bytes) /\ buf # <<>>
      BY <2>1 DEF Types
    <3>2. QED BY ONLY <3>1, MoveFront
  <2>3. /\ Append(txfifo, Head(buf)) \in Seq(Bytes)
        /\ (wire \o shifter) \o Append(txfifo, Head(buf))
             = Append((wire \o shifter) \o txfifo, Head(buf))
    <3> DEFINE w == wire \o shifter
    <3>1. w \in Seq(Bytes) /\ txfifo \in Seq(Bytes)
      BY AllSequences DEF Types
    <3> HIDE DEF w
    <3>2. /\ Append(txfifo, Head(buf)) \in Seq(Bytes)
        /\ w \o Append(txfifo, Head(buf)) = Append(w \o txfifo, Head(buf))
      BY <2>2, <3>1, AppendLast
    <3>3. QED BY <3>2 DEF w
  <2>4. Types'
    BY <2>1, <2>2, <2>3 DEF Types, D!Slots
  <2>5. Control'
    BY <1>1, <1>2, <2>1
       DEF Control, Starting, InUse, StartControl, RegisterControl, UseControl
  <2>6. Buffers'
    BY <1>1, <1>2, <2>1 DEF Buffers, InUse
  <2>7. EchoConserved'
    <3>1. InHand = buf /\ InHand' = buf'
      BY <1>2, <2>1 DEF InHand
    <3>2. written \o text = written /\ written' \o text' = written'
      BY <1>1, <2>1, <2>2, ConcatEmptySeq DEF Types
    <3>3. QED BY <2>1, <2>2, <3>1, <3>2 DEF EchoConserved
  <2>8. U!SentInOrder'
    BY <2>1, <2>3 DEF U!SentInOrder
  <2>9. QED BY <2>4, <2>5, <2>6, <2>7, <2>8
<1>3. CASE U!WriteDone /\ kpc' = "read"
  <2>1. /\ buf = <<>> /\ upc' = "idle"
        /\ UNCHANGED <<enabled, txfifo, shifter, rxfifo, wire, arrived, buf, written>>
    BY <1>3 DEF U!WriteDone, U!hardware
  <2>2. Types'
    BY <2>1 DEF Types, D!Slots
  <2>3. Control'
    BY <1>1, <1>3, <2>1
       DEF Control, Starting, InUse, StartControl, RegisterControl, UseControl
  <2>4. Buffers' /\ InHand' = InHand
    BY <1>1, <1>3, <2>1 DEF Buffers, InHand, InUse
  <2>5. QED BY <2>1, <2>2, <2>3, <2>4 DEF EchoConserved, U!SentInOrder
<1>4. QED BY <1>2, <1>3

-----------------------------------------------------------------------------
\* The hardware moves bytes along the line, and adds what it accepts.
LEMMA HardwareIInv ==
  ASSUME IInv, Transmit \/ Receive
  PROVE  IInv'
<1> USE DEF IInv, Hardware, table, kernel
<1>1. CASE Hardware(U!StartByte)
  <2> USE <1>1 DEF U!StartByte, U!driver
  <2>1. /\ Head(txfifo) \in Bytes /\ Tail(txfifo) \in Seq(Bytes)
        /\ wire \o txfifo = Append(wire, Head(txfifo)) \o Tail(txfifo)
    <3>1. wire \in Seq(Bytes) /\ txfifo \in Seq(Bytes) /\ txfifo # <<>>
      BY DEF Types
    <3>2. QED BY <3>1, MoveFront
  <2>2. wire \o shifter = wire /\ wire \o shifter' = Append(wire, Head(txfifo))
    BY <2>1, ConcatEmptySeq, AppendIsConcat DEF Types
  <2>3. U!SentInOrder'
    BY <2>1, <2>2 DEF U!SentInOrder
  <2>4. Types'
    BY <2>1 DEF Types, D!Slots
  <2>5. Control'
    BY DEF Control, Starting, InUse, StartControl, RegisterControl, UseControl
  <2>6. Buffers' /\ InHand' = InHand
    BY DEF Buffers, InHand, InUse
  <2>7. QED BY <2>3, <2>4, <2>5, <2>6 DEF EchoConserved
<1>2. CASE Hardware(U!FinishByte)
  <2> USE <1>2 DEF U!FinishByte, U!driver
  <2>1. wire' \in Seq(Bytes) /\ wire' \o shifter' = wire \o shifter
    BY AllSequences, ConcatEmptySeq
  <2>2. U!SentInOrder'
    BY <2>1 DEF U!SentInOrder
  <2>3. Types'
    BY <2>1 DEF Types, D!Slots
  <2>4. Control'
    BY DEF Control, Starting, InUse, StartControl, RegisterControl, UseControl
  <2>5. Buffers' /\ InHand' = InHand
    BY DEF Buffers, InHand, InUse
  <2>6. QED BY <2>2, <2>3, <2>4, <2>5 DEF EchoConserved
<1>3. ASSUME NEW b \in Bytes, Hardware(U!Receive(b)) PROVE IInv'
  <2> USE <1>3 DEF U!Receive, U!driver
  <2>1. \/ UNCHANGED <<rxfifo, arrived>>
        \/ rxfifo' = Append(rxfifo, b) /\ arrived' = Append(arrived, b)
    OBVIOUS
  <2>2. /\ Append(rxfifo, b) \in Seq(Bytes) /\ Append(arrived, b) \in Seq(Bytes)
        /\ Printed \o Append(arrived, b) = Append(Printed \o arrived, b)
        /\ (written \o text \o InHand) \o Append(rxfifo, b)
             = Append((written \o text \o InHand) \o rxfifo, b)
    <3>1. /\ rxfifo \in Seq(Bytes) /\ arrived \in Seq(Bytes)
          /\ Printed \in Seq(Bytes) /\ written \o text \o InHand \in Seq(Bytes)
      BY AllSequences, PrintedType DEF Types
    <3>2. /\ Append(arrived, b) \in Seq(Bytes)
          /\ Printed \o Append(arrived, b) = Append(Printed \o arrived, b)
      <4>1. Printed \in Seq(Bytes) /\ arrived \in Seq(Bytes) /\ b \in Bytes
        BY <3>1
      <4>2. QED BY ONLY <4>1, AppendLast
    <3> DEFINE w == written \o text \o InHand
    <3>3. w \in Seq(Bytes)
      BY <3>1
    <3> HIDE DEF w
    <3>4. /\ Append(rxfifo, b) \in Seq(Bytes)
          /\ w \o Append(rxfifo, b) = Append(w \o rxfifo, b)
      <4>1. w \in Seq(Bytes) /\ rxfifo \in Seq(Bytes) /\ b \in Bytes
        BY <3>1, <3>3
      <4>2. QED BY ONLY <4>1, AppendLast
    <3>5. QED BY <3>2, <3>4 DEF w
  <2>3. Types'
    BY <2>1, <2>2 DEF Types, D!Slots
  <2>4. Control'
    BY DEF Control, Starting, InUse, StartControl, RegisterControl, UseControl
  <2>5. Buffers' /\ InHand' = InHand
    BY DEF Buffers, InHand, InUse
  <2>6. EchoConserved'
    BY <2>1, <2>2, <2>5 DEF EchoConserved
  <2>7. QED BY <2>3, <2>4, <2>5, <2>6 DEF U!SentInOrder
<1>4. QED BY <1>1, <1>2, <1>3 DEF Transmit, Receive, U!Transmit

\* Every step of the kernel and of the hardware keeps the invariant.
LEMMA NextIInv == IInv /\ [Next]_vars => IInv'
<1> SUFFICES ASSUME IInv, [Next]_vars PROVE IInv'
  OBVIOUS
<1>1. CASE Kernel
  BY <1>1, ResetIInv, RegisterIInv, RegisteringIInv, RegisteredIInv, PrintCharIInv,
     PrintDoneIInv, ReadIInv, ReadingIInv, WriteIInv, WritingIInv DEF Kernel
<1>2. CASE Transmit \/ Receive
  BY <1>2, HardwareIInv
<1>3. CASE UNCHANGED vars
  <2> USE <1>3 DEF vars, uart, table, kernel
  <2>1. Types'
    BY DEF IInv, Types, D!Slots
  <2>2. Control'
    BY DEF IInv, Control, Starting, InUse, StartControl, RegisterControl, UseControl
  <2>3. Buffers' /\ InHand' = InHand
    BY DEF IInv, Buffers, InHand, InUse
  <2>4. QED BY <2>1, <2>2, <2>3 DEF IInv, EchoConserved, U!SentInOrder
<1>4. QED BY <1>1, <1>2, <1>3 DEF Next

\* The invariant holds in every reachable state.
LEMMA Invariance == Spec => []IInv
BY InitIInv, NextIInv, PTL DEF Spec

-----------------------------------------------------------------------------
\* Nothing is lost, repeated or reordered between the receive FIFO and DR.
THEOREM EchoConserves == Spec => []EchoConserved
BY Invariance, PTL DEF IInv

\* The registration never ends in kernel_panic, and the id it gives the kernel
\* reaches the UART driver at every read and write.
THEOREM UsesTheUart == Spec => []UsesUart
<1>1. IInv => UsesUart
  BY DEF IInv, Control, Starting, InUse, UseControl, UsesUart
<1>2. QED BY <1>1, Invariance, PTL

\* A byte that leaves the shift register is the next one of the script.
LEMMA WireFollowsScript ==
  ASSUME IInv, U!FinishByte
  PROVE  /\ Len(wire) < Len(Line!Script)
         /\ wire' = Append(wire, Line!Script[Len(wire) + 1])
<1> DEFINE tail == txfifo \o (text \o (InHand \o rxfifo))
<1> USE DEF IInv
<1>1. PICK b \in Bytes : shifter = <<b>>
  BY DEF Types, U!FinishByte
<1>2. /\ wire \in Seq(Bytes) /\ txfifo \in Seq(Bytes) /\ text \in Seq(Bytes)
      /\ rxfifo \in Seq(Bytes) /\ InHand \in Seq(Bytes) /\ <<b>> \in Seq(Bytes)
  BY AllSequences DEF Types
<1>3. InHand \o rxfifo \in Seq(Bytes) /\ text \o (InHand \o rxfifo) \in Seq(Bytes)
      /\ tail \in Seq(Bytes) /\ <<b>> \o tail \in Seq(Bytes)
  BY <1>2, ConcatProperties
<1>4. Line!Script = wire \o (<<b>> \o tail)
  <2>1. Line!Script = (((((wire \o <<b>>) \o txfifo) \o text) \o InHand) \o rxfifo)
    BY <1>1 DEF Line!Script, EchoConserved, U!SentInOrder
  <2>2. /\ wire \o <<b>> \in Seq(Bytes)
        /\ (wire \o <<b>>) \o txfifo \in Seq(Bytes)
        /\ ((wire \o <<b>>) \o txfifo) \o text \in Seq(Bytes)
    BY <1>2, ConcatProperties
  <2>3. Line!Script = (((wire \o <<b>>) \o txfifo) \o text) \o (InHand \o rxfifo)
    <3> DEFINE s == (wire \o <<b>>) \o txfifo
    <3>1. /\ s \in Seq(Bytes) /\ text \in Seq(Bytes)
          /\ InHand \in Seq(Bytes) /\ rxfifo \in Seq(Bytes)
          /\ s \o text \in Seq(Bytes)
          /\ Line!Script = ((s \o text) \o InHand) \o rxfifo
      BY <1>2, <2>1, <2>2
    <3> HIDE DEF s
    <3> DEFINE v == s \o text
    <3>2. /\ v \in Seq(Bytes) /\ InHand \in Seq(Bytes) /\ rxfifo \in Seq(Bytes)
          /\ Line!Script = (v \o InHand) \o rxfifo
      BY <3>1
    <3> HIDE DEF v
    <3>3. (v \o InHand) \o rxfifo = v \o (InHand \o rxfifo)
      BY <3>2, Assoc
    <3>4. QED BY <3>2, <3>3 DEF v, s
  <2>4. Line!Script = ((wire \o <<b>>) \o txfifo) \o (text \o (InHand \o rxfifo))
    <3> DEFINE v == InHand \o rxfifo
    <3> DEFINE s == (wire \o <<b>>) \o txfifo
    <3>1. /\ v \in Seq(Bytes) /\ s \in Seq(Bytes) /\ text \in Seq(Bytes)
          /\ Line!Script = (s \o text) \o v
      BY <1>2, <1>3, <2>2, <2>3
    <3> HIDE DEF s, v
    <3>2. (s \o text) \o v = s \o (text \o v)
      BY <3>1, Assoc
    <3>3. QED BY <3>1, <3>2 DEF s, v
  <2>5. Line!Script = (wire \o <<b>>) \o tail
    <3> DEFINE u == text \o (InHand \o rxfifo)
    <3> DEFINE w == wire \o <<b>>
    <3>1. /\ u \in Seq(Bytes) /\ w \in Seq(Bytes) /\ txfifo \in Seq(Bytes)
          /\ Line!Script = (w \o txfifo) \o u
      BY <1>2, <1>3, <2>2, <2>4
    <3> HIDE DEF u, w
    <3>2. (w \o txfifo) \o u = w \o (txfifo \o u)
      BY <3>1, Assoc
    <3>3. QED BY <3>1, <3>2 DEF u, w
  <2>6. tail \in Seq(Bytes)
    BY <1>3
  <2> DEFINE one == <<b>>
  <2>7. one \in Seq(Bytes) /\ wire \in Seq(Bytes)
    BY <1>2
  <2> HIDE DEF tail, one
  <2>8. (wire \o one) \o tail = wire \o (one \o tail)
    BY <2>6, <2>7, Assoc
  <2>9. QED BY <2>5, <2>8 DEF one
<1> HIDE DEF tail
<1>5. /\ Len(<<b>> \o tail) = 1 + Len(tail) /\ (<<b>> \o tail)[1] = b
      /\ Len(tail) \in Nat
  BY <1>2, <1>3
<1>6. /\ Len(Line!Script) = Len(wire) + Len(<<b>> \o tail) /\ Len(wire) \in Nat
      /\ Line!Script[Len(wire) + 1] = (<<b>> \o tail)[1]
  BY <1>2, <1>3, <1>4, <1>5
<1>7. wire' = Append(wire, b)
  BY <1>1, <1>2, AppendIsConcat DEF U!FinishByte
<1>8. QED BY <1>5, <1>6, <1>7

\* Every step of the kernel and of the line is one of the echoing line: a
\* character accepted, the next one of the script answered, or nothing.
THEOREM EchoesInOrder == Spec => Line!Init /\ [][Line!Next]_(Line!vars)
<1>1. Init => Line!Init
  BY DEF Init, U!Init, Line!Init
<1>2. IInv /\ [Next]_vars => [Line!Next]_(Line!vars)
  <2> SUFFICES ASSUME IInv, [Next]_vars PROVE [Line!Next]_(Line!vars)
    OBVIOUS
  <2>1. CASE Kernel \/ UNCHANGED vars
    <3>1. UNCHANGED <<arrived, wire>>
      BY <2>1 DEF Kernel, Reset, Register, Registering, Registered, PrintChar,
           PrintDone, Read, Reading, Write, Writing, vars, uart, U!hardware,
           U!InitDisable, U!InitConfigure, U!Putc, U!ReadStart, U!ReadTest,
           U!ReadByte, U!Getc, U!WriteStart, U!WriteByte, U!WriteDone
    <3>2. QED BY <3>1 DEF Line!vars
  <2>2. CASE Hardware(U!StartByte)
    BY <2>2 DEF Hardware, U!StartByte, Line!vars
  <2>3. CASE Hardware(U!FinishByte)
    <3>1. Line!Answer
      BY <2>3, WireFollowsScript DEF Hardware, U!FinishByte, Line!Answer
    <3>2. QED BY <3>1 DEF Line!Next
  <2>4. ASSUME NEW b \in Bytes, Hardware(U!Receive(b))
        PROVE  [Line!Next]_(Line!vars)
    <3>1. UNCHANGED <<arrived, wire>> \/ Line!Accept(b)
      BY <2>4 DEF Hardware, U!Receive, Line!Accept
    <3>2. QED BY <3>1 DEF Line!Next, Line!vars
  <2>5. QED BY <2>1, <2>2, <2>3, <2>4 DEF Next, Transmit, Receive, U!Transmit, Hardware
<1>3. QED BY <1>1, <1>2, Invariance, PTL DEF Spec
=============================================================================

------------------------------ MODULE Vprintk ------------------------------
(* The formatted output of src/src/klibc/src/vprintk.c: the directives of a  *)
(* format one after the other, and printNum loop by loop.                    *)
(*                                                                           *)
(* Formats and arguments are the caller's: a directive is chosen when the    *)
(* code scans it, its argument, of the type it names, when va_arg takes it.  *)
(* A format does not end inside a directive, as none in the kernel does.     *)
(* Names are unlike those of Uart, so that one module can extend both.       *)
EXTENDS Integers, SequencesExt, FiniteSetsExt

CONSTANTS
  IntBits,       \* bits of an int and of a long (32 on the ARM1176)
  LongLongBits,  \* bits of a long long (64)
  Widths,        \* the widths that are asked for, 0 if none is
  MaxString,     \* bound: the longest string passed for %s
  NULL           \* the null pointer

\* The powers of b that a word and the number of its digits call for.
Powers(b) ==
  LET power[k \in 0 .. LongLongBits] == IF k = 0 THEN 1 ELSE b * power[k - 1]
  IN  power

\* The values of a word of so many bits.
BitPatterns(bits) == 0 .. Powers(2)[bits] - 1

ASSUME VprintkAssumption ==
  /\ {IntBits, LongLongBits} \subseteq Nat \ {0} /\ IntBits <= LongLongBits
  /\ MaxString \in Nat
  /\ Widths \subseteq BitPatterns(LongLongBits) /\ 0 \in Widths

Base         == [o |-> 8, d |-> 10, i |-> 10, u |-> 10, x |-> 16, p |-> 16]
Numeric      == DOMAIN Base          \* the capital letters mean the same
SignedOnes   == {"d", "i"}
Unsupported  == {"%", "T"}
Strings      == UNION {[1 .. k -> {"a", "b"}] : k \in 0 .. MaxString}

DigitChars   == <<"0", "1", "2", "3", "4", "5", "6", "7",
                  "8", "9", "A", "B", "C", "D", "E", "F">>

Blank        == " "

\* What the scan finds between "%" and the conversion: an optional "0", an
\* optional "-", digits and up to two "l", in this order, each of them once.
Directives ==
  [lead : {Blank, "0"}, minus : BOOLEAN, width : Widths,
   lflag : {"int", "long", "longlong"},
   conv : {"c", "s"} \cup Numeric \cup Unsupported]

VARIABLES
  vpc,           \* "fetch" at the head of vprintk's loop, "next" at its end,
                 \* and the loops of printNum
  dir,           \* the directive being converted
  unsigned_num, toPrint, n,   \* the locals of printNum
  arg,           \* history: the argument of the directive, as a bit pattern
  out            \* history: what this turn of the loop has passed to putc

locals    == <<unsigned_num, toPrint, n>>
printVars == <<vpc, dir, locals, arg, out>>

\* The size of toPrint: the octal digits of the largest number, and a NUL.
BufferSize == (LongLongBits + 2) \div 3 + 1

\* The values of the declarations at the head of vprintk's loop.
NoDirective == [lead |-> Blank, minus |-> FALSE, width |-> 0, lflag |-> "int",
                conv |-> "T"]

PrintInit ==
  /\ vpc = "idle"
  /\ dir = NoDirective
  /\ unsigned_num = 0 /\ toPrint = <<>> /\ n = 0
  /\ arg = NULL /\ out = <<>>

-----------------------------------------------------------------------------
(* vprintk.                                                                  *)

putc(ch) == out' = Append(out, ch)

Call   == vpc = "idle"  /\ vpc' = "fetch" /\ UNCHANGED <<dir, locals, arg, out>>
Return == vpc = "fetch" /\ vpc' = "idle"  /\ UNCHANGED <<dir, locals, arg, out>>

\* fmt++, and the declarations of the next turn.
NextTurn ==
  /\ vpc = "next" /\ vpc' = "fetch"
  /\ dir' = NoDirective
  /\ unsigned_num' = 0 /\ toPrint' = <<>> /\ n' = 0
  /\ arg' = NULL /\ out' = <<>>

Literal ==
  /\ vpc = "fetch" /\ vpc' = "next"
  /\ putc("T")
  /\ UNCHANGED <<dir, locals, arg>>

Directive ==
  /\ vpc = "fetch" /\ vpc' = "convert"
  /\ dir' \in Directives
  /\ UNCHANGED <<locals, arg, out>>

ConvertChar ==
  /\ vpc = "convert" /\ dir.conv = "c"
  /\ arg' \in {"T", "%"} /\ putc(arg')
  /\ vpc' = "next"
  /\ UNCHANGED <<dir, locals>>

ConvertOther ==
  /\ vpc = "convert" /\ dir.conv \in Unsupported
  /\ putc(dir.conv)
  /\ vpc' = "next"
  /\ UNCHANGED <<dir, locals, arg>>

\* for (i = len; i < width; i++) putc(' ')
Spaces(len, width) == [i \in 1 .. Max({width - len, 0}) |-> Blank]

\* Without a width it is set to len, after the leading and before the trailing
\* spaces.  The loop that prints the string leaves i at 0, so its test of the
\* width is false only if that is 0.
ConvertString ==
  /\ vpc = "convert" /\ dir.conv = "s"
  /\ arg' \in Strings \cup {NULL}
  /\ LET str   == IF arg' = NULL THEN <<>> ELSE arg'
         width == IF dir.width = 0 THEN Len(str) ELSE dir.width
     IN  out' = (IF dir.minus THEN <<>> ELSE Spaces(Len(str), dir.width))
                \o (IF 0 < width THEN str ELSE <<>>)
                \o (IF dir.minus THEN Spaces(Len(str), width) ELSE <<>>)
  /\ vpc' = "next"
  /\ UNCHANGED <<dir, locals>>

Bits == IF dir.lflag = "longlong" /\ dir.conv # "p" THEN LongLongBits
                                                    ELSE IntBits
Signed(word, bits) == IF word < Powers(2)[bits - 1] THEN word
                                                       ELSE word - Powers(2)[bits]

\* The long long that is passed to printNum: sign-extended unless the argument
\* is an unsigned int or long.
num == IF dir.conv \in SignedOnes \/ Bits = LongLongBits THEN Signed(arg, Bits)
                                                         ELSE arg

ConvertNumber ==
  /\ vpc = "convert" /\ dir.conv \in Numeric
  /\ arg' \in BitPatterns(Bits)
  /\ vpc' = "printNum"
  /\ UNCHANGED <<dir, locals, out>>

-----------------------------------------------------------------------------
(* printNum.  n holds maxwidth until the digits are known.                   *)

\* -num of the most negative number overflows, and wraps in any build.
Negated(v) == (-v) % Powers(2)[LongLongBits]

\* Mutant: the sign is not counted in the width.
SignNotCounted(w) == w

WidthAfterSign(w) == IF w > 0 THEN w - 1 ELSE w

PrintNum ==
  /\ vpc = "printNum"
  /\ IF dir.conv \in SignedOnes /\ num < 0
     THEN putc("-") /\ unsigned_num' = Negated(num)
          /\ n' = WidthAfterSign(dir.width)
     ELSE unsigned_num' = num % Powers(2)[LongLongBits] /\ n' = dir.width
          /\ UNCHANGED out
  /\ vpc' = "digits"
  /\ UNCHANGED <<dir, toPrint, arg>>

\* Mutant: the loop goes on while there is anything, zero included, to divide.
MoreThanNone(u) == u >= 0

MoreDigits(u) == u \div Base[dir.conv] > 0

DivideDigit ==
  /\ vpc = "digits"
  /\ toPrint' = Append(toPrint, unsigned_num % Base[dir.conv])
  /\ unsigned_num' = IF MoreDigits(unsigned_num)
                     THEN unsigned_num \div Base[dir.conv] ELSE unsigned_num
  /\ vpc' = IF MoreDigits(unsigned_num) THEN vpc ELSE "pad"
  /\ UNCHANGED <<dir, n, arg, out>>

\* Mutant: the padding skips spaces, and does not count those it skips.
PadZeros ==
  /\ vpc = "pad"
  /\ IF n > Len(toPrint)
     THEN vpc' = vpc /\ IF dir.lead = "0" THEN putc(dir.lead) /\ n' = n - 1
                                       ELSE UNCHANGED <<n, out>>
     ELSE n' = 0 /\ vpc' = "emit" /\ UNCHANGED out
  /\ UNCHANGED <<dir, unsigned_num, toPrint, arg>>

Pad ==
  /\ vpc = "pad"
  /\ IF n > Len(toPrint) THEN putc(dir.lead) /\ n' = n - 1 /\ vpc' = vpc
                         ELSE n' = 0 /\ vpc' = "emit" /\ UNCHANGED out
  /\ UNCHANGED <<dir, unsigned_num, toPrint, arg>>

\* Mutant: the digits are emitted in the order they were found.
LowestFirst(k) == k + 1

EmittedAt(k) == Len(toPrint) - k

Emit ==
  /\ vpc = "emit"
  /\ IF n < Len(toPrint)
     THEN putc(DigitChars[toPrint[EmittedAt(n)] + 1]) /\ n' = n + 1 /\ vpc' = vpc
     ELSE vpc' = "next" /\ UNCHANGED <<n, out>>
  /\ UNCHANGED <<dir, unsigned_num, toPrint, arg>>

Convert == ConvertChar \/ ConvertOther \/ ConvertString \/ ConvertNumber
           \/ PrintNum \/ DivideDigit \/ Pad \/ Emit

PrintNext == Call \/ Return \/ NextTurn \/ Literal \/ Directive \/ Convert

PrintSpec == PrintInit /\ [][PrintNext]_printVars /\ WF_printVars(Convert)

-----------------------------------------------------------------------------
(* Properties.                                                               *)

Done(conversions) == vpc = "next" /\ dir.conv \in conversions

\* The value of the digits in `text` in base b, spaces and a sign left out.
DigitOf(ch) == CHOOSE d \in 0 .. 15 : DigitChars[d + 1] = ch

Reading(b, text) ==
  LET value[k \in 0 .. Len(text)] ==
        IF k = 0 THEN 0
        ELSE IF text[k] \in {Blank, "-"} THEN value[k - 1]
        ELSE value[k - 1] * b + DigitOf(text[k])
  IN  value[Len(text)]

\* The argument as the type the directive names has it.
Value     == IF dir.conv \in SignedOnes THEN Signed(arg, Bits) ELSE arg
Magnitude == IF Value < 0 THEN -Value ELSE Value

\* What printNum prints reads back as the number that was passed, in the base
\* and the type of the directive, the most negative number and the unsigned
\* numbers above the signed ones among them (vprintk.c:126-184).
NumberReadsBack ==
  Done(Numeric) =>
    /\ Reading(Base[dir.conv], out) = Magnitude
    /\ ("-" \in Range(out)) = (Value < 0)

\* A field is as wide as was asked for, sign and padding counted, and wider
\* only where that would cut what is in it; a string stands in it whole, at the
\* side the minus sign asks for (vprintk.c:87-104, 164-184).
FieldFilled ==
  /\ Done(Numeric) =>
       LET digits == CHOOSE k \in 1 .. LongLongBits :
                       /\ Magnitude < Powers(Base[dir.conv])[k]
                       /\ k = 1 \/ Magnitude >= Powers(Base[dir.conv])[k - 1]
           sign   == IF Value < 0 THEN 1 ELSE 0
       IN  Len(out) = Max({dir.width, digits + sign})
  /\ Done({"s"}) =>
       LET str == IF arg = NULL THEN <<>> ELSE arg
       IN  /\ Len(out) = Max({dir.width, Len(str)})
           /\ IF dir.minus THEN IsPrefix(str, out) ELSE IsSuffix(str, out)

\* The digits of any number in any base fit the buffer, which was sized for
\* the longest octal number (vprintk.c:161).
DigitsFit == Len(toPrint) <= BufferSize

\* Every conversion ends: the loops of printNum have unsigned counters, and one
\* counts down to a limit it may start below (vprintk.c:173-184).
ConversionEnds == (vpc = "convert") ~> (vpc = "next")
=============================================================================

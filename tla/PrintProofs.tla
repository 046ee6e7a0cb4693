----------------------------- MODULE PrintProofs -----------------------------
(* Proofs about the two ends of a printed line: Vprintk, which makes the     *)
(* text, and Uart, which sends it and receives what is typed.                *)
(*                                                                           *)
(* The text is proved for words of any size, numbers in every base and       *)
(* fields of any width; the order of the bytes for any FIFO depth, alphabet  *)
(* and bounds.  The two run apart here: neither's actions name the other's   *)
(* variables.                                                                *)
EXTENDS Vprintk, Uart, SequenceTheorems, WellFoundedInduction, TLAPS

-----------------------------------------------------------------------------
(* Recursion and induction up to a number, over sets rather than operators.  *)

\* A non-empty set of natural numbers has a least element.
LEMMA LeastOf ==
  ASSUME NEW S \in SUBSET Nat, S # {}
  PROVE  \E x \in S : \A y \in S : x <= y
<1>1. \E x \in S : \A y \in S : ~ (<<y, x>> \in OpToRel(<, Nat))
  BY NatLessThanWellFounded, WFMin
<1>2. ASSUME NEW x \in S, NEW y \in S, ~ (<<y, x>> \in OpToRel(<, Nat))
      PROVE  x <= y
  <2>1. <<y, x>> \in Nat \X Nat /\ <<y, x>>[1] = y /\ <<y, x>>[2] = x
    OBVIOUS
  <2>2. ~ (y < x)
    BY <1>2, <2>1 DEF OpToRel
  <2>3. QED BY <2>2
<1>3. QED BY <1>1, <1>2

\* A set that holds 0 and the successor of each of its members below N holds
\* all the numbers up to N: there is no least number it lacks.
LEMMA Induction ==
  ASSUME NEW N \in Nat, NEW T, 0 \in T,
         \A k \in 1 .. N : k - 1 \in T => k \in T
  PROVE  \A k \in 0 .. N : k \in T
<1> DEFINE lacking == {k \in 0 .. N : k \notin T}
<1>1. SUFFICES ASSUME lacking # {} PROVE FALSE
  OBVIOUS
<1>2. PICK k \in lacking : \A j \in lacking : k <= j
  <2>1. lacking \in SUBSET Nat
    OBVIOUS
  <2> HIDE DEF lacking
  <2>2. QED BY <1>1, <2>1, LeastOf
<1>3. k \in 1 .. N /\ k - 1 \in 0 .. N /\ ~ (k <= k - 1)
  OBVIOUS
<1>4. k - 1 \in T
  BY <1>2, <1>3
<1>5. QED BY <1>3, <1>4

\* Values can be found one after the other, each from the one before it: if
\* not, one more could follow the longest sequence of them there is.
Follows(f, k, a, step) ==
  f[0] = a /\ \A i \in 1 .. k : f[i] = step[i][f[i - 1]]

LEMMA Recursion ==
  ASSUME NEW N \in Nat, NEW S, NEW a \in S, NEW step \in [1 .. N -> [S -> S]]
  PROVE  \E f \in [0 .. N -> S] : Follows(f, N, a, step)
<1> DEFINE T == {k \in 0 .. N : \E f \in [0 .. k -> S] : Follows(f, k, a, step)}
<1>1. 0 \in T
  <2>1. [i \in 0 .. 0 |-> a] \in [0 .. 0 -> S]
        /\ Follows([i \in 0 .. 0 |-> a], 0, a, step)
    BY DEF Follows
  <2>2. QED BY <2>1
<1>2. ASSUME NEW k \in 1 .. N, k - 1 \in T PROVE k \in T
  <2>1. PICK f \in [0 .. k - 1 -> S] : Follows(f, k - 1, a, step)
    BY <1>2
  <2> DEFINE g == [i \in 0 .. k |-> IF i = k THEN step[k][f[k - 1]] ELSE f[i]]
  <2>2. k \in Nat /\ k - 1 \in 0 .. k - 1 /\ f[k - 1] \in S /\ step[k] \in [S -> S]
    OBVIOUS
  <2>3. step[k][f[k - 1]] \in S
    BY <2>2
  <2>4. \A i \in 0 .. k : i # k => i \in 0 .. k - 1
    OBVIOUS
  <2>5. g \in [0 .. k -> S]
    BY <2>3, <2>4
  <2>6. \A i \in 0 .. k - 1 : g[i] = f[i]
    BY <2>2
  <2>7. g[k] = step[k][g[k - 1]]
    BY <2>2, <2>6
  <2>8. ASSUME NEW i \in 1 .. k PROVE g[i] = step[i][g[i - 1]]
    <3>1. CASE i = k
      BY <2>7, <3>1
    <3>2. CASE i # k
      <4>1. i \in 1 .. k - 1 /\ i \in 0 .. k - 1 /\ i - 1 \in 0 .. k - 1
        BY <3>2
      <4>2. f[i] = step[i][f[i - 1]]
        BY <2>1, <4>1 DEF Follows
      <4> HIDE DEF g
      <4>3. QED BY <2>6, <4>1, <4>2
    <3>3. QED BY <3>1, <3>2
  <2>9. g[0] = a
    BY <2>1, <2>6, <2>2 DEF Follows
  <2>10. Follows(g, k, a, step)
    <3> HIDE DEF g
    <3>1. QED BY <2>8, <2>9 DEF Follows
  <2>11. k \in 0 .. N
    OBVIOUS
  <2> HIDE DEF g
  <2>12. QED BY <2>5, <2>10, <2>11
<1>3. N \in T
  <2> HIDE DEF T
  <2>1. \A k \in 0 .. N : k \in T
    BY <1>1, <1>2, Induction
  <2>2. QED BY <2>1
<1>4. QED BY <1>3

-----------------------------------------------------------------------------
(* Powers.                                                                   *)

LEMMA Sizes ==
  /\ IntBits \in Nat /\ IntBits >= 1 /\ IntBits <= LongLongBits
  /\ LongLongBits \in Nat /\ LongLongBits >= 1
  /\ MaxString \in Nat
BY VprintkAssumption

\* Powers is defined by its equations.
LEMMA PowersEquation ==
  ASSUME NEW b \in Nat
  PROVE  /\ Powers(b) \in [0 .. LongLongBits -> Nat]
         /\ Powers(b)[0] = 1
         /\ \A k \in 1 .. LongLongBits : Powers(b)[k] = b * Powers(b)[k - 1]
<1> DEFINE Body(f) == [k \in 0 .. LongLongBits |-> IF k = 0 THEN 1 ELSE b * f[k - 1]]
           times   == [v \in Nat |-> b * v]
           step    == [k \in 1 .. LongLongBits |-> times]
<1>1. PICK f \in [0 .. LongLongBits -> Nat] : Follows(f, LongLongBits, 1, step)
  <2>1. times \in [Nat -> Nat]
    OBVIOUS
  <2> HIDE DEF times
  <2>2. step \in [1 .. LongLongBits -> [Nat -> Nat]]
    BY <2>1
  <2> HIDE DEF step
  <2>3. QED BY <2>2, Sizes, Recursion
<1>2. f[0] = 1 /\ \A k \in 1 .. LongLongBits : f[k] = b * f[k - 1]
  <2>1. ASSUME NEW k \in 1 .. LongLongBits PROVE f[k] = b * f[k - 1]
    <3>1. f[k - 1] \in Nat
      BY Sizes
    <3>2. QED BY <1>1, <3>1 DEF Follows
  <2>2. QED BY <1>1, <2>1 DEF Follows
<1>3. f = Body(f)
  <2>1. \A k \in 0 .. LongLongBits : k # 0 => k \in 1 .. LongLongBits
    BY Sizes
  <2>2. QED BY <1>2, <2>1
<1>4. Powers(b) = CHOOSE h : h = Body(h)
  BY DEF Powers
<1> HIDE DEF Body
<1>5. Powers(b) = Body(Powers(b))
  BY <1>3, <1>4
<1> USE DEF Body
<1>6. Powers(b) = [k \in 0 .. LongLongBits |-> IF k = 0 THEN 1 ELSE b * Powers(b)[k - 1]]
  BY <1>5
<1> HIDE DEF Body
<1>7. Powers(b)[0] = 1
  BY <1>6, Sizes
<1>8. ASSUME NEW k \in 1 .. LongLongBits PROVE Powers(b)[k] = b * Powers(b)[k - 1]
  BY <1>6, Sizes
<1>9. Powers(b) \in [0 .. LongLongBits -> Nat]
  <2> DEFINE T == {k \in 0 .. LongLongBits : Powers(b)[k] \in Nat}
  <2>1. 0 \in T
    BY <1>7, Sizes
  <2>2. ASSUME NEW k \in 1 .. LongLongBits, k - 1 \in T PROVE k \in T
    BY <1>8, <2>2
  <2> HIDE DEF T
  <2>3. \A k \in 0 .. LongLongBits : k \in T
    BY <2>1, <2>2, Sizes, Induction
  <2> USE DEF T
  <2>4. \A k \in 0 .. LongLongBits : Powers(b)[k] \in Nat
    BY <2>3
  <2>5. QED BY <1>6, <2>4
<1>10. QED BY <1>7, <1>8, <1>9

\* A larger power is not smaller.
LEMMA PowersGrow ==
  ASSUME NEW b \in Nat, b >= 1, NEW j \in 0 .. LongLongBits, NEW i \in 0 .. j
  PROVE  Powers(b)[i] <= Powers(b)[j]
<1> DEFINE T == {k \in 0 .. LongLongBits : i <= k => Powers(b)[i] <= Powers(b)[k]}
<1>1. i \in 0 .. LongLongBits
  BY Sizes
<1>2. \A k \in 0 .. LongLongBits : Powers(b)[k] \in Nat
  BY PowersEquation
<1>3. 0 \in T
  BY <1>1, <1>2, Sizes
<1>4. ASSUME NEW k \in 1 .. LongLongBits, k - 1 \in T PROVE k \in T
  <2>1. k \in 0 .. LongLongBits /\ k - 1 \in 0 .. LongLongBits
    BY Sizes
  <2>2. Powers(b)[k] = b * Powers(b)[k - 1]
    BY PowersEquation
  <2>3. ASSUME NEW p \in Nat PROVE p <= b * p
    OBVIOUS
  <2>4. Powers(b)[k - 1] <= Powers(b)[k]
    BY <1>2, <2>1, <2>2, <2>3
  <2>5. CASE i = k
    BY <2>1, <2>5, <1>2
  <2>6. CASE i # k
    <3>1. i <= k => i <= k - 1
      BY <2>6, <1>1
    <3>2. QED BY <1>1, <1>2, <1>4, <2>1, <2>4, <3>1
  <2>7. QED BY <2>5, <2>6
<1> HIDE DEF T
<1>5. \A k \in 0 .. LongLongBits : k \in T
  BY <1>3, <1>4, Sizes, Induction
<1> USE DEF T
<1>6. QED BY <1>5

\* A word has values, and one more bit doubles them.
LEMMA WordSizes ==
  ASSUME NEW k \in 1 .. LongLongBits
  PROVE  /\ Powers(2)[k] \in Nat /\ Powers(2)[k] >= 2
         /\ Powers(2)[k - 1] \in Nat /\ Powers(2)[k - 1] >= 1
         /\ Powers(2)[k] = 2 * Powers(2)[k - 1]
         /\ Powers(2)[k] <= Powers(2)[LongLongBits]
         /\ Powers(2)[LongLongBits] \in Nat
<1>1. 0 \in 0 .. k - 1 /\ k - 1 \in 0 .. LongLongBits /\ k \in 0 .. LongLongBits
      /\ LongLongBits \in 0 .. LongLongBits /\ k \in 0 .. LongLongBits
  BY Sizes
<1>2. Powers(2)[0] <= Powers(2)[k - 1] /\ Powers(2)[k] <= Powers(2)[LongLongBits]
  BY <1>1, PowersGrow
<1>3. /\ Powers(2) \in [0 .. LongLongBits -> Nat] /\ Powers(2)[0] = 1
      /\ Powers(2)[k] = 2 * Powers(2)[k - 1]
  BY PowersEquation
<1>4. Powers(2)[k] \in Nat /\ Powers(2)[k - 1] \in Nat
      /\ Powers(2)[LongLongBits] \in Nat
  BY <1>1, <1>3
<1>5. QED BY <1>2, <1>3, <1>4

-----------------------------------------------------------------------------
(* What a printed text reads as.                                             *)

\* The value of a digit is that of its character.
LEMMA DigitOfChar ==
  ASSUME NEW d \in 0 .. 15
  PROVE  /\ DigitOf(DigitChars[d + 1]) = d
         /\ DigitChars[d + 1] \notin {Blank, "-"}
<1>1. \A e \in 0 .. 15 : DigitChars[e + 1] = DigitChars[d + 1] => e = d
  BY DEF DigitChars
<1>2. DigitChars[d + 1] # "-"
  BY DEF DigitChars
<1>3. DigitChars[d + 1] # Blank
  <2>1. \A c \in {"0", "1", "2", "3", "4", "5", "6", "7", "8", "9",
                  "A", "B", "C", "D", "E", "F"} : c # Blank
    BY Zenon DEF Blank
  <2>2. DigitChars[d + 1] \in {"0", "1", "2", "3", "4", "5", "6", "7", "8", "9",
                              "A", "B", "C", "D", "E", "F"}
    BY DEF DigitChars
  <2>3. QED BY <2>1, <2>2
<1>4. QED BY <1>1, <1>2, <1>3 DEF DigitOf

\* The characters printNum prints.
Printable == {Blank, "-"} \cup {DigitChars[d + 1] : d \in 0 .. 15}

\* f holds what the beginnings of `text` read as in base b.
Reads(f, b, text) ==
  /\ f \in [0 .. Len(text) -> Nat]
  /\ f[0] = 0
  /\ \A k \in 1 .. Len(text) :
       f[k] = IF text[k] \in {Blank, "-"} THEN f[k - 1]
              ELSE f[k - 1] * b + DigitOf(text[k])

\* Reading is defined by these equations...
LEMMA ReadingEquation ==
  ASSUME NEW b \in Nat, NEW text \in Seq(Printable)
  PROVE  \E f : Reads(f, b, text) /\ Reading(b, text) = f[Len(text)]
<1> DEFINE after(k, v) == IF text[k] \in {Blank, "-"} THEN v
                          ELSE v * b + DigitOf(text[k])
           Body(f) == [k \in 0 .. Len(text) |-> IF k = 0 THEN 0
                         ELSE IF text[k] \in {Blank, "-"} THEN f[k - 1]
                         ELSE f[k - 1] * b + DigitOf(text[k])]
           step    == [k \in 1 .. Len(text) |-> [v \in Nat |-> after(k, v)]]
<1>1. Len(text) \in Nat
  OBVIOUS
<1>2. \A k \in 1 .. Len(text) : text[k] \in {Blank, "-"} \/ DigitOf(text[k]) \in Nat
  <2>1. ASSUME NEW k \in 1 .. Len(text)
        PROVE  text[k] \in {Blank, "-"} \/ DigitOf(text[k]) \in Nat
    <3>1. text[k] \in Printable
      OBVIOUS
    <3>2. QED BY <3>1, DigitOfChar DEF Printable
  <2>2. QED BY <2>1
<1>3. PICK f \in [0 .. Len(text) -> Nat] : Follows(f, Len(text), 0, step)
  <2>1. ASSUME NEW k \in 1 .. Len(text) PROVE [v \in Nat |-> after(k, v)] \in [Nat -> Nat]
    <3>1. ASSUME NEW v \in Nat PROVE after(k, v) \in Nat
      BY <1>2
    <3> HIDE DEF after
    <3>2. QED BY <3>1
  <2> HIDE DEF after
  <2>2. step \in [1 .. Len(text) -> [Nat -> Nat]]
    BY <2>1
  <2> HIDE DEF step
  <2>3. QED BY <1>1, <2>2, Recursion
<1>4. \A k \in 1 .. Len(text) : f[k] = after(k, f[k - 1])
  <2>1. ASSUME NEW k \in 1 .. Len(text) PROVE f[k] = after(k, f[k - 1])
    <3>1. f[k - 1] \in Nat
      BY <1>1
    <3> HIDE DEF after
    <3>2. step[k][f[k - 1]] = after(k, f[k - 1])
      BY <3>1
    <3>3. QED BY <1>3, <3>2 DEF Follows
  <2> HIDE DEF after
  <2>2. QED BY <2>1
<1>5. f[0] = 0
  BY <1>3 DEF Follows
<1>6. f = Body(f)
  <2>1. \A k \in 0 .. Len(text) : k # 0 => k \in 1 .. Len(text)
    BY <1>1
  <2>2. QED BY <1>4, <1>5, <2>1
<1>7. Reading(b, text) = (CHOOSE h : h = Body(h))[Len(text)]
  BY DEF Reading
<1> DEFINE r == CHOOSE h : h = Body(h)
<1> HIDE DEF Body
<1>8. r = Body(r)
  BY <1>6
<1> HIDE DEF r
<1> USE DEF Body
<1>9. r = [k \in 0 .. Len(text) |-> IF k = 0 THEN 0
                         ELSE IF text[k] \in {Blank, "-"} THEN r[k - 1]
                         ELSE r[k - 1] * b + DigitOf(text[k])]
  BY <1>8
<1> HIDE DEF Body
<1>10. r[0] = 0
  BY <1>9, <1>1
<1>11. ASSUME NEW k \in 1 .. Len(text)
       PROVE  r[k] = IF text[k] \in {Blank, "-"} THEN r[k - 1]
                     ELSE r[k - 1] * b + DigitOf(text[k])
  <2>1. k \in 0 .. Len(text) /\ k # 0
    BY <1>1
  <2> DEFINE R(j) == IF j = 0 THEN 0 ELSE IF text[j] \in {Blank, "-"} THEN r[j - 1]
                     ELSE r[j - 1] * b + DigitOf(text[j])
  <2>2. r = [j \in 0 .. Len(text) |-> R(j)]
    BY <1>9
  <2>3. r[k] = R(k)
    <3> HIDE DEF R
    <3>1. QED BY <2>1, <2>2
  <2>4. QED BY <2>1, <2>3
<1>12. r \in [0 .. Len(text) -> Nat]
  <2> DEFINE T == {k \in 0 .. Len(text) : r[k] \in Nat}
  <2>1. 0 \in T
    BY <1>10, <1>1
  <2>2. ASSUME NEW k \in 1 .. Len(text), k - 1 \in T PROVE k \in T
    <3>1. r[k - 1] \in Nat /\ k \in 0 .. Len(text)
      BY <2>2, <1>1
    <3>2. CASE text[k] \in {Blank, "-"}
      BY <3>1, <3>2, <1>11
    <3>3. CASE text[k] \notin {Blank, "-"}
      <4>1. DigitOf(text[k]) \in Nat /\ r[k] = r[k - 1] * b + DigitOf(text[k])
        BY <3>3, <1>2, <1>11
      <4>2. QED BY <3>1, <4>1
    <3>4. QED BY <3>2, <3>3
  <2> HIDE DEF T
  <2>3. \A k \in 0 .. Len(text) : k \in T
    BY <2>1, <2>2, <1>1, Induction
  <2> USE DEF T
  <2>4. \A k \in 0 .. Len(text) : r[k] \in Nat
    BY <2>3
  <2>5. QED BY <1>9, <2>4
<1>13. Reads(r, b, text)
  BY <1>10, <1>11, <1>12 DEF Reads
<1>14. QED BY <1>7, <1>13 DEF r

\* ... which have one solution...
LEMMA ReadsOnce ==
  ASSUME NEW b \in Nat, NEW text \in Seq(Printable), NEW c \in Printable,
         NEW f, Reads(f, b, text), NEW g, Reads(g, b, Append(text, c))
  PROVE  g[Len(text)] = f[Len(text)]
<1> DEFINE T == {k \in 0 .. Len(text) : g[k] = f[k]}
<1>1. Len(text) \in Nat /\ Len(Append(text, c)) = Len(text) + 1
  BY AppendProperties
<1>2. 0 \in T
  BY <1>1 DEF Reads
<1>3. ASSUME NEW k \in 1 .. Len(text), k - 1 \in T PROVE k \in T
  <2>1. Append(text, c)[k] = text[k] /\ k \in 1 .. Len(Append(text, c))
    BY <1>1, AppendProperties
  <2>2. f[k] = IF text[k] \in {Blank, "-"} THEN f[k - 1] ELSE f[k - 1] * b + DigitOf(text[k])
    BY DEF Reads
  <2>3. g[k] = IF text[k] \in {Blank, "-"} THEN g[k - 1] ELSE g[k - 1] * b + DigitOf(text[k])
    BY <2>1 DEF Reads
  <2>4. g[k - 1] = f[k - 1] /\ k \in 0 .. Len(text)
    BY <1>3, <1>1
  <2>5. QED BY <2>2, <2>3, <2>4
<1> HIDE DEF T
<1>4. \A k \in 0 .. Len(text) : k \in T
  BY <1>1, <1>2, <1>3, Induction
<1> USE DEF T
<1>5. QED BY <1>4, <1>1

\* ... so that a character at the end changes the reading as one expects.
LEMMA ReadingAppend ==
  ASSUME NEW b \in Nat, NEW text \in Seq(Printable), NEW c \in Printable
  PROVE  /\ Reading(b, text) \in Nat
         /\ Reading(b, Append(text, c)) =
              IF c \in {Blank, "-"} THEN Reading(b, text)
              ELSE Reading(b, text) * b + DigitOf(c)
<1>1. PICK f : Reads(f, b, text) /\ Reading(b, text) = f[Len(text)]
  BY ReadingEquation
<1>2. Append(text, c) \in Seq(Printable) /\ Len(Append(text, c)) = Len(text) + 1
      /\ Append(text, c)[Len(text) + 1] = c /\ Len(text) \in Nat
  BY AppendProperties
<1>3. PICK g : Reads(g, b, Append(text, c))
               /\ Reading(b, Append(text, c)) = g[Len(text) + 1]
  BY <1>2, ReadingEquation
<1>4. g[Len(text)] = f[Len(text)]
  BY <1>1, <1>3, ReadsOnce
<1>5. g[Len(text) + 1] = IF c \in {Blank, "-"} THEN g[Len(text)]
                         ELSE g[Len(text)] * b + DigitOf(c)
  BY <1>2, <1>3 DEF Reads
<1>6. f[Len(text)] \in Nat
  BY <1>1, <1>2 DEF Reads
<1>7. QED BY <1>1, <1>3, <1>4, <1>5, <1>6

\* Nothing reads as zero.
LEMMA ReadingNothing == ASSUME NEW b \in Nat PROVE Reading(b, <<>>) = 0
<1>1. <<>> \in Seq(Printable) /\ Len(<<>>) = 0
  OBVIOUS
<1>2. PICK f : Reads(f, b, <<>>) /\ Reading(b, <<>>) = f[0]
  BY <1>1, ReadingEquation
<1>3. QED BY <1>2 DEF Reads

-----------------------------------------------------------------------------
(* Division by the base, over and over.                                      *)

Radices == {8, 10, 16}

LEMMA Division ==
  ASSUME NEW b \in Radices, NEW v \in Nat
  PROVE  /\ v \div b \in Nat /\ v % b \in 0 .. b - 1 /\ v % b \in 0 .. 15
         /\ v = b * (v \div b) + (v % b)
         /\ 8 * (v \div b) <= v
<1>1. CASE b = 8
  BY <1>1
<1>2. CASE b = 10
  BY <1>2
<1>3. CASE b = 16
  BY <1>3
<1>4. QED BY <1>1, <1>2, <1>3 DEF Radices

\* What is left of v when it has been divided by b so many times.
Quotients(b, v) ==
  LET quotient[i \in 0 .. LongLongBits] ==
        IF i = 0 THEN v ELSE quotient[i - 1] \div b
  IN  quotient

LEMMA QuotientsEquation ==
  ASSUME NEW b \in Radices, NEW v \in Nat
  PROVE  /\ Quotients(b, v) \in [0 .. LongLongBits -> Nat]
         /\ Quotients(b, v)[0] = v
         /\ \A i \in 1 .. LongLongBits :
              Quotients(b, v)[i] = Quotients(b, v)[i - 1] \div b
<1> DEFINE Body(f) == [i \in 0 .. LongLongBits |-> IF i = 0 THEN v ELSE f[i - 1] \div b]
           divide  == [u \in Nat |-> u \div b]
           step    == [k \in 1 .. LongLongBits |-> divide]
<1>1. PICK f \in [0 .. LongLongBits -> Nat] : Follows(f, LongLongBits, v, step)
  <2>1. divide \in [Nat -> Nat]
    BY Division
  <2> HIDE DEF divide
  <2>2. step \in [1 .. LongLongBits -> [Nat -> Nat]]
    BY <2>1
  <2> HIDE DEF step
  <2>3. QED BY <2>2, Sizes, Recursion
<1>2. f[0] = v /\ \A i \in 1 .. LongLongBits : f[i] = f[i - 1] \div b
  <2>1. ASSUME NEW i \in 1 .. LongLongBits PROVE f[i] = f[i - 1] \div b
    <3>1. f[i - 1] \in Nat
      BY Sizes
    <3>2. step[i][f[i - 1]] = f[i - 1] \div b
      BY <3>1
    <3> HIDE DEF step
    <3>3. QED BY <1>1, <3>2 DEF Follows
  <2>2. QED BY <1>1, <2>1 DEF Follows
<1>3. f = Body(f)
  <2>1. \A i \in 0 .. LongLongBits : i # 0 => i \in 1 .. LongLongBits
    BY Sizes
  <2>2. QED BY <1>2, <2>1
<1>4. Quotients(b, v) = CHOOSE h : h = Body(h)
  BY DEF Quotients
<1> HIDE DEF Body
<1>5. Quotients(b, v) = Body(Quotients(b, v))
  BY <1>3, <1>4
<1> DEFINE q == Quotients(b, v)
<1> HIDE DEF q
<1> USE DEF Body
<1>6. q = [i \in 0 .. LongLongBits |-> IF i = 0 THEN v ELSE q[i - 1] \div b]
  BY <1>5 DEF q
<1> HIDE DEF Body
<1>7. q[0] = v
  BY <1>6, Sizes
<1>8. ASSUME NEW i \in 1 .. LongLongBits PROVE q[i] = q[i - 1] \div b
  BY <1>6, Sizes
<1>9. q \in [0 .. LongLongBits -> Nat]
  <2> DEFINE T == {i \in 0 .. LongLongBits : q[i] \in Nat}
  <2>1. 0 \in T
    BY <1>7, Sizes
  <2>2. ASSUME NEW i \in 1 .. LongLongBits, i - 1 \in T PROVE i \in T
    <3>1. q[i - 1] \in Nat /\ i \in 0 .. LongLongBits
      BY <2>2, Sizes
    <3>2. q[i - 1] \div b \in Nat
      BY <3>1, Division
    <3>3. QED BY <3>1, <3>2, <1>8
  <2> HIDE DEF T
  <2>3. \A i \in 0 .. LongLongBits : i \in T
    BY <2>1, <2>2, Sizes, Induction
  <2> USE DEF T
  <2>4. \A i \in 0 .. LongLongBits : q[i] \in Nat
    BY <2>3
  <2>5. QED BY <1>6, <2>4
<1>10. QED BY <1>7, <1>8, <1>9 DEF q

\* Each division takes three bits at least.
LEMMA QuotientBound ==
  ASSUME NEW b \in Radices, NEW v \in BitPatterns(LongLongBits), NEW i \in 0 .. LongLongBits
  PROVE  /\ 3 * i <= LongLongBits =>
              Quotients(b, v)[i] < Powers(2)[LongLongBits - 3 * i]
         /\ 3 * i > LongLongBits => Quotients(b, v)[i] = 0
<1> DEFINE q == Quotients(b, v)
           p == Powers(2)
           Small(k) == /\ 3 * k <= LongLongBits => q[k] < p[LongLongBits - 3 * k]
                       /\ 3 * k > LongLongBits => q[k] = 0
           T == {k \in 0 .. LongLongBits : Small(k)}
<1>1. LongLongBits \in Nat /\ p \in [0 .. LongLongBits -> Nat] /\ p[0] = 1
      /\ v \in Nat /\ v < p[LongLongBits]
  <2>1. LongLongBits \in Nat /\ p \in [0 .. LongLongBits -> Nat] /\ p[0] = 1
    BY Sizes, PowersEquation
  <2>2. p[LongLongBits] \in Nat /\ v \in 0 .. p[LongLongBits] - 1
    BY <2>1 DEF BitPatterns
  <2> HIDE DEF p
  <2>3. QED BY <2>1, <2>2
<1>2. \A k \in 1 .. LongLongBits : p[k] = 2 * p[k - 1]
  BY PowersEquation
<1>3. q[0] = v /\ \A k \in 0 .. LongLongBits : q[k] \in Nat
  BY <1>1, QuotientsEquation
<1>4. \A k \in 1 .. LongLongBits : 8 * q[k] <= q[k - 1]
  <2>1. ASSUME NEW k \in 1 .. LongLongBits PROVE 8 * q[k] <= q[k - 1]
    <3>1. q[k - 1] \in Nat /\ q[k] = q[k - 1] \div b
      <4>1. k - 1 \in 0 .. LongLongBits
        BY <1>1
      <4>2. q[k] = q[k - 1] \div b
        BY <1>1, QuotientsEquation
      <4> HIDE DEF q
      <4>3. QED BY <1>3, <4>1, <4>2
    <3> HIDE DEF q
    <3>2. QED BY <3>1, Division
  <2>2. QED BY <2>1
<1> HIDE DEF q, p
<1>5. 0 \in T
  BY <1>1, <1>3
<1>6. ASSUME NEW k \in 1 .. LongLongBits, k - 1 \in T PROVE k \in T
  <2>1. k \in Nat /\ k >= 1 /\ k - 1 \in Nat /\ k \in 0 .. LongLongBits
        /\ q[k - 1] \in Nat /\ q[k] \in Nat /\ 8 * q[k] <= q[k - 1] /\ Small(k - 1)
    BY <1>1, <1>3, <1>4, <1>6
  <2>2. CASE 3 * k <= LongLongBits
    <3> DEFINE m == LongLongBits - 3 * k
    <3>1. m \in Nat /\ m + 3 <= LongLongBits /\ LongLongBits - 3 * (k - 1) = m + 3
          /\ 3 * (k - 1) <= LongLongBits
      BY <1>1, <2>1, <2>2
    <3>2. q[k - 1] < p[m + 3]
      BY <2>1, <3>1
    <3> HIDE DEF m
    <3>3. p[m + 3] = 2 * p[m + 2] /\ p[m + 2] = 2 * p[m + 1] /\ p[m + 1] = 2 * p[m]
      <4>1. /\ m + 3 \in 1 .. LongLongBits /\ (m + 3) - 1 = m + 2
            /\ m + 2 \in 1 .. LongLongBits /\ (m + 2) - 1 = m + 1
            /\ m + 1 \in 1 .. LongLongBits /\ (m + 1) - 1 = m
        BY <1>1, <3>1
      <4>2. QED BY <1>2, <4>1
    <3>4. p[m] \in Nat
      BY <1>1, <3>1
    <3>5. q[k] < p[m]
      BY ONLY <2>1, <3>2, <3>3, <3>4
    <3>6. QED BY <2>1, <2>2, <3>5, <1>1 DEF m
  <2>3. CASE 3 * k > LongLongBits
    <3>1. q[k - 1] < 8
      <4>1. CASE 3 * (k - 1) > LongLongBits
        BY <2>1, <4>1
      <4>2. CASE 3 * (k - 1) <= LongLongBits
        <5> DEFINE m == LongLongBits - 3 * (k - 1)
        <5>1. m \in 0 .. 2 /\ m <= LongLongBits
          BY <1>1, <2>1, <2>3, <4>2
        <5>2. q[k - 1] < p[m]
          BY <2>1, <4>2
        <5> HIDE DEF m
        <5>3. m \in 1 .. 2 => p[m] = 2 * p[m - 1]
          BY <1>1, <1>2, <5>1
        <5>4. m = 2 => p[1] = 2 * p[0]
          BY <1>1, <1>2, <5>1
        <5>5. p[m] <= 4
          BY <1>1, <5>1, <5>3, <5>4
        <5>6. p[m] \in Nat
          BY <1>1, <5>1
        <5>7. QED BY <2>1, <5>2, <5>5, <5>6
      <4>3. QED BY <4>1, <4>2, <1>1, <2>1
    <3>2. q[k] = 0
      BY <2>1, <3>1
    <3>3. ~ (3 * k <= LongLongBits)
      BY <1>1, <2>1, <2>3
    <3>4. QED BY <2>1, <3>2, <3>3
  <2>4. QED BY <2>2, <2>3, <1>1, <2>1
<1>7. \A k \in 0 .. LongLongBits : k \in T
  <2> HIDE DEF T
  <2>1. QED BY <1>1, <1>5, <1>6, Induction
<1>8. QED BY <1>7 DEF p, q

\* The number of divisions that leave nothing is the number of digits...
Counts(b, v, k) == v < Powers(b)[k] /\ (k = 1 \/ v >= Powers(b)[k - 1])

LEMMA DigitsCounted ==
  ASSUME NEW b \in Radices, NEW v \in Nat, NEW l \in 1 .. LongLongBits,
         Quotients(b, v)[l] = 0, l = 1 \/ Quotients(b, v)[l - 1] > 0
  PROVE  Counts(b, v, l)
<1> DEFINE q == Quotients(b, v)
           p == Powers(b)
<1>1. /\ LongLongBits \in Nat /\ l \in Nat /\ b \in Nat
      /\ b \in Nat /\ q[l] = 0 /\ (l = 1 \/ q[l - 1] > 0)
  BY Sizes DEF Radices
<1>2. /\ p[0] = 1
      /\ \A k \in 0 .. LongLongBits : p[k] \in Nat
      /\ \A k \in 1 .. LongLongBits : p[k] = b * p[k - 1]
  BY <1>1, PowersEquation
<1>3. q[0] = v /\ \A k \in 0 .. LongLongBits : q[k] \in Nat
  BY QuotientsEquation
<1>4. ASSUME NEW k \in 1 .. LongLongBits
      PROVE  \E r \in 0 .. b - 1 : q[k - 1] = b * q[k] + r
  <2>1. q[k] = q[k - 1] \div b /\ k - 1 \in 0 .. LongLongBits
    BY QuotientsEquation, Sizes
  <2>2. q[k - 1] \in Nat
    BY <1>3, <2>1
  <2> HIDE DEF q
  <2>3. QED BY <2>1, <2>2, Division
<1> HIDE DEF q, p
<1>5. q[l - l] < p[l]
  <2> DEFINE T == {j \in 0 .. l : q[l - j] < p[j]}
  <2>1. 0 \in T
    BY <1>1, <1>2
  <2>2. ASSUME NEW j \in 1 .. l, j - 1 \in T PROVE j \in T
    <3>1. /\ l - j + 1 \in 1 .. LongLongBits /\ (l - j + 1) - 1 = l - j
          /\ l - (j - 1) = l - j + 1 /\ l - j \in 0 .. LongLongBits
          /\ j \in 1 .. LongLongBits /\ j - 1 \in 0 .. LongLongBits
      BY <1>1
    <3>2. PICK r \in 0 .. b - 1 : q[l - j] = b * q[l - j + 1] + r
      BY <1>4, <3>1
    <3>3. q[l - j + 1] < p[j - 1] /\ p[j] = b * p[j - 1]
          /\ q[l - j + 1] \in Nat /\ p[j - 1] \in Nat
      BY <1>2, <1>3, <2>2, <3>1
    <3>4. ASSUME NEW x \in Nat, NEW y \in Nat, x < y PROVE b * x + r < b * y
      BY <3>2, <3>4 DEF Radices
    <3>5. q[l - j] < p[j]
      BY <3>2, <3>3, <3>4
    <3>6. QED BY <3>5
  <2>3. \A j \in 0 .. l : j \in T
    <3> HIDE DEF T
    <3>1. QED BY <1>1, <2>1, <2>2, Induction
  <2>4. QED BY <2>3, <1>1
<1>6. CASE l = 1
  BY <1>1, <1>3, <1>5, <1>6 DEF Counts, p
<1>7. CASE l # 1
  <2> DEFINE T == {j \in 0 .. l - 1 : q[l - 1 - j] >= p[j]}
  <2>1. 0 \in T
    BY <1>1, <1>2, <1>3, <1>7
  <2>2. ASSUME NEW j \in 1 .. l - 1, j - 1 \in T PROVE j \in T
    <3>1. /\ l - j \in 1 .. LongLongBits /\ l - 1 - j = (l - j) - 1
          /\ l - 1 - (j - 1) = l - j /\ l - j \in 0 .. LongLongBits
          /\ j \in 1 .. LongLongBits /\ j - 1 \in 0 .. LongLongBits
      BY <1>1
    <3>2. PICK r \in 0 .. b - 1 : q[l - 1 - j] = b * q[l - j] + r
      BY <1>4, <3>1
    <3>3. q[l - j] >= p[j - 1] /\ p[j] = b * p[j - 1]
          /\ q[l - j] \in Nat /\ p[j - 1] \in Nat
      BY <1>2, <1>3, <2>2, <3>1
    <3>4. ASSUME NEW x \in Nat, NEW y \in Nat, x >= y PROVE b * x + r >= b * y
      BY <3>2, <3>4 DEF Radices
    <3>5. q[l - 1 - j] >= p[j]
      BY <3>2, <3>3, <3>4
    <3>6. QED BY <3>5
  <2>3. \A j \in 0 .. l - 1 : j \in T
    <3>1. l - 1 \in Nat
      BY <1>1
    <3> HIDE DEF T
    <3>2. QED BY <3>1, <2>1, <2>2, Induction
  <2>4. q[0] >= p[l - 1]
    BY <2>3, <1>1
  <2>5. QED BY <2>4, <1>1, <1>3, <1>5 DEF Counts, p
<1>8. QED BY <1>6, <1>7

\* ... of which there is one.
LEMMA CountedOnce ==
  ASSUME NEW b \in Radices, NEW v \in Nat,
         NEW k \in 1 .. LongLongBits, Counts(b, v, k),
         NEW l \in 1 .. LongLongBits, Counts(b, v, l)
  PROVE  k = l
<1>1. ASSUME NEW i \in 1 .. LongLongBits, Counts(b, v, i),
             NEW j \in 1 .. LongLongBits, Counts(b, v, j), i < j
      PROVE  FALSE
  <2>1. j - 1 \in 0 .. LongLongBits /\ i \in 0 .. j - 1 /\ j # 1
        /\ i \in 0 .. LongLongBits /\ b \in Nat /\ b >= 1
    BY <1>1, Sizes DEF Radices
  <2>2. Powers(b)[i] <= Powers(b)[j - 1]
    BY <2>1, PowersGrow
  <2>3. Powers(b)[i] \in Nat /\ Powers(b)[j - 1] \in Nat
    BY <2>1, PowersEquation
  <2>4. v < Powers(b)[i] /\ v >= Powers(b)[j - 1]
    BY <1>1, <2>1 DEF Counts
  <2>5. QED BY <2>2, <2>3, <2>4
<1>2. ~ (k < l) /\ ~ (l < k)
  BY <1>1
<1>3. QED BY <1>2, Sizes

-----------------------------------------------------------------------------
(* The value of an argument.                                                 *)

LEMMA Modulo ==
  ASSUME NEW w \in Nat, NEW a \in 0 .. w - 1
  PROVE  a % w = a /\ (a - w) % w = a
<1>1. a % w = a
  OBVIOUS
<1>2. (a - w) % w = a
  OBVIOUS
<1>3. QED BY <1>1, <1>2

\* Both numbers printNum begins with are the magnitude of the value.
LEMMA Values ==
  ASSUME dir \in Directives, dir.conv \in Numeric, arg \in BitPatterns(Bits)
  PROVE  /\ Base[dir.conv] \in Radices
         /\ Value \in Int /\ Magnitude \in BitPatterns(LongLongBits)
         /\ (dir.conv \in SignedOnes /\ num < 0) <=> Value < 0
         /\ Value < 0 => Negated(num) = Magnitude
         /\ ~ (Value < 0) => num % Powers(2)[LongLongBits] = Magnitude
<1> DEFINE p == Powers(2)[Bits]
           h == Powers(2)[Bits - 1]
           w == Powers(2)[LongLongBits]
<1>1. Base[dir.conv] \in Radices
  BY DEF Base, Radices, Numeric
<1>2. Bits \in 1 .. LongLongBits
  BY Sizes DEF Bits
<1>3. p \in Nat /\ h \in Nat /\ h >= 1 /\ p = 2 * h /\ p <= w /\ w \in Nat
  BY <1>2, WordSizes
<1>4. arg \in 0 .. p - 1
  BY DEF BitPatterns
<1>5. Signed(arg, Bits) = IF arg < h THEN arg ELSE arg - p
  BY DEF Signed
<1>6. BitPatterns(LongLongBits) = 0 .. w - 1
  BY DEF BitPatterns
<1>7. Bits = LongLongBits => p = w
  OBVIOUS
<1>8. \A v : Negated(v) = (-v) % w
  BY DEF Negated
<1> HIDE DEF p, h, w
<1>9. \A a \in 0 .. w - 1 : a % w = a /\ (a - w) % w = a
  BY <1>3, Modulo
<1>10. CASE dir.conv \in SignedOnes
  <2>1. num = Signed(arg, Bits) /\ Value = num
    BY <1>10 DEF num, Value
  <2>2. CASE arg < h
    <3>1. num = arg /\ ~ (num < 0) /\ arg \in 0 .. w - 1
      BY <1>3, <1>4, <1>5, <2>1, <2>2
    <3>2. num % w = arg
      BY <1>9, <3>1
    <3>3. QED BY <1>1, <1>6, <1>8, <2>1, <3>1, <3>2 DEF Magnitude, w
  <2>3. CASE ~ (arg < h)
    <3>1. num = arg - p /\ num < 0 /\ -num \in 0 .. w - 1 /\ num \in Int
      BY <1>3, <1>4, <1>5, <2>1, <2>3
    <3>2. (-num) % w = -num
      BY <1>9, <3>1
    <3>3. Magnitude = -num
      BY <2>1, <3>1 DEF Magnitude
    <3>4. QED BY <1>1, <1>6, <1>8, <1>10, <2>1, <3>1, <3>2, <3>3
  <2>4. QED BY <2>2, <2>3
<1>11. CASE dir.conv \notin SignedOnes
  <2>1. Value = arg /\ arg \in Int /\ ~ (arg < 0) /\ arg \in 0 .. w - 1
    BY <1>3, <1>4, <1>11 DEF Value
  <2>2. Magnitude = arg
    BY <2>1 DEF Magnitude
  <2>3. num % w = arg
    <3>1. num = arg \/ num = arg - w
      BY <1>4, <1>5, <1>7, <1>11 DEF num
    <3>2. QED BY <1>9, <2>1, <3>1
  <2>4. QED BY <1>1, <1>6, <1>11, <2>1, <2>2, <2>3 DEF w
<1>12. QED BY <1>10, <1>11

-----------------------------------------------------------------------------
(* The invariant.                                                            *)

Larger(i, j) == IF i < j THEN j ELSE i

\* What remains to be divided after each digit.
Quotient == Quotients(Base[dir.conv], Magnitude)

\* Whether a number is being converted, and whether its sign has been printed.
Converting == vpc = "printNum" \/ vpc = "digits" \/ vpc = "pad" \/ vpc = "emit"
              \/ Done(Numeric)
Printing   == Converting /\ vpc # "printNum"

\* The places the sign takes, and those that are left.
Sign  == IF Value < 0 THEN 1 ELSE 0
Field == IF Value < 0 THEN WidthAfterSign(dir.width) ELSE dir.width

Types ==
  /\ vpc \in {"idle", "fetch", "convert", "next", "printNum", "digits", "pad", "emit"}
  /\ dir \in Directives
  /\ unsigned_num \in Nat /\ n \in Nat
  /\ toPrint \in Seq(0 .. 15)

\* Between two directives, and before a number's sign, nothing is printed.
Waiting ==
  /\ vpc \in {"idle", "fetch"} => dir = NoDirective
  /\ vpc \in {"idle", "fetch", "convert", "printNum"} => out = <<>>
  /\ ~ Printing => toPrint = <<>>

Argument == Converting => dir.conv \in Numeric /\ arg \in BitPatterns(Bits)

\* The digits are the remainders of the divisions, in this order, and the last
\* of the divisions leaves nothing.
Digits ==
  Printing =>
    /\ Len(toPrint) \in 0 .. LongLongBits
    /\ \A i \in 1 .. Len(toPrint) :
         toPrint[i] = Quotient[i - 1] % Base[dir.conv]
    /\ IF vpc = "digits"
       THEN /\ unsigned_num = Quotient[Len(toPrint)]
            /\ Len(toPrint) = 0 \/ unsigned_num > 0
       ELSE /\ Len(toPrint) >= 1 /\ Quotient[Len(toPrint)] = 0
            /\ Len(toPrint) = 1 \/ Quotient[Len(toPrint) - 1] > 0

\* The text begins with the sign, and reads as what the digits that have been
\* printed are the quotient of.
Text ==
  Printing =>
    /\ out \in Seq(Printable)
    /\ (\E i \in 1 .. Len(out) : out[i] = "-") <=> Value < 0
    /\ vpc \in {"digits", "pad"} => Reading(Base[dir.conv], out) = 0
    /\ vpc = "emit" =>
         /\ n \in 0 .. Len(toPrint)
         /\ Reading(Base[dir.conv], out) = Quotient[Len(toPrint) - n]
    /\ vpc = "next" => Reading(Base[dir.conv], out) = Magnitude

\* What is printed and what is still to be printed fill the field.
Filling ==
  Printing =>
    /\ vpc = "digits" => Len(out) = Sign /\ n = Field
    /\ vpc = "pad" =>
         Len(out) + Larger(n, Len(toPrint)) = Sign + Larger(Field, Len(toPrint))
    /\ vpc = "emit" =>
         Len(out) + Len(toPrint) - n = Sign + Larger(Field, Len(toPrint))
    /\ vpc = "next" => Len(out) = Sign + Larger(Field, Len(toPrint))

\* A string stands in its field.
Standing ==
  Done({"s"}) =>
    LET str == IF arg = NULL THEN <<>> ELSE arg
    IN  /\ Len(out) = Max({dir.width, Len(str)})
        /\ IF dir.minus THEN IsPrefix(str, out) ELSE IsSuffix(str, out)

IInv == Types /\ Waiting /\ Argument /\ Digits /\ Text /\ Filling /\ Standing

LEMMA LargerOf ==
  ASSUME NEW i \in Int, NEW j \in Int PROVE Max({i, j}) = Larger(i, j)
<1>1. Larger(i, j) \in {i, j} /\ \A k \in {i, j} : Larger(i, j) >= k
  BY DEF Larger
<1>2. \A m \in {i, j} : (\A k \in {i, j} : m >= k) => m = Larger(i, j)
  BY DEF Larger
<1>3. QED BY <1>1, <1>2 DEF Max

LEMMA Conversions ==
  /\ Numeric = {"o", "d", "i", "u", "x", "p"}
  /\ "T" \notin Numeric /\ "%" \notin Numeric
  /\ "c" \notin Numeric /\ "s" \notin Numeric
  /\ NoDirective \in Directives /\ NoDirective.conv = "T"
<1>1. Numeric = {"o", "d", "i", "u", "x", "p"}
  BY DEF Numeric, Base
<1>2. NoDirective \in Directives /\ NoDirective.conv = "T"
  BY VprintkAssumption DEF NoDirective, Directives, Unsupported
<1>3. "%" \notin Numeric
  BY <1>1
<1>4. QED BY <1>1, <1>2, <1>3

LEMMA DirectiveType ==
  ASSUME NEW d \in Directives
  PROVE  /\ d.width \in Nat /\ d.lead \in Printable /\ d.lead # "-"
         /\ (d.lead = Blank \/ DigitOf(d.lead) = 0)
         /\ d.minus \in BOOLEAN
         /\ d.conv \in {"c", "s"} \cup Numeric \cup Unsupported
<1>1. d.width \in Nat
  <2>1. d.width \in BitPatterns(LongLongBits)
    BY VprintkAssumption DEF Directives
  <2>2. QED BY <2>1 DEF BitPatterns
<1>2. d.lead \in {Blank, "0"} /\ d.minus \in BOOLEAN
      /\ d.conv \in {"c", "s"} \cup Numeric \cup Unsupported
  BY DEF Directives
<1>3. DigitChars[0 + 1] = "0"
  BY DEF DigitChars
<1>4. DigitOf("0") = 0 /\ "0" \in Printable
  BY <1>3, DigitOfChar DEF Printable
<1>5. Blank # "-"
  BY Zenon DEF Blank
<1>6. QED BY <1>1, <1>2, <1>4, <1>5 DEF Printable

\* While the directive and its argument stay, so does the number.
LEMMA SameNumber ==
  ASSUME UNCHANGED <<dir, arg>>
  PROVE  /\ Quotient' = Quotient /\ Magnitude' = Magnitude
         /\ Sign' = Sign /\ Field' = Field /\ (Value < 0)' = (Value < 0)
         /\ Bits' = Bits
<1>1. Bits' = Bits
  BY DEF Bits
<1>2. Value' = Value
  BY <1>1 DEF Value
<1>3. Magnitude' = Magnitude
  BY <1>2 DEF Magnitude
<1>4. QED BY <1>1, <1>2, <1>3 DEF Quotient, Sign, Field

-----------------------------------------------------------------------------
\* Nothing is printed before the first call.
LEMMA InitIInv == PrintInit => IInv
<1> SUFFICES ASSUME PrintInit PROVE IInv
  OBVIOUS
<1>1. ~ Converting /\ ~ Printing /\ ~ Done({"s"})
  BY DEF PrintInit, Converting, Printing, Done
<1>2. Types
  <2>1. toPrint \in Seq(0 .. 15)
    BY DEF PrintInit
  <2>2. QED BY <2>1, Conversions DEF PrintInit, Types
<1>3. QED
  BY <1>1, <1>2 DEF PrintInit, IInv, Waiting, Argument, Digits, Text, Filling, Standing

\* vprintk's own steps print no number and no string.
LEMMA OtherStepsIInv ==
  ASSUME IInv,
         Call \/ Return \/ NextTurn \/ Literal \/ Directive
         \/ ConvertChar \/ ConvertOther \/ ConvertNumber
  PROVE  IInv'
<1>1. /\ ~ Done(Numeric)' /\ ~ Done({"s"})' /\ ~ Printing'
      /\ vpc' \in {"idle", "fetch", "convert", "next", "printNum"}
      /\ dir' \in Directives
  <2>1. CASE Call \/ Return \/ Directive \/ NextTurn
    BY <2>1, Conversions
    DEF IInv, Types, Call, Return, Directive, NextTurn, Converting, Printing, Done
  <2>2. CASE Literal
    BY <2>2, Conversions
    DEF IInv, Types, Waiting, Literal, Converting, Printing, Done
  <2>3. CASE ConvertChar \/ ConvertOther \/ ConvertNumber
    BY <2>3, Conversions
    DEF IInv, Types, ConvertChar, ConvertOther, ConvertNumber, Unsupported,
        Converting, Printing, Done
  <2>4. QED BY <2>1, <2>2, <2>3
<1>2. unsigned_num' \in Nat /\ n' \in Nat /\ toPrint' = <<>>
  <2>1. CASE NextTurn
    BY <2>1 DEF NextTurn
  <2>2. CASE ~ NextTurn
    <3>1. ~ Printing /\ UNCHANGED locals
      BY <2>2 DEF Call, Return, Directive, Literal, ConvertChar, ConvertOther,
                  ConvertNumber, Printing, Converting, Done
    <3>2. QED BY <3>1 DEF IInv, Types, Waiting, locals
  <2>3. QED BY <2>1, <2>2
<1>3. Types'
  <2>1. toPrint' \in Seq(0 .. 15)
    BY <1>2
  <2>2. QED BY <1>1, <1>2, <2>1 DEF Types
<1>4. /\ vpc' \in {"idle", "fetch"} => dir' = NoDirective
      /\ vpc' \in {"idle", "fetch", "convert", "printNum"} => out' = <<>>
  BY DEF IInv, Types, Waiting, Call, Return, Directive, NextTurn, Literal,
         ConvertChar, ConvertOther, ConvertNumber
<1>5. Argument'
  <2>1. CASE ConvertNumber
    <3>1. Bits' = Bits
      BY <2>1 DEF ConvertNumber, Bits
    <3>2. QED BY <2>1, <3>1 DEF ConvertNumber, Argument, Converting
  <2>2. CASE ~ ConvertNumber
    BY <2>2, <1>1 DEF Call, Return, Directive, NextTurn, Literal, ConvertChar,
                      ConvertOther, Argument, Converting
  <2>3. QED BY <2>1, <2>2
<1>6. QED
  BY <1>1, <1>2, <1>3, <1>4, <1>5
  DEF IInv, Waiting, Digits, Text, Filling, Standing

\* A step that changes nothing keeps everything.
LEMMA StutterIInv == IInv /\ UNCHANGED printVars => IInv'
<1> SUFFICES ASSUME IInv, UNCHANGED printVars PROVE IInv'
  OBVIOUS
<1>1. UNCHANGED <<vpc, dir, unsigned_num, toPrint, n, arg, out>>
  BY DEF printVars, locals
<1>2. /\ Quotient' = Quotient /\ Magnitude' = Magnitude
      /\ Sign' = Sign /\ Field' = Field /\ (Value < 0)' = (Value < 0)
      /\ Bits' = Bits
  BY <1>1, SameNumber
<1>3. Printing' = Printing /\ Converting' = Converting
      /\ Done({"s"})' = Done({"s"})
  BY <1>1 DEF Printing, Converting, Done
<1>4. Types' /\ Waiting' /\ Argument'
  BY <1>1, <1>2, <1>3 DEF IInv, Types, Waiting, Argument
<1>5. Digits' /\ Filling'
  BY <1>1, <1>2, <1>3 DEF IInv, Digits, Filling
<1>6. Text' /\ Standing'
  BY <1>1, <1>2, <1>3 DEF IInv, Text, Standing
<1>7. QED BY <1>4, <1>5, <1>6 DEF IInv

-----------------------------------------------------------------------------
(* Strings.                                                                  *)

LEMMA PrefixOfConcat ==
  ASSUME NEW S, NEW s \in Seq(S), NEW t \in Seq(S)
  PROVE  IsPrefix(s, s \o t)
<1>1. s \o t \in Seq(S) /\ Len(s \o t) = Len(s) + Len(t)
      /\ Len(s) \in Nat /\ Len(t) \in Nat
  BY ConcatProperties
<1>2. \A i \in 1 .. Len(s) : (s \o t)[i] = s[i]
  BY <1>1, ConcatProperties
<1>3. SubSeq(s, 1, Len(s)) = SubSeq(s \o t, 1, Len(s))
  <2>1. Len(s) <= Len(s \o t)
    BY <1>1
  <2>2. SubSeq(s, 1, Len(s)) = [i \in 1 .. Len(s) |-> s[i]]
    BY <1>1
  <2>3. SubSeq(s \o t, 1, Len(s)) = [i \in 1 .. Len(s) |-> (s \o t)[i]]
    BY <1>1
  <2>4. QED BY <1>2, <2>2, <2>3
<1>4. QED BY <1>1, <1>3 DEF IsPrefix

LEMMA SuffixOfConcat ==
  ASSUME NEW S, NEW s \in Seq(S), NEW t \in Seq(S)
  PROVE  IsSuffix(t, s \o t)
<1>1. s \o t \in Seq(S) /\ Len(s \o t) = Len(s) + Len(t)
      /\ Len(s) \in Nat /\ Len(t) \in Nat
  BY ConcatProperties
<1> DEFINE u == s \o t
           r == Reverse(t)
           v == Reverse(u)
<1>2. /\ r \in Seq(S) /\ Len(r) = Len(t)
      /\ \A i \in 1 .. Len(t) : r[i] = t[(Len(t) - i) + 1]
  BY <1>1 DEF Reverse
<1>3. /\ v \in Seq(S) /\ Len(v) = Len(s) + Len(t)
      /\ \A i \in 1 .. Len(u) : v[i] = u[(Len(u) - i) + 1]
  <2>1. u \in Seq(S) /\ Len(u) = Len(s) + Len(t)
    BY <1>1
  <2> HIDE DEF u
  <2>2. QED BY <2>1, <1>1 DEF Reverse
<1>4. \A i \in 1 .. Len(t) : v[i] = r[i]
  <2>1. ASSUME NEW i \in 1 .. Len(t) PROVE v[i] = r[i]
    <3>1. i \in 1 .. Len(u) /\ (Len(u) - i) + 1 = Len(s) + ((Len(t) - i) + 1)
          /\ (Len(t) - i) + 1 \in 1 .. Len(t)
      BY <1>1
    <3>2. u[Len(s) + ((Len(t) - i) + 1)] = t[(Len(t) - i) + 1]
      <4>1. \A j \in 1 .. Len(t) : u[Len(s) + j] = t[j]
        BY <1>1, ConcatProperties
      <4> HIDE DEF u
      <4>2. QED BY <3>1, <4>1
    <3>3. v[i] = u[(Len(u) - i) + 1] /\ r[i] = t[(Len(t) - i) + 1]
      BY <3>1, <1>2, <1>3
    <3> HIDE DEF u, v, r
    <3>4. QED BY <3>1, <3>2, <3>3
  <2> HIDE DEF u, v, r
  <2>2. QED BY <2>1
<1> HIDE DEF u, v, r
<1>5. SubSeq(r, 1, Len(r)) = SubSeq(v, 1, Len(r))
  <2>1. Len(r) <= Len(v) /\ Len(r) \in Nat
    BY <1>1, <1>2, <1>3
  <2>2. SubSeq(r, 1, Len(r)) = [i \in 1 .. Len(r) |-> r[i]]
    BY <1>2, <2>1
  <2>3. SubSeq(v, 1, Len(r)) = [i \in 1 .. Len(r) |-> v[i]]
    BY <1>3, <2>1
  <2>4. QED BY <1>2, <1>4, <2>2, <2>3
<1>6. IsPrefix(r, v)
  BY <1>1, <1>2, <1>3, <1>5 DEF IsPrefix
<1>7. QED BY <1>6 DEF IsSuffix, r, v, u

\* A string is padded to its field, at one side.
LEMMA ConvertStringIInv == IInv /\ ConvertString => IInv'
<1> SUFFICES ASSUME IInv, ConvertString PROVE IInv'
  OBVIOUS
<1> DEFINE S     == {"a", "b", Blank}
           str   == IF arg' = NULL THEN <<>> ELSE arg'
           width == IF dir.width = 0 THEN Len(str) ELSE dir.width
           before == IF dir.minus THEN <<>> ELSE Spaces(Len(str), dir.width)
           after  == IF dir.minus THEN Spaces(Len(str), width) ELSE <<>>
<1>1. /\ dir \in Directives /\ dir.conv = "s" /\ dir' = dir /\ vpc' = "next"
      /\ ~ Printing /\ ~ Converting'
      /\ toPrint' = <<>> /\ unsigned_num' \in Nat /\ n' \in Nat
  BY Conversions
  DEF ConvertString, locals, IInv, Types, Waiting, Printing, Converting, Done
<1>2. str \in Seq(S) /\ Len(str) \in Nat /\ (Len(str) = 0 => str = <<>>)
  <2>1. str \in Seq(S)
    <3>1. CASE arg' = NULL
      BY <3>1
    <3>2. CASE arg' # NULL
      <4>1. PICK k \in 0 .. MaxString : arg' \in [1 .. k -> {"a", "b"}]
        BY <3>2 DEF ConvertString, Strings
      <4>2. k \in Nat
        BY Sizes
      <4>3. QED BY <3>2, <4>1, <4>2
    <3>3. QED BY <3>1, <3>2
  <2> HIDE DEF str
  <2>2. QED BY <2>1, EmptySeq
<1> HIDE DEF str
<1>3. dir.width \in Nat /\ width \in Nat
  BY <1>1, <1>2, DirectiveType
<1>4. ASSUME NEW l \in Nat, NEW w \in Nat
      PROVE  Spaces(l, w) \in Seq(S) /\ Len(Spaces(l, w)) = Larger(w - l, 0)
  <2>1. Max({w - l, 0}) = Larger(w - l, 0) /\ Larger(w - l, 0) \in Nat
    BY LargerOf DEF Larger
  <2>2. Spaces(l, w) = [i \in 1 .. Larger(w - l, 0) |-> Blank]
    BY <2>1 DEF Spaces
  <2>3. QED BY <2>1, <2>2
<1>5. /\ before \in Seq(S) /\ after \in Seq(S)
      /\ Len(before) = IF dir.minus THEN 0 ELSE Larger(dir.width - Len(str), 0)
      /\ Len(after) = IF dir.minus THEN Larger(width - Len(str), 0) ELSE 0
  <2>1. /\ Spaces(Len(str), dir.width) \in Seq(S) /\ Spaces(Len(str), width) \in Seq(S)
        /\ Len(Spaces(Len(str), dir.width)) = Larger(dir.width - Len(str), 0)
        /\ Len(Spaces(Len(str), width)) = Larger(width - Len(str), 0)
    <3> HIDE DEF width, S
    <3>1. QED BY <1>2, <1>3, <1>4
  <2>2. <<>> \in Seq(S) /\ Len(<<>>) = 0
    BY EmptySeq
  <2> HIDE DEF width, S
  <2>3. QED BY <2>1, <2>2
<1>6. out' = before \o str \o after
  <2>1. (IF 0 < width THEN str ELSE <<>>) = str
    BY <1>2, <1>3
  <2>2. out' = before \o (IF 0 < width THEN str ELSE <<>>) \o after
    BY DEF ConvertString, str
  <2>3. QED BY ONLY <2>1, <2>2
<1>7. Len(out') = Max({dir.width, Len(str)})
  <2>1. before \o str \in Seq(S) /\ Len(before \o str) = Len(before) + Len(str)
    BY <1>2, <1>5, ConcatProperties
  <2>2. Len(out') = Len(before) + Len(str) + Len(after)
    BY <1>5, <1>6, <2>1, ConcatProperties
  <2>3. Len(out') = Larger(dir.width, Len(str))
    BY <1>2, <1>3, <1>5, <2>2 DEF Larger
  <2>4. QED BY <1>2, <1>3, <2>3, LargerOf
<1>8. IF dir.minus THEN IsPrefix(str, out') ELSE IsSuffix(str, out')
  <2>1. CASE dir.minus
    <3>1. out' = str \o after
      BY <1>2, <1>6, <2>1, ConcatEmptySeq
    <3>2. QED BY <1>2, <1>5, <2>1, <3>1, PrefixOfConcat
  <2>2. CASE ~ dir.minus
    <3>1. before \o str \in Seq(S)
      BY <1>2, <1>5, ConcatProperties
    <3>2. out' = before \o str
      BY <1>6, <2>2, <3>1, ConcatEmptySeq
    <3>3. QED BY <1>2, <1>5, <2>2, <3>2, SuffixOfConcat
  <2>3. QED BY <2>1, <2>2
<1>9. Standing'
  BY <1>1, <1>7, <1>8 DEF Standing, str
<1>10. Types' /\ Waiting' /\ ~ Printing'
  <2>1. toPrint' \in Seq(0 .. 15)
    BY <1>1
  <2>2. QED BY <1>1, <2>1 DEF Types, Waiting, Printing
<1>11. QED BY <1>1, <1>9, <1>10 DEF IInv, Argument, Digits, Text, Filling

-----------------------------------------------------------------------------
(* Numbers.                                                                  *)

\* What putc adds to the text.
Longer(b, text, c, longer) ==
  /\ longer \in Seq(Printable) /\ Len(longer) = Len(text) + 1 /\ Len(text) \in Nat
  /\ (\E i \in 1 .. Len(longer) : longer[i] = "-")
       <=> c = "-" \/ \E i \in 1 .. Len(text) : text[i] = "-"
  /\ Reading(b, text) \in Nat
  /\ Reading(b, longer) = IF c \in {Blank, "-"} THEN Reading(b, text)
                          ELSE Reading(b, text) * b + DigitOf(c)

LEMMA PutChar ==
  ASSUME NEW b \in Nat, NEW text \in Seq(Printable), NEW c \in Printable
  PROVE  Longer(b, text, c, Append(text, c))
<1> DEFINE longer == Append(text, c)
<1>1. longer \in Seq(Printable) /\ Len(longer) = Len(text) + 1 /\ Len(text) \in Nat
      /\ longer[Len(text) + 1] = c /\ \A i \in 1 .. Len(text) : longer[i] = text[i]
  BY AppendProperties
<1>2. /\ Reading(b, text) \in Nat
      /\ Reading(b, longer) = IF c \in {Blank, "-"} THEN Reading(b, text)
                              ELSE Reading(b, text) * b + DigitOf(c)
  BY ReadingAppend
<1> HIDE DEF longer
<1>3. /\ \A i \in 1 .. Len(longer) : i \in 1 .. Len(text) \/ i = Len(text) + 1
      /\ \A i \in 1 .. Len(text) : i \in 1 .. Len(longer)
      /\ Len(text) + 1 \in 1 .. Len(longer)
  BY <1>1
<1>4. (\E i \in 1 .. Len(longer) : longer[i] = "-")
        <=> c = "-" \/ \E i \in 1 .. Len(text) : text[i] = "-"
  BY ONLY <1>1, <1>3
<1>5. QED BY <1>1, <1>2, <1>4 DEF Longer, longer

\* printNum begins with the sign, if there is one, and the magnitude.
LEMMA PrintNumIInv == IInv /\ PrintNum => IInv'
<1> SUFFICES ASSUME IInv, PrintNum PROVE IInv'
  OBVIOUS
<1>1. /\ vpc = "printNum" /\ vpc' = "digits"
      /\ dir' = dir /\ arg' = arg /\ toPrint' = toPrint
      /\ Converting /\ ~ Printing
  BY DEF PrintNum, Converting, Printing
<1>2. /\ toPrint = <<>> /\ out = <<>> /\ dir \in Directives
      /\ dir.conv \in Numeric /\ arg \in BitPatterns(Bits)
  BY <1>1 DEF IInv, Types, Waiting, Argument
<1>3. /\ Base[dir.conv] \in Radices /\ Base[dir.conv] \in Nat
      /\ Value \in Int /\ Magnitude \in Nat /\ Quotient[0] = Magnitude
  <2>1. Base[dir.conv] \in Radices /\ Magnitude \in BitPatterns(LongLongBits) /\ Value \in Int
    BY <1>2, Values
  <2>2. Magnitude \in Nat
    BY <2>1 DEF BitPatterns
  <2>3. QED BY <2>1, <2>2, QuotientsEquation DEF Radices, Quotient
<1>4. /\ unsigned_num' = Magnitude
      /\ n' = Field
      /\ out' = IF Value < 0 THEN <<"-">> ELSE <<>>
  <2>1. CASE Value < 0
    <3>1. dir.conv \in SignedOnes /\ num < 0 /\ Negated(num) = Magnitude
      BY <1>2, <2>1, Values
    <3>2. putc("-") /\ unsigned_num' = Negated(num) /\ n' = WidthAfterSign(dir.width)
      BY <3>1 DEF PrintNum
    <3>3. QED BY <1>2, <2>1, <3>1, <3>2 DEF putc, Field
  <2>2. CASE ~ (Value < 0)
    <3>1. ~ (dir.conv \in SignedOnes /\ num < 0)
          /\ num % Powers(2)[LongLongBits] = Magnitude
      BY <1>2, <2>2, Values
    <3>2. /\ unsigned_num' = num % Powers(2)[LongLongBits]
          /\ n' = dir.width /\ out' = out
      BY <3>1 DEF PrintNum
    <3>3. QED BY <1>2, <2>2, <3>1, <3>2 DEF Field
  <2>3. QED BY <2>1, <2>2
<1>5. /\ Quotient' = Quotient /\ Magnitude' = Magnitude
      /\ Sign' = Sign /\ Field' = Field /\ (Value < 0)' = (Value < 0)
      /\ Bits' = Bits /\ Base[dir.conv]' = Base[dir.conv]
  BY <1>1, SameNumber
<1>6. Field \in Nat
  BY <1>2, DirectiveType DEF Field, WidthAfterSign
<1>7. /\ out' \in Seq(Printable) /\ Reading(Base[dir.conv], out') = 0
      /\ Len(out') = Sign
      /\ (\E i \in 1 .. Len(out') : out'[i] = "-") <=> Value < 0
  <2>1. <<>> \in Seq(Printable) /\ Len(<<>>) = 0 /\ "-" \in Printable
        /\ Append(<<>>, "-") = <<"-">>
    BY DEF Printable
  <2>2. Reading(Base[dir.conv], <<>>) = 0
    BY <1>3, ReadingNothing
  <2>3. CASE Value < 0
    <3>1. out' = Append(<<>>, "-")
      BY <1>4, <2>1, <2>3
    <3>2. /\ out' \in Seq(Printable) /\ Len(out') = Len(<<>>) + 1
          /\ \E i \in 1 .. Len(out') : out'[i] = "-"
          /\ Reading(Base[dir.conv], out') = Reading(Base[dir.conv], <<>>)
      <4>1. /\ out' \in Seq(Printable) /\ Len(out') = Len(<<>>) + 1
            /\ (\E i \in 1 .. Len(out') : out'[i] = "-")
                 <=> "-" = "-" \/ \E i \in 1 .. Len(<<>>) : <<>>[i] = "-"
            /\ Reading(Base[dir.conv], out') =
                 IF "-" \in {Blank, "-"} THEN Reading(Base[dir.conv], <<>>)
                 ELSE Reading(Base[dir.conv], <<>>) * Base[dir.conv] + DigitOf("-")
        <5>1. Longer(Base[dir.conv], <<>>, "-", out')
          BY <1>3, <2>1, <3>1, PutChar
        <5>2. QED BY <5>1 DEF Longer
      <4>2. QED BY ONLY <4>1
    <3>3. Sign = 1 /\ Len(out') = 1
      BY <2>1, <2>3, <3>2 DEF Sign
    <3>4. QED BY <2>2, <2>3, <3>2, <3>3
  <2>4. CASE ~ (Value < 0)
    BY <1>4, <2>1, <2>2, <2>4 DEF Sign
  <2>5. QED BY <2>3, <2>4
<1>8. Types' /\ Waiting' /\ Argument' /\ Standing'
  <2>1. toPrint' \in Seq(0 .. 15)
    BY <1>1, <1>2
  <2>2. QED
    BY <2>1, <1>1, <1>2, <1>3, <1>4, <1>5, <1>6
    DEF Types, Waiting, Argument, Standing, Converting, Printing, Done
<1>9. Digits'
  <2>1. Len(toPrint') = 0 /\ 0 \in 0 .. LongLongBits
    BY <1>1, <1>2, Sizes
  <2>2. QED BY <2>1, <1>1, <1>3, <1>4, <1>5 DEF Digits
<1>10. Text' /\ Filling'
  BY <1>1, <1>4, <1>5, <1>7 DEF Text, Filling
<1>11. QED BY <1>8, <1>9, <1>10 DEF IInv

\* What holds while the digits are found and printed.
LEMMA PrintingFacts ==
  ASSUME IInv, Printing, UNCHANGED <<dir, arg>>
  PROVE  /\ dir \in Directives /\ dir.conv \in Numeric /\ arg \in BitPatterns(Bits)
         /\ Base[dir.conv] \in Radices /\ Base[dir.conv] \in Nat
         /\ Magnitude \in BitPatterns(LongLongBits) /\ Magnitude \in Nat
         /\ Quotient \in [0 .. LongLongBits -> Nat] /\ Quotient[0] = Magnitude
         /\ \A i \in 1 .. LongLongBits :
              Quotient[i] = Quotient[i - 1] \div Base[dir.conv]
         /\ toPrint \in Seq(0 .. 15) /\ Len(toPrint) \in 0 .. LongLongBits
         /\ Quotient' = Quotient /\ Magnitude' = Magnitude
         /\ Sign' = Sign /\ Field' = Field /\ (Value < 0)' = (Value < 0)
         /\ Bits' = Bits /\ Base[dir.conv]' = Base[dir.conv]
<1>1. /\ dir \in Directives /\ dir.conv \in Numeric /\ arg \in BitPatterns(Bits)
      /\ toPrint \in Seq(0 .. 15) /\ Len(toPrint) \in 0 .. LongLongBits
  BY DEF IInv, Types, Argument, Digits, Printing
<1>2. Base[dir.conv] \in Radices /\ Magnitude \in BitPatterns(LongLongBits)
  BY <1>1, Values
<1>3. Magnitude \in Nat /\ Base[dir.conv] \in Nat
  BY <1>2 DEF BitPatterns, Radices
<1>4. /\ Quotient \in [0 .. LongLongBits -> Nat] /\ Quotient[0] = Magnitude
      /\ \A i \in 1 .. LongLongBits :
           Quotient[i] = Quotient[i - 1] \div Base[dir.conv]
  BY <1>2, <1>3, QuotientsEquation DEF Quotient
<1>5. QED BY <1>1, <1>2, <1>3, <1>4, SameNumber

\* A division finds the next digit, or the last.
LEMMA DivideDigitIInv == IInv /\ DivideDigit => IInv'
<1> SUFFICES ASSUME IInv, DivideDigit PROVE IInv'
  OBVIOUS
<1> DEFINE b   == Base[dir.conv]
           len == Len(toPrint)
           q   == Quotient
<1>1. /\ vpc = "digits" /\ dir' = dir /\ arg' = arg /\ out' = out /\ n' = n
      /\ Printing /\ vpc' \in {"digits", "pad"} /\ Printing'
      /\ toPrint' = Append(toPrint, unsigned_num % b)
  BY DEF DivideDigit, Printing, Converting
<1>2. /\ dir \in Directives /\ dir.conv \in Numeric /\ arg \in BitPatterns(Bits)
      /\ b \in Radices /\ b \in Nat /\ Magnitude \in BitPatterns(LongLongBits)
      /\ Magnitude \in Nat
      /\ q \in [0 .. LongLongBits -> Nat] /\ q[0] = Magnitude
      /\ \A i \in 1 .. LongLongBits : q[i] = q[i - 1] \div b
      /\ toPrint \in Seq(0 .. 15)
  BY <1>1, PrintingFacts
<1>3. /\ Quotient' = q /\ Magnitude' = Magnitude
      /\ Sign' = Sign /\ Field' = Field /\ (Value < 0)' = (Value < 0)
      /\ Bits' = Bits /\ Base[dir.conv]' = b
  BY <1>1, PrintingFacts
<1>4. /\ len \in 0 .. LongLongBits /\ unsigned_num = q[len]
      /\ len = 0 \/ unsigned_num > 0
      /\ \A i \in 1 .. len : toPrint[i] = q[i - 1] % b
  BY <1>1 DEF IInv, Digits
<1>5. len + 1 \in 1 .. LongLongBits
  <2>1. CASE len = 0
    BY <2>1, Sizes
  <2>2. CASE len # 0
    <3>1. q = Quotients(b, Magnitude)
      BY DEF Quotient
    <3>2. q[len] # 0
      BY <1>2, <1>4, <2>2
    <3>3. 3 * len <= LongLongBits
      BY <1>2, <1>4, <3>1, <3>2, QuotientBound, Sizes
    <3>4. QED BY <1>4, <2>2, <3>3, Sizes
  <2>3. QED BY <2>1, <2>2
<1> HIDE DEF b, q
<1>6. unsigned_num \in Nat /\ unsigned_num % b \in 0 .. 15 /\ unsigned_num \div b \in Nat
  BY <1>2, <1>4, Division
<1>7. /\ toPrint' \in Seq(0 .. 15) /\ Len(toPrint') = len + 1
      /\ toPrint'[len + 1] = unsigned_num % b
      /\ \A i \in 1 .. len : toPrint'[i] = toPrint[i]
  BY <1>1, <1>2, <1>6, AppendProperties
<1>8. q[len + 1] = unsigned_num \div b
  <2>1. (len + 1) - 1 = len
    BY <1>4
  <2>2. QED BY <1>2, <1>4, <1>5, <2>1
<1>9. ASSUME NEW i \in 1 .. len + 1 PROVE toPrint'[i] = q[i - 1] % b
  <2>1. CASE i = len + 1
    BY <1>4, <1>7, <2>1
  <2>2. CASE i # len + 1
    <3>1. i \in 1 .. len
      BY <1>4, <2>2
    <3>2. QED BY <1>4, <1>7, <3>1
  <2>3. QED BY <2>1, <2>2
<1>10. IF vpc' = "digits"
       THEN unsigned_num' = q[len + 1] /\ unsigned_num' > 0
       ELSE vpc' = "pad" /\ q[len + 1] = 0 /\ unsigned_num' = unsigned_num
  <2>1. MoreDigits(unsigned_num) <=> unsigned_num \div b > 0
    BY DEF MoreDigits, b
  <2>2. CASE MoreDigits(unsigned_num)
    <3>1. vpc' = "digits" /\ unsigned_num' = unsigned_num \div b
      BY <1>1, <2>2 DEF DivideDigit, b
    <3>2. QED BY <1>8, <2>1, <2>2, <3>1
  <2>3. CASE ~ MoreDigits(unsigned_num)
    <3>1. vpc' = "pad" /\ unsigned_num' = unsigned_num
      BY <1>1, <2>3 DEF DivideDigit
    <3>2. unsigned_num \div b = 0
      BY <1>6, <2>1, <2>3
    <3>3. QED BY <1>8, <3>1, <3>2
  <2>4. QED BY <2>2, <2>3
<1>11. Types' /\ Waiting' /\ Argument' /\ Standing'
  <2>1. unsigned_num' \in Nat
    BY <1>2, <1>5, <1>6, <1>10
  <2>2. n' \in Nat
    BY <1>1 DEF IInv, Types
  <2>3. QED
    BY <2>1, <2>2, <1>1, <1>2, <1>3, <1>7
    DEF Types, Waiting, Argument, Standing, Done, Converting, Printing
<1>12. Digits'
  <2>1. (len + 1) - 1 = len /\ len + 1 >= 1 /\ len + 1 \in 0 .. LongLongBits
        /\ (len = 0 <=> len + 1 = 1) /\ len + 1 # 0
    BY <1>4, <1>5
  <2>2. vpc' # "digits" => len + 1 = 1 \/ q[(len + 1) - 1] > 0
    BY <1>4, <2>1
  <2> HIDE DEF len
  <2>3. QED BY <1>3, <1>7, <1>9, <1>10, <2>1, <2>2 DEF Digits
<1>13. Text' /\ Filling'
  <2>1. Text'
    BY <1>1, <1>3 DEF IInv, Text
  <2>2. Len(out) = Sign /\ n = Field
    BY <1>1 DEF IInv, Filling
  <2>3. Filling'
    BY <1>1, <1>3, <2>2 DEF Filling
  <2>4. QED BY <2>1, <2>3
<1>14. QED BY <1>11, <1>12, <1>13 DEF IInv

\* The padding takes the places the digits leave, and reads as nothing.
LEMMA PadIInv == IInv /\ Pad => IInv'
<1> SUFFICES ASSUME IInv, Pad PROVE IInv'
  OBVIOUS
<1> DEFINE b   == Base[dir.conv]
           len == Len(toPrint)
<1>1. /\ vpc = "pad" /\ dir' = dir /\ arg' = arg /\ toPrint' = toPrint
      /\ unsigned_num' = unsigned_num
      /\ Printing /\ vpc' \in {"pad", "emit"} /\ Printing'
  BY DEF Pad, Printing, Converting
<1>2. /\ dir \in Directives /\ dir.conv \in Numeric /\ arg \in BitPatterns(Bits)
      /\ b \in Nat /\ Quotient \in [0 .. LongLongBits -> Nat]
      /\ len \in 0 .. LongLongBits /\ len \in Nat
  BY <1>1, PrintingFacts
<1>3. /\ Quotient' = Quotient /\ Magnitude' = Magnitude
      /\ Sign' = Sign /\ Field' = Field /\ (Value < 0)' = (Value < 0)
      /\ Bits' = Bits /\ Base[dir.conv]' = b
  BY <1>1, PrintingFacts
<1>4. /\ n \in Nat /\ out \in Seq(Printable) /\ Reading(b, out) = 0
      /\ (\E i \in 1 .. Len(out) : out[i] = "-") <=> Value < 0
      /\ Len(out) + Larger(n, len) = Sign + Larger(Field, len)
      /\ len >= 1 /\ Quotient[len] = 0
  BY <1>1 DEF IInv, Types, Text, Filling, Digits
<1>5. Digits'
  BY <1>1, <1>3 DEF IInv, Digits
<1>6. CASE n > len
  <2>1. out' = Append(out, dir.lead) /\ n' = n - 1 /\ vpc' = "pad"
    BY <1>1, <1>6 DEF Pad, putc
  <2>2. dir.lead \in Printable /\ dir.lead # "-"
        /\ (dir.lead = Blank \/ DigitOf(dir.lead) = 0)
    BY <1>2, DirectiveType
  <2> HIDE DEF b, len
  <2>3. /\ out' \in Seq(Printable) /\ Len(out') = Len(out) + 1 /\ Len(out) \in Nat
        /\ (\E i \in 1 .. Len(out') : out'[i] = "-")
             <=> dir.lead = "-" \/ \E i \in 1 .. Len(out) : out[i] = "-"
        /\ Reading(b, out') = IF dir.lead \in {Blank, "-"} THEN Reading(b, out)
                              ELSE Reading(b, out) * b + DigitOf(dir.lead)
    <3>1. Longer(b, out, dir.lead, out')
      BY <1>2, <1>4, <2>1, <2>2, PutChar
    <3>2. QED BY <3>1 DEF Longer
  <2>4. Reading(b, out') = 0
    <3>1. 0 * b = 0
      BY <1>2
    <3>2. QED BY <1>4, <2>2, <2>3, <3>1
  <2>5. n' \in Nat /\ Len(out') + Larger(n', len) = Len(out) + Larger(n, len)
    <3>1. n' \in Nat /\ n' >= len
      BY <1>2, <1>4, <1>6, <2>1
    <3>2. Larger(n, len) = n /\ Larger(n', len) = n'
      BY <1>2, <1>4, <1>6, <3>1 DEF Larger
    <3>3. QED BY <1>4, <2>1, <2>3, <3>1, <3>2
  <2>6. (\E i \in 1 .. Len(out') : out'[i] = "-") <=> Value < 0
    BY <1>4, <2>2, <2>3
  <2> USE DEF b, len
  <2>7. Types' /\ Waiting' /\ Argument' /\ Standing'
    BY <1>1, <1>2, <1>3, <2>1, <2>5
    DEF IInv, Types, Waiting, Argument, Standing, Done, Converting, Printing
  <2>8. Text'
    BY <1>1, <1>3, <2>1, <2>3, <2>4, <2>6 DEF Text
  <2>9. Filling'
    BY <1>1, <1>3, <1>4, <2>1, <2>5 DEF Filling
  <2>10. QED BY <1>5, <2>7, <2>8, <2>9 DEF IInv
<1>7. CASE ~ (n > len)
  <2>1. n' = 0 /\ vpc' = "emit" /\ out' = out
    BY <1>1, <1>7 DEF Pad
  <2>2. Larger(n, len) = len
    BY <1>2, <1>4, <1>7 DEF Larger
  <2>3. Types' /\ Waiting' /\ Argument' /\ Standing'
    BY <1>1, <1>2, <1>3, <2>1
    DEF IInv, Types, Waiting, Argument, Standing, Done, Converting, Printing
  <2>4. Text'
    <3>1. len - 0 = len /\ 0 \in 0 .. len
      BY <1>2
    <3>2. QED BY <1>1, <1>3, <1>4, <2>1, <3>1 DEF Text
  <2>5. Filling'
    <3>1. Len(out) + len - 0 = Sign + Larger(Field, len)
      BY <1>2, <1>4, <2>2
    <3>2. QED BY <1>1, <1>3, <2>1, <3>1 DEF Filling
  <2>6. QED BY <1>5, <2>3, <2>4, <2>5 DEF IInv
<1>8. QED BY <1>6, <1>7

\* The digits are emitted from the last found to the first, and undo the
\* divisions one after the other.
LEMMA EmitIInv == IInv /\ Emit => IInv'
<1> SUFFICES ASSUME IInv, Emit PROVE IInv'
  OBVIOUS
<1> DEFINE b   == Base[dir.conv]
           len == Len(toPrint)
           q   == Quotient
<1>1. /\ vpc = "emit" /\ dir' = dir /\ arg' = arg /\ toPrint' = toPrint
      /\ unsigned_num' = unsigned_num
      /\ Printing /\ vpc' \in {"emit", "next"}
  BY DEF Emit, Printing, Converting
<1>2. /\ dir \in Directives /\ dir.conv \in Numeric /\ arg \in BitPatterns(Bits)
      /\ b \in Radices /\ b \in Nat
      /\ q \in [0 .. LongLongBits -> Nat] /\ q[0] = Magnitude
      /\ \A i \in 1 .. LongLongBits : q[i] = q[i - 1] \div b
      /\ toPrint \in Seq(0 .. 15) /\ len \in 0 .. LongLongBits /\ len \in Nat
  BY <1>1, PrintingFacts
<1>3. /\ Quotient' = q /\ Magnitude' = Magnitude
      /\ Sign' = Sign /\ Field' = Field /\ (Value < 0)' = (Value < 0)
      /\ Bits' = Bits /\ Base[dir.conv]' = b
  BY <1>1, PrintingFacts
<1>4. /\ n \in 0 .. len /\ out \in Seq(Printable) /\ Reading(b, out) = q[len - n]
      /\ (\E i \in 1 .. Len(out) : out[i] = "-") <=> Value < 0
      /\ Len(out) + len - n = Sign + Larger(Field, len)
      /\ \A i \in 1 .. len : toPrint[i] = q[i - 1] % b
  BY <1>1 DEF IInv, Text, Filling, Digits
<1>5. Printing' /\ dir.conv # "s"
  BY <1>1, <1>2, Conversions DEF Printing, Converting, Done
<1>6. Digits'
  BY <1>1, <1>3, <1>5 DEF IInv, Digits
<1> HIDE DEF b, q
<1>7. CASE n < len
  <2> DEFINE d == toPrint[len - n]
  <2>1. out' = Append(out, DigitChars[d + 1]) /\ n' = n + 1 /\ vpc' = "emit"
    BY <1>1, <1>7 DEF Emit, putc, EmittedAt
  <2>2. len - n \in 1 .. len /\ len - n \in 1 .. LongLongBits
        /\ len - (n + 1) = (len - n) - 1 /\ (len - n) - 1 \in 0 .. LongLongBits
        /\ n + 1 \in 0 .. len
    <3> HIDE DEF len
    <3>1. n \in Nat /\ len \in Nat /\ n + 1 <= len /\ len <= LongLongBits
          /\ LongLongBits \in Nat
      BY <1>2, <1>4, <1>7, Sizes
    <3>2. QED BY ONLY <3>1
  <2>3. d = q[(len - n) - 1] % b /\ q[len - n] = q[(len - n) - 1] \div b
        /\ q[(len - n) - 1] \in Nat /\ q[len - n] \in Nat
    <3> HIDE DEF len
    <3>1. len - n \in 0 .. LongLongBits
      BY <2>2
    <3>2. QED BY <1>2, <1>4, <2>2, <3>1
  <2>4. d \in 0 .. 15 /\ q[(len - n) - 1] = q[len - n] * b + d
    <3> HIDE DEF d
    <3>1. d \in 0 .. 15 /\ q[(len - n) - 1] = b * q[len - n] + d
      BY <1>2, <2>3, Division
    <3>2. b * q[len - n] = q[len - n] * b
      BY <1>2, <2>3
    <3>3. QED BY <3>1, <3>2
  <2> HIDE DEF d
  <2>5. /\ DigitChars[d + 1] \in Printable /\ DigitOf(DigitChars[d + 1]) = d
        /\ DigitChars[d + 1] \notin {Blank, "-"}
    BY <2>4, DigitOfChar DEF Printable
  <2>6. /\ out' \in Seq(Printable) /\ Len(out') = Len(out) + 1 /\ Len(out) \in Nat
        /\ (\E i \in 1 .. Len(out') : out'[i] = "-") <=> Value < 0
        /\ Reading(b, out') = Reading(b, out) * b + d
    <3> DEFINE c == DigitChars[d + 1]
    <3>1. c \in Printable /\ DigitOf(c) = d /\ c \notin {Blank, "-"} /\ out' = Append(out, c)
      BY <2>1, <2>5
    <3> HIDE DEF c, len
    <3>2. /\ out' \in Seq(Printable) /\ Len(out') = Len(out) + 1 /\ Len(out) \in Nat
          /\ (\E i \in 1 .. Len(out') : out'[i] = "-")
               <=> c = "-" \/ \E i \in 1 .. Len(out) : out[i] = "-"
          /\ Reading(b, out') = IF c \in {Blank, "-"} THEN Reading(b, out)
                                ELSE Reading(b, out) * b + DigitOf(c)
      <4>1. Longer(b, out, c, out')
        BY <1>2, <1>4, <3>1, PutChar
      <4>2. QED BY <4>1 DEF Longer
    <3>3. QED BY <1>4, <3>1, <3>2
  <2>7. Reading(b, out') = q[len - (n + 1)]
    BY <1>4, <2>2, <2>4, <2>6
  <2>8. Len(out') + len - (n + 1) = Len(out) + len - n
    BY <1>2, <1>4, <2>6
  <2>9. Types' /\ Waiting' /\ Argument' /\ Standing'
    BY <1>1, <1>2, <1>3, <1>5, <2>1, <2>2
    DEF IInv, Types, Waiting, Argument, Standing, Done, Converting, Printing
  <2>10. Text'
    BY <1>1, <1>3, <2>1, <2>2, <2>6, <2>7 DEF Text, b
  <2>11. Filling'
    BY <1>1, <1>3, <1>4, <2>1, <2>8 DEF Filling
  <2>12. QED BY <1>6, <2>9, <2>10, <2>11 DEF IInv
<1>8. CASE ~ (n < len)
  <2>1. n' = n /\ vpc' = "next" /\ out' = out
    BY <1>1, <1>8 DEF Emit
  <2>2. n = len /\ len - n = 0
    BY <1>2, <1>4, <1>8
  <2>3. Types' /\ Waiting' /\ Argument' /\ Standing'
    BY <1>1, <1>2, <1>3, <1>5, <2>1
    DEF IInv, Types, Waiting, Argument, Standing, Done, Converting, Printing
  <2>4. Text'
    BY <1>1, <1>2, <1>3, <1>4, <2>1, <2>2 DEF Text, b
  <2>5. Filling'
    <3>1. Len(out) = Sign + Larger(Field, len)
      BY <1>2, <1>4, <2>2
    <3>2. QED BY <1>1, <1>3, <2>1, <3>1 DEF Filling
  <2>6. QED BY <1>6, <2>3, <2>4, <2>5 DEF IInv
<1>9. QED BY <1>7, <1>8

-----------------------------------------------------------------------------
\* Every step keeps the invariant.
LEMMA NextIInv == IInv /\ [PrintNext]_printVars => IInv'
BY OtherStepsIInv, ConvertStringIInv, PrintNumIInv, DivideDigitIInv, PadIInv,
   EmitIInv, StutterIInv
DEF PrintNext, Convert

\* The invariant holds in every reachable state.
LEMMA Invariance == PrintSpec => []IInv
BY InitIInv, NextIInv, PTL DEF PrintSpec

\* printNum's digits fit its buffer, in any base and for words of any size:
\* three bits at least go with every digit (vprintk.c:161).
THEOREM DigitsFitBuffer == PrintSpec => []DigitsFit
<1>1. ASSUME IInv PROVE DigitsFit
  <2>1. LongLongBits \in Nat /\ BufferSize = ((LongLongBits + 2) \div 3) + 1
    BY Sizes DEF BufferSize
  <2>2. CASE ~ Printing
    <3>1. Len(toPrint) = 0
      BY <1>1, <2>2 DEF IInv, Waiting
    <3>2. QED BY <2>1, <3>1 DEF DigitsFit
  <2>3. CASE Printing
    <3> DEFINE b   == Base[dir.conv]
               len == Len(toPrint)
    <3>1. /\ dir \in Directives /\ dir.conv \in Numeric /\ arg \in BitPatterns(Bits)
          /\ len \in 0 .. LongLongBits
      BY <1>1, <2>3 DEF IInv, Types, Argument, Printing, Digits
    <3>2. b \in Radices /\ Magnitude \in BitPatterns(LongLongBits)
      BY <3>1, Values
    <3>3. len = 0 \/ len = 1 \/ \E i \in {len, len - 1} :
             i \in 0 .. LongLongBits /\ Quotient[i] > 0
      BY <1>1, <2>1, <2>3, <3>1 DEF IInv, Digits
    <3>4. ASSUME NEW i \in 0 .. LongLongBits, Quotient[i] > 0
          PROVE  3 * i <= LongLongBits
      BY <2>1, <3>2, <3>4, QuotientBound DEF Quotient
    <3>5. len <= BufferSize
      <4> HIDE DEF len
      <4>1. len = 0 \/ 3 * (len - 1) <= LongLongBits
        BY <2>1, <3>1, <3>3, <3>4
      <4>2. QED BY <2>1, <3>1, <4>1
    <3>6. QED BY <3>5 DEF DigitsFit
  <2>4. QED BY <2>2, <2>3
<1>2. QED BY <1>1, Invariance, PTL

\* What printNum prints reads back as the value of the argument, whatever the
\* sizes of the words and the width of the field (vprintk.c:126-184).
THEOREM ReadsBack == PrintSpec => []NumberReadsBack
<1>1. ASSUME IInv, Done(Numeric)
      PROVE  /\ Reading(Base[dir.conv], out) = Magnitude
             /\ ("-" \in Range(out)) = (Value < 0)
  <2>1. Printing /\ vpc = "next"
    BY <1>1 DEF Done, Printing, Converting
  <2>2. /\ out \in Seq(Printable) /\ Reading(Base[dir.conv], out) = Magnitude
        /\ (\E i \in 1 .. Len(out) : out[i] = "-") <=> Value < 0
    BY <1>1, <2>1 DEF IInv, Text
  <2>3. "-" \in Range(out) <=> \E i \in 1 .. Len(out) : out[i] = "-"
    BY <2>2 DEF Range
  <2>4. QED BY <2>2, <2>3
<1>2. IInv => NumberReadsBack
  BY <1>1 DEF NumberReadsBack
<1>3. QED BY <1>2, Invariance, PTL

\* A number or a string fills its field exactly, or is printed whole where it
\* is longer (vprintk.c:87-104, 164-184).
THEOREM FillsField == PrintSpec => []FieldFilled
<1>1. ASSUME IInv, Done(Numeric)
      PROVE  LET digits == CHOOSE k \in 1 .. LongLongBits :
                             /\ Magnitude < Powers(Base[dir.conv])[k]
                             /\ k = 1 \/ Magnitude >= Powers(Base[dir.conv])[k - 1]
                 sign   == IF Value < 0 THEN 1 ELSE 0
             IN  Len(out) = Max({dir.width, digits + sign})
  <2> DEFINE b   == Base[dir.conv]
             len == Len(toPrint)
             digits == CHOOSE k \in 1 .. LongLongBits :
                         /\ Magnitude < Powers(b)[k]
                         /\ k = 1 \/ Magnitude >= Powers(b)[k - 1]
  <2>1. Printing /\ vpc = "next"
    BY <1>1 DEF Done, Printing, Converting
  <2>2. /\ dir \in Directives /\ dir.conv \in Numeric /\ arg \in BitPatterns(Bits)
        /\ len \in 1 .. LongLongBits /\ Quotient[len] = 0
        /\ len = 1 \/ Quotient[len - 1] > 0
        /\ Len(out) = Sign + Larger(Field, len)
    BY <1>1, <2>1 DEF IInv, Types, Argument, Printing, Digits, Filling
  <2>3. b \in Radices /\ Magnitude \in Nat
    <3>1. b \in Radices /\ Magnitude \in BitPatterns(LongLongBits)
      BY <2>2, Values
    <3>2. QED BY <3>1 DEF BitPatterns
  <2>4. Counts(b, Magnitude, len)
    BY <2>2, <2>3, DigitsCounted DEF Quotient
  <2>5. digits = len
    <3>1. digits = CHOOSE k \in 1 .. LongLongBits : Counts(b, Magnitude, k)
      BY DEF Counts
    <3> HIDE DEF digits, len, b
    <3>2. digits \in 1 .. LongLongBits /\ Counts(b, Magnitude, digits)
      BY <2>2, <2>4, <3>1
    <3>3. QED BY <2>2, <2>3, <2>4, <3>2, CountedOnce
  <2>6. dir.width \in Nat
    BY <2>2, DirectiveType
  <2>7. Sign + Larger(Field, len) = Larger(dir.width, len + Sign)
    BY <2>2, <2>6 DEF Sign, Field, Larger, WidthAfterSign
  <2>8. Larger(dir.width, len + Sign) = Max({dir.width, len + Sign})
    BY <2>2, <2>6, LargerOf DEF Sign
  <2>9. Len(out) = Max({dir.width, digits + Sign})
    BY <2>2, <2>5, <2>7, <2>8
  <2>10. QED BY <2>9 DEF Sign
<1>2. ASSUME IInv, Done({"s"})
      PROVE  LET str == IF arg = NULL THEN <<>> ELSE arg
             IN  /\ Len(out) = Max({dir.width, Len(str)})
                 /\ IF dir.minus THEN IsPrefix(str, out) ELSE IsSuffix(str, out)
  BY <1>2 DEF IInv, Standing
<1>3. IInv => FieldFilled
  BY <1>1, <1>2 DEF FieldFilled
<1>4. QED BY <1>3, Invariance, PTL

\* How far a conversion has come, and how much its loop still has to do.
Phase ==
  IF vpc = "convert" THEN 0 ELSE IF vpc = "printNum" THEN 1
  ELSE IF vpc = "digits" THEN 2 ELSE IF vpc = "pad" THEN 3
  ELSE IF vpc = "emit" THEN 4 ELSE 5

Left ==
  IF vpc = "digits" THEN LongLongBits - Len(toPrint)
  ELSE IF vpc = "pad" THEN n ELSE Len(toPrint) - n

Advances ==
  Convert => \/ Phase' > Phase
             \/ Phase' = Phase /\ Left \in Nat /\ Left' \in Nat /\ Left' < Left

\* Each step of a conversion begins a later phase of it or leaves its loop less
\* to do, although one of the loops counts down and may start below its limit:
\* with fairness, why every conversion ends (vprintk.c:173-184).
THEOREM ConversionAdvances == PrintSpec => [][Advances]_printVars
<1>1. ASSUME IInv, IInv', Convert PROVE Advances
  <2>1. CASE ConvertChar \/ ConvertOther \/ ConvertString
    <3>1. vpc = "convert" /\ vpc' = "next"
      BY <2>1, Zenon DEF ConvertChar, ConvertOther, ConvertString, Converting
    <3>2. QED BY <3>1 DEF Advances, Phase
  <2>2. CASE ConvertNumber \/ PrintNum
    BY <2>2 DEF ConvertNumber, PrintNum, Advances, Phase
  <2>3. CASE DivideDigit
    <3>1. /\ vpc = "digits" /\ vpc' \in {"digits", "pad"}
          /\ toPrint' = Append(toPrint, unsigned_num % Base[dir.conv])
      BY <2>3 DEF DivideDigit
    <3>2. CASE vpc' = "pad"
      BY <3>1, <3>2 DEF Advances, Phase
    <3>3. CASE vpc' = "digits"
      <4>1. Printing /\ Printing'
        BY <3>1, <3>3 DEF Printing, Converting
      <4>2. Len(toPrint) \in 0 .. LongLongBits /\ Len(toPrint') \in 0 .. LongLongBits
        BY <1>1, <4>1 DEF IInv, Digits
      <4>3. Len(toPrint') = Len(toPrint) + 1
        BY <1>1, <3>1 DEF IInv, Types
      <4>4. Left = LongLongBits - Len(toPrint) /\ Left' = LongLongBits - Len(toPrint')
        BY <3>1, <3>3 DEF Left
      <4>5. Left \in Nat /\ Left' \in Nat /\ Left' < Left
        BY <4>2, <4>3, <4>4, Sizes
      <4>6. Phase' = Phase
        BY <3>1, <3>3 DEF Phase
      <4>7. QED BY <4>5, <4>6 DEF Advances
    <3>4. QED BY <3>1, <3>2, <3>3
  <2>4. CASE Pad
    <3>1. vpc = "pad" /\ vpc' \in {"pad", "emit"}
      BY <2>4 DEF Pad
    <3>2. CASE vpc' = "emit"
      BY <3>1, <3>2 DEF Advances, Phase
    <3>3. CASE vpc' = "pad"
      <4>1. n' = n - 1 /\ n \in Nat /\ n' \in Nat
        BY <1>1, <2>4, <3>3 DEF Pad, IInv, Types
      <4>2. Left = n /\ Left' = n' /\ Phase' = Phase
        BY <3>1, <3>3 DEF Left, Phase
      <4>3. QED BY <4>1, <4>2 DEF Advances
    <3>4. QED BY <3>1, <3>2, <3>3
  <2>5. CASE Emit
    <3>1. vpc = "emit" /\ vpc' \in {"emit", "next"} /\ toPrint' = toPrint
      BY <2>5 DEF Emit
    <3>2. CASE vpc' = "next"
      BY <3>1, <3>2 DEF Advances, Phase
    <3>3. CASE vpc' = "emit"
      <4>1. n' = n + 1 /\ n < Len(toPrint)
        BY <2>5, <3>3 DEF Emit
      <4>2. n \in Nat /\ Len(toPrint) \in Nat
        BY <1>1 DEF IInv, Types
      <4>3. Left = Len(toPrint) - n /\ Left' = Len(toPrint) - n' /\ Phase' = Phase
        BY <3>1, <3>3 DEF Left, Phase
      <4>4. Left \in Nat /\ Left' \in Nat /\ Left' < Left
        BY <4>1, <4>2, <4>3
      <4>5. QED BY <4>3, <4>4 DEF Advances
    <3>4. QED BY <3>1, <3>2, <3>3
  <2>6. QED BY <1>1, <2>1, <2>2, <2>3, <2>4, <2>5 DEF Convert
<1>2. IInv /\ IInv' /\ [PrintNext]_printVars => [Advances]_printVars
  BY <1>1 DEF Advances
<1>3. QED BY <1>2, Invariance, PTL DEF PrintSpec

-----------------------------------------------------------------------------
(* The UART.                                                                 *)

\* The bounds are numbers.
LEMMA UartSizes ==
  /\ FifoDepth \in Nat /\ FifoDepth >= 1
  /\ MaxIn \in Nat /\ MaxOut \in Nat /\ MaxWrite \in Nat /\ MaxRead \in Nat
  /\ WordSize \in Nat /\ WordSize >= 1 /\ MaxWrite < WordSize /\ MaxRead < WordSize
BY UartAssumption

\* A byte taken from the front of one sequence and put at the end of the one
\* before it leaves their concatenation as it was.
LEMMA MoveFront ==
  ASSUME NEW S, NEW s \in Seq(S), NEW t \in Seq(S), t # <<>>
  PROVE  /\ Head(t) \in S /\ Tail(t) \in Seq(S) /\ Len(Tail(t)) = Len(t) - 1
         /\ Append(s, Head(t)) \in Seq(S)
         /\ s \o t = Append(s, Head(t)) \o Tail(t)
<1>1. Head(t) \in S /\ Tail(t) \in Seq(S) /\ Len(Tail(t)) = Len(t) - 1
  BY HeadTailProperties
<1>2. t = <<Head(t)>> \o Tail(t)
  OBVIOUS
<1>3. s \o (<<Head(t)>> \o Tail(t)) = (s \o <<Head(t)>>) \o Tail(t)
  BY <1>1, ConcatAssociative
<1>4. Append(s, Head(t)) = s \o <<Head(t)>>
  BY <1>1, AppendIsConcat
<1>5. QED BY <1>1, <1>2, <1>3, <1>4

\* Appending to the last of two sequences appends to their concatenation.
LEMMA AppendLast ==
  ASSUME NEW S, NEW s \in Seq(S), NEW t \in Seq(S), NEW e \in S
  PROVE  /\ Append(t, e) \in Seq(S) /\ Len(Append(t, e)) = Len(t) + 1
         /\ s \o Append(t, e) = Append(s \o t, e)
<1>1. Append(t, e) = t \o <<e>> /\ Append(s \o t, e) = (s \o t) \o <<e>>
  BY AppendIsConcat, ConcatProperties
<1>2. s \o (t \o <<e>>) = (s \o t) \o <<e>>
  BY ConcatAssociative
<1>3. QED BY <1>1, <1>2, AppendProperties

-----------------------------------------------------------------------------
\* The invariant: the types and the two orders.  (SentInOrder is inductive with
\* the types: no step adds to the wire what was not first in line.)
UartIInv == TypeOK /\ SentInOrder /\ ReadInOrder

\* The shift register is a sequence too, and so is what it will add to the wire.
LEMMA ShifterSeq ==
  TypeOK => shifter \in Seq(Bytes) /\ wire \o shifter \in Seq(Bytes)
<1> SUFFICES ASSUME TypeOK PROVE shifter \in Seq(Bytes) /\ wire \o shifter \in Seq(Bytes)
  OBVIOUS
<1>1. shifter \in Seq(Bytes)
  <2>1. CASE shifter = <<>>
    BY <2>1
  <2>2. ASSUME NEW b \in Bytes, shifter = <<b>> PROVE shifter \in Seq(Bytes)
    BY <2>2
  <2>3. QED BY <2>1, <2>2 DEF TypeOK
<1>2. wire \in Seq(Bytes)
  BY DEF TypeOK
<1>3. QED BY <1>1, <1>2, ConcatProperties

\* The UART starts quiet.
LEMMA UartInitIInv == Init => UartIInv
<1> SUFFICES ASSUME Init PROVE UartIInv
  OBVIOUS
<1>1. <<>> \in Seq(Bytes) /\ Len(<<>>) = 0
  BY EmptySeq
<1>2. TypeOK
  <2>1. 0 \in Words /\ 0 \in 0 .. MaxIn /\ 0 <= FifoDepth
    BY UartSizes DEF Words
  <2>2. txfifo \in Seq(Bytes) /\ Len(txfifo) <= FifoDepth
        /\ rxfifo \in Seq(Bytes) /\ Len(rxfifo) <= FifoDepth
        /\ buf \in Seq(Bytes)
    BY <1>1, <2>1 DEF Init
  <2>3. written \in Seq(Bytes) /\ wire \in Seq(Bytes)
        /\ arrived \in Seq(Bytes) /\ got \in Seq(Bytes)
    BY <1>1 DEF Init
  <2>4. enabled \in BOOLEAN /\ shifter \in {<<>>} \cup {<<b>> : b \in Bytes}
    BY DEF Init
  <2>5. pc \in {"idle", "drain", "write", "read", "getc"}
        /\ nbytes \in Words /\ ret \in Int /\ offered \in 0 .. MaxIn
    BY <2>1 DEF Init
  <2>6. QED BY <2>2, <2>3, <2>4, <2>5 DEF TypeOK
<1>3. <<>> = <<>> \o <<>> \o <<>>
  OBVIOUS
<1>4. QED BY <1>2, <1>3 DEF Init, UartIInv, SentInOrder, ReadInOrder

\* Starting a byte moves it from the FIFO to the empty shift register.
LEMMA StartByteIInv == UartIInv /\ StartByte => UartIInv'
<1> SUFFICES ASSUME UartIInv, StartByte PROVE UartIInv'
  OBVIOUS
<1> USE DEF UartIInv, StartByte, driver
<1>1. Head(txfifo) \in Bytes /\ Tail(txfifo) \in Seq(Bytes)
      /\ Len(Tail(txfifo)) = Len(txfifo) - 1
      /\ wire \o txfifo = Append(wire, Head(txfifo)) \o Tail(txfifo)
  BY MoveFront DEF TypeOK
<1>2. wire \o shifter = wire /\ wire \o shifter' = Append(wire, Head(txfifo))
  BY <1>1, ConcatEmptySeq, AppendIsConcat DEF TypeOK
<1>3. SentInOrder'
  BY <1>1, <1>2 DEF SentInOrder
<1>4. TypeOK'
  BY <1>1, UartSizes DEF TypeOK
<1>5. QED BY <1>3, <1>4 DEF ReadInOrder

\* Finishing it moves it to the wire.
LEMMA FinishByteIInv == UartIInv /\ FinishByte => UartIInv'
<1> SUFFICES ASSUME UartIInv, FinishByte PROVE UartIInv'
  OBVIOUS
<1> USE DEF UartIInv, FinishByte, driver
<1>1. shifter \in Seq(Bytes) /\ wire' \in Seq(Bytes)
  BY ShifterSeq
<1>2. wire' \o shifter' = wire \o shifter
  BY <1>1, ConcatEmptySeq
<1>3. SentInOrder'
  BY <1>2 DEF SentInOrder
<1>4. TypeOK'
  BY <1>1 DEF TypeOK
<1>5. QED BY <1>3, <1>4 DEF ReadInOrder

\* A byte that arrives joins the end of the receive FIFO, or is lost.
LEMMA ReceiveIInv ==
  ASSUME NEW b \in Bytes, UartIInv, Receive(b) PROVE UartIInv'
<1> USE DEF UartIInv, Receive, driver
<1>1. rxfifo' \in Seq(Bytes) /\ arrived' \in Seq(Bytes)
      /\ Len(rxfifo') <= FifoDepth /\ arrived' = got \o rxfifo'
  <2>1. CASE Len(rxfifo) < FifoDepth
    <3>1. got \in Seq(Bytes) /\ rxfifo \in Seq(Bytes) /\ arrived \in Seq(Bytes)
      BY DEF TypeOK
    <3>2. Append(rxfifo, b) \in Seq(Bytes) /\ Len(Append(rxfifo, b)) = Len(rxfifo) + 1
          /\ got \o Append(rxfifo, b) = Append(got \o rxfifo, b)
      <4>1. got \in Seq(Bytes) /\ rxfifo \in Seq(Bytes) /\ b \in Bytes
        BY <3>1
      <4>2. QED BY ONLY <4>1, AppendLast, AppendProperties
    <3>3. Append(arrived, b) \in Seq(Bytes) /\ Len(rxfifo) \in Nat
      BY <3>1, AppendProperties, LenProperties
    <3>4. Len(rxfifo') <= FifoDepth
      BY <2>1, <3>2, <3>3, UartSizes
    <3>5. QED BY <2>1, <3>2, <3>3, <3>4 DEF ReadInOrder
  <2>2. CASE ~(Len(rxfifo) < FifoDepth)
    BY <2>2 DEF TypeOK, ReadInOrder
  <2>3. QED BY <2>1, <2>2
<1>2. offered' \in 0 .. MaxIn
  BY UartSizes DEF TypeOK
<1>3. TypeOK'
  BY <1>1, <1>2 DEF TypeOK
<1>4. QED BY <1>1, <1>3 DEF SentInOrder, ReadInOrder

\* uart_putc adds to the end of what is to be sent.
LEMMA PutcSafe ==
  ASSUME NEW b \in Bytes, UartIInv, Putc(b)
  PROVE  /\ txfifo' \in Seq(Bytes) /\ Len(txfifo') <= FifoDepth
         /\ written' \in Seq(Bytes)
         /\ SentInOrder'
<1> USE DEF UartIInv, Putc
<1>1. wire \o shifter \in Seq(Bytes) /\ txfifo \in Seq(Bytes)
      /\ written \in Seq(Bytes)
  BY ShifterSeq DEF TypeOK
<1>2. txfifo' \in Seq(Bytes) /\ Len(txfifo') = Len(txfifo) + 1
      /\ written' \in Seq(Bytes)
      /\ wire \o shifter \o txfifo' = Append(wire \o shifter \o txfifo, b)
  BY <1>1, AppendLast, AppendProperties
<1>3. Len(txfifo') <= FifoDepth
  BY <1>2, LenProperties, UartSizes DEF TypeOK, FR_TXFF
<1>4. QED BY <1>2, <1>3 DEF SentInOrder

\* uart_getc takes from the front of what was received.
LEMMA GetcSafe ==
  ASSUME UartIInv, Getc
  PROVE  /\ rxfifo' \in Seq(Bytes) /\ Len(rxfifo') <= FifoDepth
         /\ got' \in Seq(Bytes)
         /\ ReadInOrder'
<1> USE DEF UartIInv, Getc
<1>1. Tail(rxfifo) \in Seq(Bytes) /\ Len(Tail(rxfifo)) = Len(rxfifo) - 1
      /\ got' \in Seq(Bytes) /\ got \o rxfifo = got' \o Tail(rxfifo)
  <2>1. rxfifo \in Seq(Bytes) /\ rxfifo # <<>> /\ got \in Seq(Bytes)
        /\ got' = Append(got, Head(rxfifo))
    BY DEF TypeOK, FR_RXFE
  <2>2. QED BY ONLY <2>1, MoveFront
<1>2. Len(Tail(rxfifo)) <= FifoDepth
  BY <1>1, LenProperties, UartSizes DEF TypeOK
<1>3. QED BY <1>1, <1>2 DEF ReadInOrder

-----------------------------------------------------------------------------
\* The driver's steps that touch no FIFO.
LEMMA UartOtherStepsIInv ==
  ASSUME UartIInv,
         \/ InitDisable \/ InitConfigure \/ WriteDone \/ ReadTest
         \/ \E s \in Buffers : WriteStart(s)
         \/ \E k \in 0 .. MaxRead : ReadStart(k)
         \/ UNCHANGED vars
  PROVE  UartIInv'
<1> USE UartSizes DEF UartIInv, SentInOrder, ReadInOrder, hardware, driver
<1>1. CASE InitDisable
  BY <1>1 DEF InitDisable, TypeOK
<1>2. CASE InitConfigure
  BY <1>2 DEF InitConfigure, TypeOK
<1>3. CASE WriteDone
  <2>1. nbytes \in Int
    BY DEF TypeOK, Words
  <2>2. QED BY <1>3, <2>1 DEF WriteDone, TypeOK
<1>4. CASE ReadTest
  <2>1. Decremented \in Words
    <3>1. nbytes \in 0 .. WordSize - 1 /\ WordSize \in Nat
      BY DEF TypeOK, Words
    <3>2. QED BY ONLY <3>1 DEF Words, Decremented
  <2>2. AsRetCode(Decremented) \in Int
    <3>1. Decremented \in Int /\ WordSize \in Int
      BY <2>1 DEF Words
    <3>2. QED BY ONLY <3>1 DEF AsRetCode
  <2>3. QED BY <1>4, <2>1, <2>2 DEF ReadTest, TypeOK
<1>5. ASSUME NEW s \in Buffers, WriteStart(s) PROVE UartIInv'
  <2>1. PICK k \in 0 .. MaxWrite : s \in [1 .. k -> Bytes]
    BY DEF Buffers
  <2>2. s \in Seq(Bytes) /\ Len(s) = k
    BY <2>1
  <2>3. k \in Words
    BY DEF Words
  <2>4. QED BY <1>5, <2>2, <2>3 DEF WriteStart, TypeOK
<1>6. ASSUME NEW k \in 0 .. MaxRead, ReadStart(k) PROVE UartIInv'
  <2>1. k \in Words
    BY DEF Words
  <2>2. QED BY <1>6, <2>1 DEF ReadStart, TypeOK
<1>7. CASE UNCHANGED vars
  BY <1>7 DEF vars, TypeOK
<1>8. QED BY <1>1, <1>2, <1>3, <1>4, <1>5, <1>6, <1>7

\* Every step of the driver and of the hardware keeps the invariant.
LEMMA UartNextIInv == UartIInv /\ [Next]_(vars) => UartIInv'
<1> SUFFICES ASSUME UartIInv, [Next]_(vars) PROVE UartIInv'
  OBVIOUS
<1>1. CASE WriteByte
  <2>1. Head(buf) \in Bytes /\ Tail(buf) \in Seq(Bytes)
    BY <1>1, HeadTailProperties DEF UartIInv, TypeOK, WriteByte
  <2>2. Putc(Head(buf))
    BY <1>1 DEF WriteByte
  <2>3. /\ txfifo' \in Seq(Bytes) /\ Len(txfifo') <= FifoDepth
        /\ written' \in Seq(Bytes) /\ SentInOrder'
    BY <2>1, <2>2, PutcSafe
  <2>4. QED
    BY <1>1, <2>1, <2>2, <2>3 DEF WriteByte, Putc, UartIInv, TypeOK, ReadInOrder
<1>2. CASE ReadByte
  <2>1. Getc
    BY <1>2 DEF ReadByte
  <2>2. QED
    BY <1>2, <2>1, GetcSafe DEF ReadByte, Getc, UartIInv, TypeOK, SentInOrder
<1>3. CASE StartByte \/ FinishByte
  BY <1>3, StartByteIInv, FinishByteIInv
<1>4. ASSUME NEW b \in Bytes, Receive(b) PROVE UartIInv'
  BY <1>4, ReceiveIInv
<1>5. CASE \/ InitDisable \/ InitConfigure \/ WriteDone \/ ReadTest
           \/ \E s \in Buffers : WriteStart(s)
           \/ \E k \in 0 .. MaxRead : ReadStart(k)
           \/ UNCHANGED vars
  BY <1>5, UartOtherStepsIInv
<1>6. QED BY <1>1, <1>2, <1>3, <1>4, <1>5 DEF Next, Transmit, DriverStep

\* The invariant holds in every reachable state.
LEMMA UartInvariance == Spec => []UartIInv
BY UartInitIInv, UartNextIInv, PTL DEF Spec

-----------------------------------------------------------------------------
\* The driver and the hardware keep their types, the FIFOs their depth.
THEOREM UartTypeCorrect == Spec => []TypeOK
BY UartInvariance, PTL DEF UartIInv

\* What uart_write stored leaves on the wire complete and in order.
THEOREM SendsInOrder == Spec => []SentInOrder
BY UartInvariance, PTL DEF UartIInv

\* What was received reaches uart_read's callers complete and in order.
THEOREM ReadsInOrder == Spec => []ReadInOrder
BY UartInvariance, PTL DEF UartIInv
=============================================================================

----------------------------- MODULE BootProofs -----------------------------
(* Proof that the BSS is cleared exactly, and that the walk leaves in each   *)
(* variable what the last tag of its kind says, for every size of the BSS,   *)
(* every place of the variables in it and every well-formed list.            *)
EXTENDS Boot, Memory, WellFoundedInduction, SequenceTheorems, TLAPS

\* The tags the walk has passed, of a kind, and the value of a field they leave.
Passed(kind) ==
  {a \in DOMAIN list : r2 = Start /\ list[a].tag = kind /\ (atag # NULL => a < atag)}
Latest(S) == CHOOSE a \in S : \A b \in S : b <= a
Leaves(kind, field) ==
  IF Passed(kind) = {} THEN 0 ELSE list[Latest(Passed(kind))][field]

Taken ==
  /\ bss[Where.mem_total] = Leaves("MEM", "size")
  /\ bss[Where.initrd_start] = Leaves("INITRD2", "start")
  /\ bss[Where.initrd_size] = Leaves("INITRD2", "size")
  /\ (bss[Where.model_name] = NULL) <=> (Passed("CMDLINE") = {})

\* The model, if one was found, was found in the last command line passed.
Backed ==
  /\ Passed("CMDLINE") # {} => Leaves("CMDLINE", "line") \in Strings
  /\ bss[Where.model] # RPI =>
       /\ Passed("CMDLINE") # {}
       /\ bss[Where.model] \in ModelOf(Leaves("CMDLINE", "line"))

Others == Variables \ {"atags"}

IInv ==
  /\ r2 \in {NULL, Start}
  /\ r4 \in 0 .. BssEnd /\ r4 % 4 = 0
  /\ DOMAIN bss = 0 .. BssEnd + 3
  /\ list \in Lists
  /\ pc \in {"clear", "store", "main", "walk", "done"}
  /\ \A a \in DOMAIN bss : a >= BssEnd => bss[a] = Garbage
  /\ pc = "clear" => \A a \in 0 .. r4 - 1 : bss[a] = 0
  /\ pc = "store" => \A a \in 0 .. BssEnd - 1 : bss[a] = 0
  /\ pc = "main" => /\ bss[Where.atags] = r2
                    /\ \A v \in Others : bss[Where[v]] = 0
  /\ pc = "walk" => /\ atag \in DOMAIN list \cup {NULL}
                    /\ atag # NULL => r2 = Start
                    /\ Taken /\ Backed
  /\ pc = "done" => atag = NULL /\ Taken /\ Backed

-----------------------------------------------------------------------------
\* The first tag has none before it, and a list that is there is not NULL.
LEMMA StartIsFirst ==
  ASSUME list \in Lists
  PROVE  /\ Start \in DOMAIN list /\ Start # NULL /\ NULL \notin DOMAIN list
         /\ \A a \in DOMAIN list : a \in Nat /\ Start <= a
BY BootAssumption DEF WellFormed, NULL

\* next goes over one tag and leaves none out (atags.c:69-75).
LEMMA NextPasses ==
  ASSUME IInv, WalkTag, NEW kind
  PROVE  /\ Passed(kind)' = IF list[atag].tag = kind THEN Passed(kind) \cup {atag}
                                                     ELSE Passed(kind)
         /\ \A b \in Passed(kind) : b \in Nat /\ b < atag
         /\ atag' \in DOMAIN list \cup {NULL}
         /\ atag \in Nat
<1>1. /\ atag \in DOMAIN list /\ atag # NULL /\ r2 = Start /\ list \in Lists
      /\ atag' = NextTag(atag)
      /\ UNCHANGED <<r2, list>>
  BY DEF IInv, WalkTag
<1>2. \A a \in DOMAIN list : a \in Nat /\ a # NULL
  BY <1>1, StartIsFirst
<1>3. \A b \in Passed(kind) : b \in Nat /\ b < atag
  BY <1>1, <1>2 DEF Passed
<1>4. CASE list[atag].tag = "NONE"
  <2>1. atag' = NULL
    BY <1>1, <1>4 DEF NextTag
  <2>2. \A b \in DOMAIN list : b <= atag
    BY <1>1, <1>4, BootAssumption DEF WellFormed
  <2>3. \A b \in DOMAIN list : b < atag \/ b = atag
    BY <1>1, <1>2, <2>2
  <2>4. Passed(kind)' = {a \in DOMAIN list : list[a].tag = kind}
    BY <1>1, <2>1 DEF Passed
  <2>5. Passed(kind) = {a \in DOMAIN list : list[a].tag = kind /\ a < atag}
    BY <1>1 DEF Passed
  <2> QED
    BY <1>1, <1>2, <1>3, <2>1, <2>3, <2>4, <2>5
<1>5. CASE list[atag].tag # "NONE"
  <2> DEFINE n == atag + list[atag].tag_size
  <2>1. atag' = n /\ n \in DOMAIN list /\ list[atag].tag_size \in Nat \ {0}
    BY <1>1, <1>5, BootAssumption DEF WellFormed, NextTag
  <2>2. \A b \in DOMAIN list : b <= atag \/ n <= b
    BY <1>1, <1>5, BootAssumption DEF WellFormed
  <2>3. n # NULL /\ n \in Nat /\ atag \in Nat /\ atag < n
    BY <1>1, <1>2, <2>1
  <2> HIDE DEF n
  <2>4. \A b \in DOMAIN list : (b < n) <=> (b < atag \/ b = atag)
    BY <1>2, <2>2, <2>3
  <2>5. Passed(kind)' = {a \in DOMAIN list : list[a].tag = kind /\ a < n}
    BY <1>1, <2>1, <2>3 DEF Passed
  <2>6. Passed(kind) = {a \in DOMAIN list : list[a].tag = kind /\ a < atag}
    BY <1>1 DEF Passed
  <2> QED
    BY <1>1, <1>2, <1>3, <2>1, <2>3, <2>4, <2>5, <2>6
<1> QED
  BY <1>4, <1>5

\* So a tag of a kind is the last of it that was passed, and another changes
\* nothing.
LEMMA NextLeaves ==
  ASSUME IInv, WalkTag, NEW kind, NEW field
  PROVE  Leaves(kind, field)' =
           IF list[atag].tag = kind THEN list[atag][field] ELSE Leaves(kind, field)
<1>1. UNCHANGED list
  BY DEF WalkTag
<1>2. CASE list[atag].tag = kind
  <2>1. Passed(kind)' = Passed(kind) \cup {atag} /\ atag \in Nat
        /\ \A b \in Passed(kind) : b \in Nat /\ b < atag
    BY <1>2, NextPasses
  <2>2. \A b \in Passed(kind)' : b <= atag
    BY <2>1
  <2>3. \A a \in Passed(kind)' : (\A b \in Passed(kind)' : b <= a) => a = atag
    BY <2>1
  <2>4. Latest(Passed(kind)') = atag
    BY <2>1, <2>2, <2>3 DEF Latest
  <2>5. Passed(kind)' # {}
    BY <2>1
  <2> QED
    BY <1>1, <1>2, <2>4, <2>5 DEF Leaves
<1>3. CASE list[atag].tag # kind
  <2>1. Passed(kind)' = Passed(kind)
    BY <1>3, NextPasses
  <2> QED
    BY <1>1, <1>3, <2>1 DEF Leaves
<1> QED
  BY <1>2, <1>3
-----------------------------------------------------------------------------
\* A store of the walk is in the BSS and leaves the other variables alone.
LEMMA TakeStores ==
  ASSUME IInv, WalkTag
  PROVE  /\ DOMAIN bss' = DOMAIN bss
         /\ \A a \in DOMAIN bss : a >= BssEnd => bss'[a] = bss[a]
<1> DEFINE t == list[atag]
<1>1. Take(t)
  BY DEF WalkTag
<1>2. \A v \in Variables : Where[v] \in 0 .. BssEnd - 1
  BY BootAssumption
<1>3. BssEnd \in Nat /\ DOMAIN bss = 0 .. BssEnd + 3
  BY BootAssumption DEF IInv
<1> HIDE DEF t
<1> QED
  BY <1>1, <1>2, <1>3, SMTT(30) DEF Take, Variables

\* What it stores is what the tag says.
LEMMA TakeTakes ==
  ASSUME IInv, WalkTag, Taken
  PROVE  Taken'
<1> DEFINE t == list[atag]
<1>1. Take(t)
  BY DEF WalkTag
<1>2. \A v \in Variables : Where[v] \in DOMAIN bss
  BY BootAssumption DEF IInv
<1>3. \A v, w \in Variables : Where[v] = Where[w] => v = w
  BY BootAssumption
<1>4. /\ bss'[Where.mem_total] = IF t.tag = "MEM" THEN t.size ELSE bss[Where.mem_total]
      /\ bss'[Where.initrd_start] =
           IF t.tag = "INITRD2" THEN t.start ELSE bss[Where.initrd_start]
      /\ bss'[Where.initrd_size] =
           IF t.tag = "INITRD2" THEN t.size ELSE bss[Where.initrd_size]
  <2> HIDE DEF t
  <2> QED
    BY <1>1, <1>2, <1>3 DEF Take, Variables
<1>5. (bss'[Where.model_name] = NULL) <=>
        (t.tag # "CMDLINE" /\ bss[Where.model_name] = NULL)
  <2> HIDE DEF t
  <2>1. \A m \in ModelOf(t.line) : m + 1 # NULL
    BY DEF ModelOf, RPI, RPI_B_PLUS, RPI_2, NULL
  <2> QED
    BY <1>1, <1>2, <1>3, <2>1 DEF Take, Variables
<1>6. /\ Leaves("MEM", "size")' = IF t.tag = "MEM" THEN t.size ELSE Leaves("MEM", "size")
      /\ Leaves("INITRD2", "start")' =
           IF t.tag = "INITRD2" THEN t.start ELSE Leaves("INITRD2", "start")
      /\ Leaves("INITRD2", "size")' =
           IF t.tag = "INITRD2" THEN t.size ELSE Leaves("INITRD2", "size")
  BY NextLeaves
<1>7. (Passed("CMDLINE") = {})' <=> (t.tag # "CMDLINE" /\ Passed("CMDLINE") = {})
  BY NextPasses
<1> HIDE DEF t
<1> QED
  BY <1>4, <1>5, <1>6, <1>7 DEF Taken

\* And the model it stores is one found in the line of the tag.
LEMMA TakeBacks ==
  ASSUME IInv, WalkTag, Backed
  PROVE  Backed'
<1> DEFINE t == list[atag]
<1>1. Take(t)
  BY DEF WalkTag
<1>2. \A v \in Variables : Where[v] \in DOMAIN bss
  BY BootAssumption DEF IInv
<1>3. \A v, w \in Variables : Where[v] = Where[w] => v = w
  BY BootAssumption
<1>4. /\ Passed("CMDLINE")' = IF t.tag = "CMDLINE" THEN Passed("CMDLINE") \cup {atag}
                                                  ELSE Passed("CMDLINE")
      /\ Leaves("CMDLINE", "line")' =
           IF t.tag = "CMDLINE" THEN t.line ELSE Leaves("CMDLINE", "line")
  BY NextPasses, NextLeaves
<1>5. CASE t.tag = "CMDLINE"
  <2>1. t.line \in Strings
    BY <1>5, BootAssumption DEF IInv, WalkTag, WellFormed
  <2>2. PICK m \in ModelOf(t.line) :
          bss' = [bss EXCEPT ![Where.model] = m, ![Where.model_name] = m + 1]
    BY <1>1, <1>5 DEF Take
  <2>3. bss'[Where.model] = m
    BY <1>2, <1>3, <2>2 DEF Variables
  <2>4. Passed("CMDLINE")' # {} /\ Leaves("CMDLINE", "line")' = t.line
    BY <1>4, <1>5
  <2> HIDE DEF t
  <2> QED
    BY <2>1, <2>2, <2>3, <2>4 DEF Backed
<1>6. CASE t.tag # "CMDLINE"
  <2>1. bss'[Where.model] = bss[Where.model]
    <3> HIDE DEF t
    <3> QED
      BY <1>1, <1>2, <1>3, <1>6 DEF Take, Variables
  <2>2. UNCHANGED <<Passed("CMDLINE"), Leaves("CMDLINE", "line")>>
    BY <1>4, <1>6
  <2> QED
    BY <2>1, <2>2 DEF Backed
<1> QED
  BY <1>5, <1>6

LEMMA StepInv == IInv /\ [Next]_vars => IInv'
<1> SUFFICES ASSUME IInv, [Next]_vars
             PROVE  IInv'
  OBVIOUS
<1> USE BootAssumption
<1>0. /\ \A v \in Variables : Where[v] \in 0 .. BssEnd - 1
      /\ \A v, w \in Variables : Where[v] = Where[w] => v = w
  OBVIOUS
<1>1. CASE ClearFour
  <2>1. /\ pc = "clear" /\ r4 < BssEnd /\ r4' = r4 + 4
        /\ bss' = [a \in DOMAIN bss |-> IF a \in r4 .. r4 + 3 THEN 0 ELSE bss[a]]
        /\ UNCHANGED <<r2, list, pc, atag>>
    BY <1>1 DEF ClearFour, BelowEnd
  <2>2. r4 + 4 <= BssEnd /\ (r4 + 4) % 4 = 0
    BY <2>1 DEF IInv
  <2> QED
    BY <2>1, <2>2 DEF IInv
<1>2. CASE ClearDone
  <2>1. r4 = BssEnd
    BY <1>2 DEF ClearDone, BelowEnd, IInv
  <2> QED
    BY <1>2, <2>1 DEF ClearDone, IInv
<1>3. CASE StoreAtags
  <2>1. \A v \in Others : Where[v] # Where.atags /\ Where[v] \in 0 .. BssEnd - 1
    BY <1>0 DEF Variables, Others
  <2>2. Where.atags \in 0 .. BssEnd - 1
    BY <1>0 DEF Variables
  <2>3. /\ pc = "store" /\ pc' = "main" /\ DOMAIN bss' = DOMAIN bss
        /\ bss'[Where.atags] = r2
        /\ \A a \in DOMAIN bss : a # Where.atags => bss'[a] = bss[a]
        /\ UNCHANGED <<r2, r4, list, atag>>
    BY <1>3, <2>2 DEF StoreAtags, IInv
  <2> QED
    BY <2>1, <2>2, <2>3 DEF IInv
<1>4. CASE ResumeAtags
  <2>1. /\ pc = "main" /\ pc' = "walk" /\ atag' = r2
        /\ UNCHANGED <<r2, r4, bss, list>>
    BY <1>4 DEF ResumeAtags, IInv
  <2>2. /\ list \in Lists /\ Start \in DOMAIN list /\ Start # NULL
        /\ \A a \in DOMAIN list : a \in Nat /\ Start <= a
    BY StartIsFirst DEF IInv
  <2>3. \A kind : Passed(kind)' = {}
    BY <2>1, <2>2 DEF Passed, IInv
  <2>4. \A v \in Others : bss'[Where[v]] = 0
    BY <2>1 DEF IInv
  <2>5. Taken' /\ Backed'
    BY <2>3, <2>4 DEF Taken, Backed, Leaves, Others, Variables, NULL, RPI
  <2> QED
    BY <2>1, <2>2, <2>5 DEF IInv
<1>5. CASE WalkTag
  <2>1. /\ pc = "walk" /\ UNCHANGED <<r2, r4, list, pc>> /\ r2 = Start
        /\ Taken /\ Backed
    BY <1>5 DEF WalkTag, IInv
  <2>2. atag' \in DOMAIN list \cup {NULL}
    BY <1>5, NextPasses
  <2>3. Taken' /\ Backed'
    BY <1>5, <2>1, TakeTakes, TakeBacks
  <2> QED
    BY <1>5, <2>1, <2>2, <2>3, TakeStores DEF IInv
<1>6. CASE WalkDone
  <2>1. Taken' = Taken /\ Backed' = Backed
    BY <1>6 DEF WalkDone, Taken, Backed, Leaves, Passed
  <2> QED
    BY <1>6, <2>1 DEF WalkDone, IInv
<1>7. CASE UNCHANGED vars
  <2>1. Taken' = Taken /\ Backed' = Backed
    BY <1>7 DEF vars, Taken, Backed, Leaves, Passed
  <2> QED
    BY <1>7, <2>1 DEF vars, IInv
<1> QED
  BY <1>1, <1>2, <1>3, <1>4, <1>5, <1>6, <1>7 DEF Next

LEMMA InvariantHolds == Spec => []IInv
<1>1. Init => IInv
  BY BootAssumption DEF Init, IInv
<1> QED
  BY <1>1, StepInv, PTL DEF Spec

\* The BSS is cleared to its end, and memory after it is left alone
\* (boot.s:28-33, kernel.ld's alignment).
THEOREM BssCleared == Spec => []ClearsBss
<1>1. IInv => ClearsBss
  BY DEF IInv, ClearsBss
<1> QED
  BY <1>1, InvariantHolds, PTL

\* After the walk each variable holds what the last tag of its kind says, or 0:
\* the list pointer survived the clearing and no tag was passed over
\* (boot.s:38, atags.c:69-122).
THEOREM TagsRight == Spec => []TagsTaken
<1>1. IInv => TagsTaken
  <2> SUFFICES ASSUME IInv, pc = "done"
               PROVE  TagsTaken
    BY DEF TagsTaken
  <2>1. \A kind : Passed(kind) = TagsOf(kind)
    BY DEF IInv, Passed, TagsOf
  <2>2. \A kind : LastTag(kind) = list[Latest(TagsOf(kind))]
    BY DEF LastTag, Latest
  <2>3. \A kind, field : Leaves(kind, field) = Says(kind, field)
    BY <2>1, <2>2 DEF Leaves, Says
  <2> QED
    BY <2>1, <2>3 DEF IInv, Taken, TagsTaken
<1> QED
  BY <1>1, InvariantHolds, PTL

-----------------------------------------------------------------------------
\* A non-empty set of natural numbers has a least element.
LEMMA LeastOf ==
  ASSUME NEW S \in SUBSET Nat, S # {}
  PROVE  \E x \in S : \A y \in S : x <= y
<1>1. \E x \in S : \A y \in S : ~ (<<y, x>> \in OpToRel(<, Nat))
  BY NatLessThanWellFounded, WFMin
<1>2. ASSUME NEW x \in S, NEW y \in S, ~ (<<y, x>> \in OpToRel(<, Nat))
      PROVE  x <= y
  <2>1. <<y, x>> \in Nat \X Nat /\ <<y, x>>[1] = y /\ <<y, x>>[2] = x
    OBVIOUS
  <2>2. ~ (y < x)
    BY <1>2, <2>1 DEF OpToRel
  <2> QED
    BY <2>2
<1> QED
  BY <1>1, <1>2

\* A turn that goes on inside the token found its character in the string.
LEMMA GoesOnFinds ==
  ASSUME NEW s \in Strings, NEW t \in Strings, NEW p \in Nat, NEW k \in Nat,
         k < Len(t), GoesOn(s, p, t, k)
  PROVE  p + 2 * k + 2 \in DOMAIN s /\ s[p + 2 * k + 2] = t[k + 1]
<1>1. Len(s) \in Nat /\ DOMAIN s = 1 .. Len(s) /\ Len(t) \in Nat
  BY DEF Strings
<1>2. t[k + 1] # NUL
  <2>1. k + 1 \in 1 .. Len(t)
    BY <1>1
  <2> QED
    BY <2>1 DEF Strings
<1>3. Char(t, k) = t[k + 1]
  BY DEF Char
<1>4. Char(s, p + 2 * k + 1) = t[k + 1]
  BY <1>3 DEF GoesOn
<1>5. p + 2 * k + 1 < Len(s) /\ s[p + 2 * k + 1 + 1] = t[k + 1]
  BY <1>2, <1>4 DEF Char
<1> QED
  BY <1>1, <1>5

\* If find may answer that the token is there, every turn of its inner loop but
\* the last went on, from some place of the string.
LEMMA ClaimsGoOn ==
  ASSUME NEW s \in Strings, NEW t \in Strings, NEW p \in Nat, TRUE \in Claims(s, p, t)
  PROVE  \A k \in Nat : k < Len(t) - 1 => GoesOn(s, p, t, k)
<1> DEFINE Stops == {k \in 0 .. Len(t) : ~GoesOn(s, p, t, k)}
           last  == CHOOSE k \in Stops : \A j \in Stops : k <= j
           q     == IF Char(s, p + 2 * last) = NUL THEN last ELSE last + 1
<1>1. Len(t) \in Nat
  BY DEF Strings
<1>2. CASE Stops = {}
  BY <1>1, <1>2
<1>3. CASE Stops # {}
  <2>1. last \in Stops /\ \A j \in Stops : last <= j
    <3>1. Stops \in SUBSET Nat
      OBVIOUS
    <3> HIDE DEF Stops
    <3> QED
      BY <1>3, <3>1, LeastOf
  <2>2. last \in Nat /\ last <= Len(t)
    BY <1>1, <2>1
  <2> HIDE DEF last
  <2>3. q > Len(t) \/ q = Len(t)
    BY <1>3 DEF Claims, last
  <2>4. last >= Len(t) - 1
    BY <1>1, <2>2, <2>3
  <2>5. ASSUME NEW k \in Nat, k < Len(t) - 1 PROVE GoesOn(s, p, t, k)
    <3>1. k \in 0 .. Len(t) /\ ~ (last <= k)
      BY <1>1, <2>2, <2>4, <2>5
    <3> QED
      BY <2>1, <3>1
  <2> QED
    BY <2>5
<1> QED
  BY <1>2, <1>3

\* So the token's characters but the last are in the string, in order.
LEMMA FindBacked ==
  ASSUME NEW s \in Strings, NEW t \in Strings, TRUE \in find(s, t)
  PROVE  Within(ButLast(t), s)
<1>1. Len(s) \in Nat /\ Len(t) \in Nat
  BY DEF Strings
<1>2. PICK p \in 1 .. Len(s) : TRUE \in Claims(s, p, t)
  BY DEF find
<1>3. p \in Nat
  BY <1>1
<1>4. \A k \in Nat : k < Len(t) - 1 => GoesOn(s, p, t, k)
  BY <1>2, <1>3, ClaimsGoOn
<1> DEFINE u  == ButLast(t)
           at == [k \in DOMAIN u |-> p + 2 * k]
<1>5. \A k \in DOMAIN u : k \in Nat /\ k - 1 \in Nat /\ k - 1 < Len(t) - 1 /\ u[k] = t[k]
  <2>1. DOMAIN u = 1 .. Len(t) - 1 /\ \A k \in 1 .. Len(t) - 1 : u[k] = t[k]
    BY <1>1 DEF ButLast, Strings
  <2> QED
    BY <1>1, <2>1
<1> HIDE DEF u
<1>6. ASSUME NEW k \in DOMAIN u
      PROVE  at[k] \in DOMAIN s /\ s[at[k]] = u[k]
  <2>1. k \in Nat /\ k - 1 \in Nat /\ k - 1 < Len(t) /\ u[k] = t[k]
        /\ GoesOn(s, p, t, k - 1)
    BY <1>1, <1>4, <1>5
  <2>2. /\ p + 2 * (k - 1) + 2 \in DOMAIN s
        /\ s[p + 2 * (k - 1) + 2] = t[(k - 1) + 1]
    BY <1>3, <2>1, GoesOnFinds
  <2>3. p + 2 * (k - 1) + 2 = p + 2 * k /\ (k - 1) + 1 = k
    BY <1>3, <2>1
  <2> QED
    BY <2>1, <2>2, <2>3
<1>7. at \in [DOMAIN u -> DOMAIN s]
  BY <1>6
<1>8. \A j, k \in DOMAIN u : j < k => at[j] < at[k]
  BY <1>3, <1>5
<1> HIDE DEF at
<1>9. Within(u, s)
  BY <1>6, <1>7, <1>8 DEF Within
<1> QED
  BY <1>9 DEF u

\* Another model than the first is only reported if the command line has the
\* token's characters in order, except perhaps the last (atags.c:58-61).
THEOREM ModelRight == Spec => []ModelBacked
<1>1. IInv => ModelBacked
  <2> SUFFICES ASSUME IInv, pc = "done", bss[Where.model] # RPI
               PROVE  Within(ButLast(Token[bss[Where.model]]), LastTag("CMDLINE").line)
    BY DEF ModelBacked
  <2> DEFINE s == LastTag("CMDLINE").line
             m == bss[Where.model]
  <2>1. Passed("CMDLINE") # {} /\ Backed
    BY DEF IInv, Backed
  <2>2. Passed("CMDLINE") = TagsOf("CMDLINE")
    BY DEF IInv, Passed, TagsOf
  <2>3. Leaves("CMDLINE", "line") = s
    BY <2>1, <2>2 DEF Leaves, LastTag, Latest
  <2>4. s \in Strings /\ m \in ModelOf(s)
    BY <2>1, <2>3 DEF Backed
  <2> HIDE DEF s
  <2>5. CASE m = RPI_B_PLUS
    <3>1. TRUE \in find(s, BPlus)
      BY <2>4, <2>5, Zenon DEF ModelOf
    <3>2. Token[m] = BPlus
      BY <2>5 DEF Token, RPI_B_PLUS
    <3> QED
      BY <2>4, <3>1, <3>2, FindBacked, BootAssumption DEF s
  <2>6. CASE m = RPI_2
    <3>1. (m = RPI_2) \in find(s, Two) /\ Token[m] = Two
      BY <2>4, <2>6 DEF ModelOf, Token, RPI_B_PLUS, RPI_2
    <3>2. TRUE \in find(s, Two)
      BY <2>6, <3>1
    <3> QED
      BY <2>4, <3>1, <3>2, FindBacked, BootAssumption DEF s
  <2> QED
    BY <2>4, <2>5, <2>6 DEF ModelOf
<1> QED
  BY <1>1, InvariantHolds, PTL

-----------------------------------------------------------------------------
(* Memory: what the translation and the palette compute, for every word.     *)

\* An address keeps its place in a page, and gets the page of the descriptor.
LEMMA PageWord ==
  ASSUME NEW d \in Words, NEW v \in Words,
         NEW size \in {4096, 65536, 1048576}
  PROVE  /\ InPage(d, size, v) \in Words
         /\ InPage(d, size, v) % size = v % size
         /\ InPage(d, size, v) \div size = d \div size
         /\ v % 256 = 0 => InPage(d, size, v) % 256 = 0
<1>1. CASE size = 4096    BY <1>1, SMT DEF InPage, Aligned, Words
<1>2. CASE size = 65536   BY <1>2, SMT DEF InPage, Aligned, Words
<1>3. CASE size = 1048576 BY <1>3, SMT DEF InPage, Aligned, Words
<1> QED BY <1>1, <1>2, <1>3

\* Both entries of an address are words of memory.
LEMMA EntriesAreWords ==
  ASSUME NEW m \in [Words -> Words], NEW v \in Words
  PROVE  Descriptor(m, v) \in Words /\ Coarse(m, v) \in Words
<1>1. pagetable + 4 * (v \div MB) \in Words
  BY SMT DEF pagetable, VIRTUAL_ADDRESS_BASE, MB, Words
<1>2. Descriptor(m, v) \in Words
  BY <1>1 DEF Descriptor
<1>3. ASSUME NEW d \in Words
      PROVE  Wrapped(VIRTUAL_ADDRESS_BASE + Aligned(d, KB))
               + 4 * ((v \div (4 * KB)) % 256) \in Words
  BY SMT DEF Wrapped, VIRTUAL_ADDRESS_BASE, Aligned, KB, Words
<1> QED BY <1>1, <1>2, <1>3 DEF Coarse

\* The size of the page that the entries of an address map it in, and the entry
\* that says where; by the architecture, not by the code.
PageSize(m, v) ==
  LET d == Descriptor(m, v)
  IN  IF d % 4 = 1 THEN IF Coarse(m, v) % 4 = 1 THEN 64 * KB ELSE 4 * KB
                   ELSE IF Bit(d, 262144) THEN 16 * MB ELSE MB

Entry(m, v) == IF Descriptor(m, v) % 4 = 1 THEN Coarse(m, v) ELSE Descriptor(m, v)

Mapped(m, v) == \/ Descriptor(m, v) % 4 = 1 /\ Coarse(m, v) % 4 # 0
             \/ Descriptor(m, v) % 4 = 2

\* mem_v2p: a mapped address keeps its place in its page, and the page is the
\* entry's (memory.c:57-98) - for a supersection on condition that the four bits
\* below its base, which extend the address in the architecture, are clear.
THEOREM Translates ==
  ASSUME NEW m \in [Words -> Words], NEW v \in Words, Mapped(m, v),
         PageSize(m, v) = 16 * MB => (Entry(m, v) \div MB) % 16 = 0
  PROVE  /\ mem_v2p(m, v) \in Words
         /\ mem_v2p(m, v) % PageSize(m, v) = v % PageSize(m, v)
         /\ mem_v2p(m, v) \div PageSize(m, v) = Entry(m, v) \div PageSize(m, v)
<1> DEFINE d == Descriptor(m, v)
           c == Coarse(m, v)
<1>1. d \in Words /\ c \in Words
  BY EntriesAreWords
<1>2. CASE d % 4 = 1 /\ c % 4 = 1
  <2>1. mem_v2p(m, v) = InPage(c, 65536, v) /\ PageSize(m, v) = 65536 /\ Entry(m, v) = c
    BY <1>1, <1>2, SMT DEF mem_v2p, PageSize, Entry, KB
  <2> QED BY <1>1, <2>1, PageWord
<1>3. CASE d % 4 = 1 /\ c % 4 > 1
  <2>1. mem_v2p(m, v) = InPage(c, 4096, v) /\ PageSize(m, v) = 4096 /\ Entry(m, v) = c
    BY <1>1, <1>3, SMT DEF mem_v2p, PageSize, Entry, KB
  <2> QED BY <1>1, <2>1, PageWord
<1>4. CASE d % 4 = 2 /\ ~Bit(d, 262144)
  <2>1. mem_v2p(m, v) = InPage(d, 1048576, v) /\ PageSize(m, v) = 1048576 /\ Entry(m, v) = d
    BY <1>1, <1>4, SMT DEF mem_v2p, PageSize, Entry, MB
  <2> QED BY <1>1, <2>1, PageWord
<1>5. CASE d % 4 = 2 /\ Bit(d, 262144)
  <2>1. /\ mem_v2p(m, v) = Wrapped(Aligned(d, 1048576) + (v % 16777216))
        /\ PageSize(m, v) = 16777216 /\ Entry(m, v) = d
    BY <1>1, <1>5, SMT DEF mem_v2p, PageSize, Entry, MB
  <2>2. (d \div 1048576) % 16 = 0
    BY <2>1, SMT DEF MB
  <2> DEFINE n == Aligned(d, 1048576) + (v % 16777216)
  <2>3. /\ n \in Nat /\ n < 4294967296
        /\ n % 16777216 = v % 16777216
        /\ n \div 16777216 = d \div 16777216
    BY <1>1, <2>2, SMT DEF Aligned, Words
  <2>4. mem_v2p(m, v) = n
    BY <2>1, <2>3, SMT DEF Wrapped
  <2> HIDE DEF n
  <2> QED BY <2>1, <2>3, <2>4 DEF Words
<1>6. (c % 4 # 0) => (c % 4 = 1 \/ c % 4 > 1)
  BY <1>1, SMT DEF Words
<1> QED BY <1>2, <1>3, <1>4, <1>5, <1>6 DEF Mapped

\* If one of those bits is set, no address of the supersection keeps its place
\* (memory.c:84-91, the base of a section taken for a supersection's).
THEOREM SupersectionStrays ==
  ASSUME NEW m \in [Words -> Words], NEW v \in Words, Descriptor(m, v) % 4 = 2, PageSize(m, v) = 16 * MB,
         (Entry(m, v) \div MB) % 16 # 0
  PROVE  mem_v2p(m, v) % PageSize(m, v) # v % PageSize(m, v)
<1> DEFINE d == Descriptor(m, v)
<1>1. d \in Words
  BY EntriesAreWords
<1>2. Bit(d, 262144) /\ Entry(m, v) = d
  BY <1>1, SMT DEF PageSize, Entry, MB
<1>3. mem_v2p(m, v) = Wrapped(Aligned(d, 1048576) + (v % 16777216))
  BY <1>1, <1>2, SMT DEF mem_v2p, MB
<1>4. (d \div 1048576) % 16 # 0 /\ PageSize(m, v) = 16777216
  BY <1>2, SMT DEF MB
<1> QED BY <1>1, <1>3, <1>4, SMT DEF Wrapped, Aligned, Words

\* The alignment of an address survives its translation.
LEMMA KeepsAlignment ==
  ASSUME NEW m \in [Words -> Words], NEW v \in Words, v % 256 = 0
  PROVE  mem_v2p(m, v) = NotMapped \/ mem_v2p(m, v) % 256 = 0
<1> DEFINE d == Descriptor(m, v)
           c == Coarse(m, v)
<1>1. d \in Words /\ c \in Words
  BY EntriesAreWords
<1>2. /\ InPage(c, 65536, v) % 256 = 0
      /\ InPage(c, 4096, v) % 256 = 0
      /\ InPage(d, 1048576, v) % 256 = 0
  BY <1>1, PageWord
<1>3. Wrapped(Aligned(d, 1048576) + (v % 16777216)) % 256 = 0
  BY <1>1, SMT DEF Wrapped, Aligned, Words
<1>4. 64 * KB = 65536 /\ 4 * KB = 4096 /\ MB = 1048576 /\ 16 * MB = 16777216
  BY SMT DEF KB, MB
<1>5. CASE d % 4 = 1
  BY <1>1, <1>2, <1>4, <1>5, SMT DEF mem_v2p, Words
<1>6. CASE d % 4 = 2
  BY <1>1, <1>2, <1>3, <1>4, <1>6, SMT DEF mem_v2p, Words
<1>7. CASE d % 4 # 1 /\ d % 4 # 2
  BY <1>1, <1>7, SMT DEF mem_v2p
<1> QED BY <1>5, <1>6, <1>7

\* init_memory: the base that the MMU is given is on the 256 bytes that a table
\* of 64 descriptors needs, whatever the boot loader's table maps it to, unless
\* it maps it to nothing: the failure is not looked at (memory.c:29-35).
THEOREM BaseAligned ==
  ASSUME memory \in [Words -> Words], Table0 \in Words, Table0 % 256 = 0, init_memory
  PROVE  ttbr0' = NotMapped \/ ttbr0' % 256 = 0
<1>1. memory' \in [Words -> Words]
  BY SMT DEF init_memory, Words
<1>2. ttbr0' = mem_v2p(memory', Table0)
  BY DEF init_memory
<1> QED BY <1>1, <1>2, KeepsAlignment

\* The five, six and five bits of a colour are the high bits of its components
\* and do not run into each other (palette.c:11-13).
THEOREM PaletteFields ==
  ASSUME NEW rgb \in Words
  PROVE  /\ rgb_565(rgb) \in Nat /\ rgb_565(rgb) < 65536
         /\ rgb_565(rgb) \div 2048 = ((rgb \div 65536) % 256) \div 8
         /\ (rgb_565(rgb) \div 32) % 64 = ((rgb \div 256) % 256) \div 4
         /\ rgb_565(rgb) % 32 = (rgb % 256) \div 8
<1> DEFINE R == (rgb \div 65536) % 256
           G == (rgb \div 256) % 256
           B == rgb % 256
<1>1. /\ R \in Nat /\ R < 256
      /\ G \in Nat /\ G < 256
      /\ B \in Nat /\ B < 256
  BY SMT DEF Words
<1>2. rgb_565(rgb) = Aligned(R, 8) * 256 + Aligned(G, 4) * 8 + B \div 8
  BY DEF rgb_565
<1> HIDE DEF R, G, B
<1>3. Aligned(R, 8) = 8 * (R \div 8) /\ Aligned(G, 4) = 4 * (G \div 4)
  BY <1>1, SMT DEF Aligned
<1>4. /\ R \div 8 \in Nat /\ R \div 8 < 32
      /\ G \div 4 \in Nat /\ G \div 4 < 64
      /\ B \div 8 \in Nat /\ B \div 8 < 32
  BY <1>1, SMT
<1> DEFINE r == R \div 8
           g == G \div 4
           b == B \div 8
<1>5. rgb_565(rgb) = r * 2048 + g * 32 + b
  BY <1>2, <1>3, <1>4, SMT
<1> HIDE DEF r, g, b
<1>6. /\ rgb_565(rgb) \in Nat /\ rgb_565(rgb) < 65536
      /\ rgb_565(rgb) \div 2048 = r
      /\ (rgb_565(rgb) \div 32) % 64 = g
      /\ rgb_565(rgb) % 32 = b
  <2>1. /\ r \in Nat /\ r < 32
        /\ g \in Nat /\ g < 64
        /\ b \in Nat /\ b < 32
    BY <1>4 DEF r, g, b
  <2> QED BY <1>5, <2>1, SMT
<1> QED BY <1>6 DEF R, G, B, r, g, b
=============================================================================

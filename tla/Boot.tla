-------------------------------- MODULE Boot --------------------------------
(* From reset to the end of resume_atags: _start of src/src/init/boot.s      *)
(* clears the BSS and keeps the boot loader's r2 in one of its words;        *)
(* resume_atags of src/src/init/atags.c walks the tag list it points to and  *)
(* stores what it finds in other words of the BSS.                           *)
(*                                                                           *)
(* Addresses count words.  The boot loader (external) left the list; its     *)
(* memory is known at the addresses where a tag begins.  A command line is a *)
(* sequence of characters, then its NUL; what follows a NUL may be anything. *)
EXTENDS Integers, Sequences

CONSTANTS
  BssEnd,       \* words of the BSS, which begins at 0 here
  Where,        \* variable of atags.c -> its word of the BSS
  Garbage,      \* what memory holds at reset
  Start,        \* where the boot loader puts a list (0x100), not NULL
  Lists,        \* what it may put there: address -> tag
  BPlus, Two    \* the tokens of the two other models

Variables == {"atags", "mem_total", "initrd_start", "initrd_size", "model",
              "model_name"}

\* A NUL ends a string.
NUL     == 0
Strings == Seq(Nat \ {NUL})

\* Tag follows tag, and the last is NONE.
WellFormed(l) ==
  /\ DOMAIN l \subseteq Nat /\ Start \in DOMAIN l
  /\ \A a \in DOMAIN l :
       /\ Start <= a
       /\ l[a].tag = "CMDLINE" => l[a].line \in Strings
       /\ l[a].tag = "NONE" => \A b \in DOMAIN l : b <= a
       /\ l[a].tag # "NONE" =>
            /\ l[a].tag_size \in Nat \ {0}
            /\ a + l[a].tag_size \in DOMAIN l
            /\ \A b \in DOMAIN l : b <= a \/ a + l[a].tag_size <= b

\* kernel.ld aligns both ends of the BSS to a page.
ASSUME BootAssumption ==
  /\ BssEnd \in Nat /\ BssEnd % 4 = 0
  /\ \A v \in Variables : Where[v] \in 0 .. BssEnd - 1
  /\ \A v, w \in Variables : Where[v] = Where[w] => v = w
  /\ Start \in Nat \ {0}
  /\ \A l \in Lists : WellFormed(l)
  /\ BPlus \in Strings /\ Two \in Strings

VARIABLES
  r2, r4,       \* registers of _start
  bss,          \* the BSS and the four words after it
  list,         \* the tags
  pc,           \* "clear", "store", "main", "walk" or "done"
  atag          \* of resume_atags

vars == <<r2, r4, bss, list, pc, atag>>

NULL == 0

\* enum Model; a model_name is RPI's, or another one's, plus one.
RPI == 0
RPI_B_PLUS == 1
RPI_2 == 2

\* Without a list the boot loader leaves r2 0.
Init ==
  /\ r2 \in {NULL, Start} /\ r4 = 0
  /\ bss = [a \in 0 .. BssEnd + 3 |-> Garbage]
  /\ list \in Lists
  /\ pc = "clear"
  /\ atag = NULL

-----------------------------------------------------------------------------
\* boot.s

\* Mutant: the loop also runs when r4 is at the end.
BelowOrAtEnd == r4 <= BssEnd

BelowEnd == r4 < BssEnd

\* stmia r4!, {r5-r8}
ClearFour ==
  /\ pc = "clear" /\ BelowEnd
  /\ bss' = [a \in DOMAIN bss |-> IF a \in r4 .. r4 + 3 THEN 0 ELSE bss[a]]
  /\ r4' = r4 + 4
  /\ UNCHANGED <<r2, list, pc, atag>>

ClearDone ==
  /\ pc = "clear" /\ ~BelowEnd
  /\ pc' = "store"
  /\ UNCHANGED <<r2, r4, bss, list, atag>>

StoreAtags ==
  /\ pc = "store"
  /\ bss' = [bss EXCEPT ![Where.atags] = r2]
  /\ pc' = "main"
  /\ UNCHANGED <<r2, r4, list, atag>>

-----------------------------------------------------------------------------
\* atags.c

\* Character k of a string, from 0, if it is in it.
Char(s, k) == IF k < Len(s) THEN s[k + 1] ELSE NUL

\* Turn k of the inner loop of find compares, and goes on: it skips a character
\* of the string for each one that it compares.
GoesOn(s, p, token, k) ==
  Char(s, p + 2 * k) # NUL /\ Char(s, p + 2 * k + 1) = Char(token, k)

\* Mutant: the loop compares nothing.
ClaimsSkipping(s, p, token) == {Char(s, p) # NUL}

\* What `*q == 0' may be after the inner loop from p: it stops at the first turn
\* that does not go on, and q has passed the character compared there, unless it
\* was the end of the string that stopped it.  Past the token's NUL is anything.
Claims(s, p, token) ==
  LET Stops == {k \in 0 .. Len(token) : ~GoesOn(s, p, token, k)}
      last  == CHOOSE k \in Stops : \A j \in Stops : k <= j
      q     == IF Char(s, p + 2 * last) = NUL THEN last ELSE last + 1
  IN  IF Stops = {} \/ q > Len(token) THEN BOOLEAN ELSE {q = Len(token)}

\* Whether find finds the token, the first time at 1, the last at the NUL.
find(s, token) ==
  {found \in BOOLEAN :
     IF found THEN \E p \in 1 .. Len(s) : TRUE \in Claims(s, p, token)
              ELSE \A p \in 1 .. Len(s) : FALSE \in Claims(s, p, token)}

ModelOf(s) ==
  {m \in {RPI, RPI_B_PLUS, RPI_2} :
     IF m = RPI_B_PLUS THEN TRUE \in find(s, BPlus)
     ELSE FALSE \in find(s, BPlus) /\ (m = RPI_2) \in find(s, Two)}

\* Mutant: the last tag is not looked for.
NextTagEndless(a) == a + list[a].tag_size

\* next
NextTag(a) == IF list[a].tag = "NONE" THEN NULL ELSE a + list[a].tag_size

ResumeAtags ==
  /\ pc = "main"
  /\ atag' = bss[Where.atags]
  /\ pc' = "walk"
  /\ UNCHANGED <<r2, r4, bss, list>>

\* Mutant: MEM without its break.
TakeFallsThrough(t) ==
  \/ /\ t.tag \in {"MEM", "INITRD2"}
     /\ bss' = [bss EXCEPT ![Where.mem_total] = IF t.tag = "MEM" THEN t.size ELSE @,
                           ![Where.initrd_start] = t.start,
                           ![Where.initrd_size] = t.size]
  \/ t.tag \notin {"MEM", "INITRD2"} /\ UNCHANGED bss

\* The switch.
Take(t) ==
  \/ t.tag = "MEM" /\ bss' = [bss EXCEPT ![Where.mem_total] = t.size]
  \/ t.tag = "INITRD2" /\ bss' = [bss EXCEPT ![Where.initrd_start] = t.start,
                                             ![Where.initrd_size] = t.size]
  \/ t.tag = "CMDLINE" /\ \E m \in ModelOf(t.line) :
                            bss' = [bss EXCEPT ![Where.model] = m,
                                               ![Where.model_name] = m + 1]
  \/ t.tag \notin {"MEM", "INITRD2", "CMDLINE"} /\ UNCHANGED bss

WalkTag ==
  /\ pc = "walk" /\ atag # NULL
  /\ Take(list[atag])
  /\ atag' = NextTag(atag)
  /\ UNCHANGED <<r2, r4, list, pc>>

WalkDone ==
  /\ pc = "walk" /\ atag = NULL
  /\ pc' = "done"
  /\ UNCHANGED <<r2, r4, bss, list, atag>>

-----------------------------------------------------------------------------
Next == \/ ClearFour \/ ClearDone \/ StoreAtags
        \/ ResumeAtags \/ WalkTag \/ WalkDone

\* Nothing else runs yet.
Spec == Init /\ [][Next]_vars /\ WF_vars(Next)

-----------------------------------------------------------------------------
\* The BSS is cleared to its end, and memory after it is left alone
\* (boot.s:28-33, kernel.ld's alignment).
ClearsBss ==
  /\ \A a \in DOMAIN bss : a >= BssEnd => bss[a] = Garbage
  /\ pc = "store" => \A a \in 0 .. BssEnd - 1 : bss[a] = 0

\* The tags of a kind, and what the last of them says of a field; 0 if there is
\* none, or no list.
TagsOf(kind) == {a \in DOMAIN list : r2 = Start /\ list[a].tag = kind}
LastTag(kind) == list[CHOOSE a \in TagsOf(kind) : \A b \in TagsOf(kind) : b <= a]
Says(kind, field) == IF TagsOf(kind) = {} THEN 0 ELSE LastTag(kind)[field]

\* After the walk each variable holds what the last tag of its kind says, or 0:
\* the list survived the clearing, no tag was passed over, and none leaves its
\* data in another's variable (boot.s:38, atags.c:69-124).
TagsTaken ==
  pc = "done" =>
    /\ bss[Where.mem_total] = Says("MEM", "size")
    /\ bss[Where.initrd_start] = Says("INITRD2", "start")
    /\ bss[Where.initrd_size] = Says("INITRD2", "size")
    /\ (bss[Where.model_name] = NULL) <=> (TagsOf("CMDLINE") = {})

\* The characters of t in order, others between them.
Within(t, s) ==
  \E at \in [DOMAIN t -> DOMAIN s] :
    /\ \A k \in DOMAIN t : s[at[k]] = t[k]
    /\ \A j, k \in DOMAIN t : j < k => at[j] < at[k]

ButLast(t) == SubSeq(t, 1, Len(t) - 1)
Token == <<BPlus, Two>>

\* Another model than the first is only reported if the command line has the
\* token's characters in order, except perhaps the last (atags.c:58-61).
ModelBacked ==
  (pc = "done" /\ bss[Where.model] # RPI) =>
    Within(ButLast(Token[bss[Where.model]]), LastTag("CMDLINE").line)

\* resume_atags returns (atags.c:83, 74).
WalkEnds == <>(pc = "done")

\* "end of string and nothing found" (atags.c:65), and a model the less: a token
\* that is in the command line is found.
FindsToken ==
  (pc = "done" /\ TagsOf("CMDLINE") # {}) =>
    LET line == LastTag("CMDLINE").line
    IN  (\E k \in 0 .. Len(line) - Len(BPlus) :
           SubSeq(line, k + 1, k + Len(BPlus)) = BPlus)
        => bss[Where.model] = RPI_B_PLUS
=============================================================================

------------------------------- MODULE MCBoot -------------------------------
(* Boot with tag lists of up to two tags between the first and the last, and *)
(* every command line of up to 6 characters out of three, with those of 7 to *)
(* 9 on which the search passes a whole token of 3, and then its NUL.        *)
EXTENDS Boot, SequencesExt

MCWhere == [atags |-> 1, mem_total |-> 2, initrd_start |-> 3, initrd_size |-> 4,
            model |-> 6, model_name |-> 7]
MCBPlus == <<1, 2, 1>>
MCTwo   == <<1, 3, 1>>

Core    == [tag |-> "CORE", tag_size |-> 5]
NoneTag == [tag |-> "NONE", tag_size |-> 0]
Mem(n)  == [tag |-> "MEM", tag_size |-> 4, size |-> n, start |-> 3]
Initrd2 == [tag |-> "INITRD2", tag_size |-> 4, size |-> 4, start |-> 5]
CmdLine(s) == [tag |-> "CMDLINE", tag_size |-> 3 + (Len(s) \div 4), line |-> s]

Long  == {SubSeq(<<2, 2, 1, 3, t[2], 2, 1, 2, 2>>, 1, n) :
            t \in {MCBPlus, MCTwo}, n \in 7 .. 9}
Lines == BoundedSeq({1, 2, 3}, 6) \cup Long

Plain == {Mem(1), Mem(2), Initrd2}
Between ==
  {<<>>} \cup {<<a>> : a \in Plain} \cup {<<a, b>> : a, b \in Plain}
  \cup {<<CmdLine(s)>> : s \in Lines}
  \cup UNION {{<<CmdLine(s), a>>, <<a, CmdLine(s)>>} :
                s \in {<<>>, <<2>>, <<3, 1, 2, 1>>} \cup Long, a \in Plain}
  \cup {<<CmdLine(s), CmdLine(<<>>)>> : s \in Long}

Laid(tags) ==
  LET At[k \in 1 .. Len(tags)] ==
        IF k = 1 THEN Start ELSE At[k - 1] + tags[k - 1].tag_size
  IN  [a \in {At[k] : k \in DOMAIN tags} |-> tags[CHOOSE k \in DOMAIN tags : At[k] = a]]

MCLists == {Laid(<<Core>> \o b \o <<NoneTag>>) : b \in Between}
=============================================================================

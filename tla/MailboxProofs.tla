--------------------------- MODULE MailboxProofs ---------------------------
(* Proof that a read of the mailbox loses no word of its channel, and that   *)
(* one that gives up does not answer with such a word, for FIFOs of any      *)
(* depth, any time-out and any number of requests and posts.                 *)
EXTENDS Mailbox, SequenceTheorems, TLAPS

Reading == pc \in {"poll", "pop"}
Writing == pc \in {"status", "store"}

\* A call knows what it is for: a read has so far only seen words of other
\* channels, and goes to the read register only for a word that is there.
CallInv ==
  /\ Reading => /\ channel \in ReadChannels
                /\ count <= READ_MAILBOX_TIMEOUT + 1
                /\ data = Invalid \/ data.chan # channel
  /\ pc = "pop" => mailbox0 # <<>>
  /\ Writing => data \in Words

\* What every step of the ARM and of the VideoCore keeps.
IInv == TypeOK /\ CallInv

\* The bounds are numbers.
LEMMA Sizes ==
  /\ Depth \in Nat /\ Depth >= 1
  /\ READ_MAILBOX_TIMEOUT \in Nat /\ MaxRequests \in Nat /\ MaxPosts \in Nat
  /\ ReadChannels \subseteq Channels /\ Invalid \notin Words
BY MailboxAssumption

-----------------------------------------------------------------------------
\* A word pushed makes a FIFO one longer.
LEMMA Appended ==
  ASSUME NEW s \in Seq(Words), NEW w \in Words
  PROVE  Append(s, w) \in Seq(Words) /\ Len(Append(s, w)) = Len(s) + 1
BY AppendProperties

\* The word popped is one, and the rest one shorter.
LEMMA Removed ==
  ASSUME NEW s \in Seq(Words), s # <<>>
  PROVE  /\ Head(s) \in Words /\ Tail(s) \in Seq(Words)
         /\ Len(Tail(s)) = Len(s) - 1 /\ Len(s) \in Nat
BY HeadTailProperties, LenProperties

\* The FIFOs are empty and no call is under way at first.
LEMMA InitIInv == Init => IInv
<1> SUFFICES ASSUME Init PROVE IInv
  OBVIOUS
<1>1. <<>> \in Seq(Words) /\ Len(<<>>) = 0
  BY EmptySeq
<1>2. mailbox0 \in Seq(Words) /\ Len(mailbox0) <= Depth
      /\ mailbox1 \in Seq(Words) /\ Len(mailbox1) <= Depth
      /\ sent \in Seq(Words) /\ matched \in Seq(Words)
  BY <1>1, Sizes DEF Init
<1>3. TypeOK
  <2>1. overrun \in BOOLEAN
    BY DEF Init
  <2>2. count \in 0 .. READ_MAILBOX_TIMEOUT + 2 /\ requests \in 0 .. MaxRequests
        /\ posts \in 0 .. MaxPosts
    BY Sizes DEF Init
  <2> QED
    BY <1>2, <2>1, <2>2 DEF Init, TypeOK
<1> QED
  BY <1>2, <1>3 DEF Init, IInv, CallInv, Reading, Writing

\* A poll is counted until the time-out, and then the read returns.
LEMMA PollIInv == IInv /\ (PollEmpty \/ PollReady) => IInv'
<1> SUFFICES ASSUME IInv, PollEmpty \/ PollReady PROVE IInv'
  OBVIOUS
<1> USE Sizes DEF IInv, TypeOK, CallInv, Reading, Writing, vc
<1>1. CASE PollEmpty
  <2>1. count + 1 \in 0 .. READ_MAILBOX_TIMEOUT + 2
    BY <1>1 DEF PollEmpty
  <2>2. CASE TimedOut
    BY <1>1, <2>1, <2>2 DEF PollEmpty
  <2>3. CASE ~TimedOut
    BY <1>1, <2>1, <2>3 DEF PollEmpty, TimedOut
  <2> QED
    BY <2>2, <2>3
<1>2. CASE PollReady
  BY <1>2 DEF PollReady, MAILBOX_EMPTY
<1> QED
  BY <1>1, <1>2

\* A popped word that does not match is of another channel, and stays in data.
LEMMA PopIInv == IInv /\ Pop => IInv'
<1> SUFFICES ASSUME IInv, Pop PROVE IInv'
  OBVIOUS
<1>1. /\ Head(mailbox0) \in Words /\ Tail(mailbox0) \in Seq(Words)
      /\ Len(Tail(mailbox0)) = Len(mailbox0) - 1 /\ Len(mailbox0) \in Nat
  BY Removed DEF IInv, TypeOK, CallInv, Pop
<1>2. Append(matched, Head(mailbox0)) \in Seq(Words)
  BY <1>1, Appended DEF IInv, TypeOK
<1>3. TypeOK'
  <2>1. mailbox0' \in Seq(Words) /\ Len(mailbox0') <= Depth /\ data' \in Words
    BY <1>1, Sizes DEF IInv, TypeOK, Pop
  <2>2. /\ pc' \in {"idle", "poll"} /\ result' \in Words \cup {Invalid}
        /\ matched' \in Seq(Words)
    BY <1>1, <1>2 DEF IInv, TypeOK, Pop
  <2> QED
    BY <2>1, <2>2 DEF IInv, TypeOK, Pop, vc
<1>4. CallInv'
  BY <1>1, Sizes DEF IInv, TypeOK, CallInv, Pop, Matches, Reading, Writing
<1> QED
  BY <1>3, <1>4 DEF IInv

\* A store puts a word in mailbox 1 or loses it.
LEMMA WriteIInv == IInv /\ (WriteReady \/ Store) => IInv'
<1> SUFFICES ASSUME IInv, WriteReady \/ Store PROVE IInv'
  OBVIOUS
<1>1. CASE WriteReady
  BY <1>1 DEF IInv, TypeOK, CallInv, Reading, Writing, WriteReady, vc
<1>2. CASE Store
  <2>1. /\ Append(mailbox1, data) \in Seq(Words)
        /\ Len(Append(mailbox1, data)) = Len(mailbox1) + 1 /\ Len(mailbox1) \in Nat
    BY <1>2, Appended, LenProperties DEF IInv, TypeOK, CallInv, Writing, Store
  <2>2. mailbox1' \in Seq(Words) /\ Len(mailbox1') <= Depth
    <3>1. \/ mailbox1' = Append(mailbox1, data) /\ Len(mailbox1) < Depth
          \/ mailbox1' = mailbox1
      BY <1>2 DEF Store
    <3>2. mailbox1 \in Seq(Words) /\ Len(mailbox1) <= Depth /\ Depth \in Nat
      BY Sizes DEF IInv, TypeOK
    <3>3. Len(mailbox1) < Depth => Len(mailbox1) + 1 <= Depth
      BY <2>1, <3>2
    <3> QED
      BY <2>1, <3>1, <3>2, <3>3, Zenon
  <2>3. overrun' \in BOOLEAN
    BY <1>2 DEF IInv, TypeOK, Store
  <2>4. /\ pc' = "idle"
        /\ UNCHANGED <<mailbox0, working, posts, sent, channel, data, count, result,
                       requests, matched>>
    BY <1>2 DEF Store, vc
  <2>5. TypeOK'
    BY <2>2, <2>3, <2>4 DEF IInv, TypeOK
  <2> QED
    BY <2>4, <2>5 DEF IInv, CallInv, Reading, Writing
<1> QED
  BY <1>1, <1>2

\* A call begins with a data of its own.
LEMMA StartIInv ==
  ASSUME IInv,
         \/ \E c \in ReadChannels : ReadStart(c)
         \/ \E c \in Channels : WriteStart(c)
  PROVE  IInv'
<1> USE Sizes DEF IInv, TypeOK, CallInv, Reading, Writing, vc
<1>1. ASSUME NEW c \in ReadChannels, ReadStart(c) PROVE IInv'
  BY <1>1 DEF ReadStart
<1>2. ASSUME NEW c \in Channels, WriteStart(c) PROVE IInv'
  <2>1. [chan |-> c, val |-> requests + 1] \in Words /\ requests + 1 \in 0 .. MaxRequests
    BY <1>2 DEF WriteStart, Words
  <2> QED
    BY <1>2, <2>1 DEF WriteStart
<1> QED
  BY <1>1, <1>2

\* The word the VideoCore sends joins the end of mailbox 0.
LEMMA SendIInv ==
  ASSUME IInv,
         NEW w \in Words, VcSend(w), posts' \in 0 .. MaxPosts, working' \subseteq Words
  PROVE  IInv'
<1>1. /\ Append(mailbox0, w) \in Seq(Words) /\ Append(sent, w) \in Seq(Words)
      /\ Len(Append(mailbox0, w)) = Len(mailbox0) + 1 /\ Len(mailbox0) \in Nat
  BY Appended, LenProperties DEF IInv, TypeOK
<1>2. TypeOK'
  <2>1. sent' \in Seq(Words)
    BY <1>1 DEF IInv, TypeOK, VcSend
  <2> QED
    BY <1>1, <2>1, Sizes DEF IInv, TypeOK, VcSend, arm
<1>3. CallInv'
  <2>1. Append(mailbox0, w) # <<>>
    BY <1>1
  <2> QED
    BY <2>1 DEF IInv, CallInv, Reading, Writing, VcSend, arm
<1> QED
  BY <1>2, <1>3 DEF IInv

\* An answer is a word it has taken.
LEMMA AnswerIInv ==
  ASSUME IInv, NEW w \in Words, VcAnswer(w)
  PROVE  IInv'
<1>1. VcSend(w) /\ posts' \in 0 .. MaxPosts /\ working' \subseteq Words
  BY DEF IInv, TypeOK, VcAnswer
<1> QED
  BY <1>1, SendIInv

\* A post is a word of its own.
LEMMA PostIInv ==
  ASSUME IInv, NEW c \in Channels, VcPost(c)
  PROVE  IInv'
<1>1. [chan |-> c, val |-> 0] \in Words /\ VcSend([chan |-> c, val |-> 0])
  BY Sizes DEF VcPost, Words
<1>2. posts' \in 0 .. MaxPosts /\ working' \subseteq Words
  BY Sizes DEF IInv, TypeOK, VcPost
<1> QED
  BY <1>1, <1>2, SendIInv

\* Every step of the ARM and of the VideoCore keeps the invariant.
LEMMA StepIInv == IInv /\ [Next]_vars => IInv'
<1> SUFFICES ASSUME IInv, [Next]_vars PROVE IInv'
  OBVIOUS
<1>1. CASE ArmStep
  BY <1>1, PollIInv, PopIInv, WriteIInv DEF ArmStep
<1>2. CASE \/ \E c \in ReadChannels : ReadStart(c)
           \/ \E c \in Channels : WriteStart(c)
  BY <1>2, StartIInv
<1>3. ASSUME NEW c \in Channels, VcPost(c) PROVE IInv'
  BY <1>3, PostIInv
<1>4. ASSUME NEW w \in Words, VcAnswer(w) PROVE IInv'
  BY <1>4, AnswerIInv
<1>5. CASE VcTake
  <2>1. /\ Head(mailbox1) \in Words /\ Tail(mailbox1) \in Seq(Words)
        /\ Len(Tail(mailbox1)) = Len(mailbox1) - 1 /\ Len(mailbox1) \in Nat
    BY <1>5, Removed DEF IInv, TypeOK, VcTake
  <2> QED
    BY <1>5, <2>1, Sizes DEF IInv, TypeOK, CallInv, Reading, Writing, VcTake, arm
<1>6. CASE UNCHANGED vars
  BY <1>6 DEF IInv, TypeOK, CallInv, Reading, Writing, vars, arm, vc
<1> QED
  BY <1>1, <1>2, <1>3, <1>4, <1>5, <1>6 DEF Next

\* The invariant holds in every reachable state.
LEMMA Invariance == Spec => []IInv
BY InitIInv, StepIInv, PTL DEF Spec

-----------------------------------------------------------------------------
\* The FIFOs hold words and no more than their depth, and the polls of a read
\* are counted up to the time-out (mailbox.c:16-87).
THEOREM TypeCorrect == Spec => []TypeOK
BY Invariance, PTL DEF IInv

\* A read that gives up does not answer with a word of its channel, of this call
\* or of an earlier one (mailbox.c:23-36).
THEOREM GivesUpRight == Spec => GivesUpUnanswered
<1>1. IInv /\ [Next]_vars =>
        [PollEmpty /\ pc' = "idle" =>
           result' = Invalid \/ (result'.chan # channel /\ count > 0)]_vars
  <2> SUFFICES ASSUME IInv, PollEmpty, pc' = "idle"
               PROVE  result' = Invalid \/ (result'.chan # channel /\ count > 0)
    OBVIOUS
  <2>1. TimedOut /\ result' = data /\ Reading
    BY DEF PollEmpty, Reading
  <2> QED
    BY <2>1, Sizes DEF IInv, TypeOK, CallInv, TimedOut
<1> QED
  BY <1>1, Invariance, PTL DEF Spec, GivesUpUnanswered

-----------------------------------------------------------------------------
\* Where the words of z wait whose channel is read.
Waiting(z) == {n \in DOMAIN z : OnReadChannel(z[n])}

\* The words of s after the first l are those that wait in z, at the places at.
Waits(s, l, z, at) ==
  LET unread == l + 1 .. Len(s)
  IN  /\ at \in [unread -> Waiting(z)]
      /\ \A k \in unread : s[k] = z[at[k]]
      /\ \A j, k \in unread : j < k => at[j] < at[k]
      /\ {at[k] : k \in unread} = Waiting(z)

\* The property in these terms.
NoneDropped ==
  /\ Len(matched) <= Len(sent)
  /\ \A k \in DOMAIN matched : matched[k] = sent[k]
  /\ \E at : Waits(sent, Len(matched), mailbox0, at)

\* They say the same.
LEMMA SameProperty == NoneDropped <=> NoneWantedDropped
BY DEF NoneDropped, NoneWantedDropped, Waits, Waiting

\* A word sent on a channel that is read waits at the end of the mailbox.
LEMMA WantedSent ==
  ASSUME NEW s \in Seq(Words), NEW z \in Seq(Words), NEW l \in Nat, l <= Len(s),
         NEW w \in Words, OnReadChannel(w), NEW at, Waits(s, l, z, at)
  PROVE  \E to : Waits(Append(s, w), l, Append(z, w), to)
<1> DEFINE t  == Append(s, w)
           y  == Append(z, w)
           to == [k \in l + 1 .. Len(t) |-> IF k <= Len(s) THEN at[k] ELSE Len(z) + 1]
<1>1. /\ Len(s) \in Nat /\ Len(t) = Len(s) + 1 /\ t[Len(s) + 1] = w
      /\ \A k \in 1 .. Len(s) : t[k] = s[k]
      /\ Len(z) \in Nat /\ DOMAIN z = 1 .. Len(z) /\ DOMAIN y = 1 .. Len(z) + 1
      /\ y[Len(z) + 1] = w /\ \A k \in 1 .. Len(z) : y[k] = z[k]
  BY AppendProperties, LenProperties
<1> HIDE DEF t, y
<1>2. Waiting(y) = Waiting(z) \cup {Len(z) + 1}
  BY <1>1 DEF Waiting
<1>3. \A k \in l + 1 .. Len(s) : at[k] \in Waiting(z) /\ at[k] \in 1 .. Len(z)
  BY <1>1 DEF Waits, Waiting
<1>4. to \in [l + 1 .. Len(t) -> Waiting(y)]
  BY <1>1, <1>2, <1>3
<1>5. \A k \in l + 1 .. Len(t) : t[k] = y[to[k]]
  <2> SUFFICES ASSUME NEW k \in l + 1 .. Len(t) PROVE t[k] = y[to[k]]
    OBVIOUS
  <2>1. CASE k = Len(s) + 1
    BY <1>1, <2>1
  <2>2. CASE k <= Len(s)
    BY <1>1, <1>3, <2>2 DEF Waits
  <2> QED
    BY <1>1, <2>1, <2>2
<1>6. \A j, k \in l + 1 .. Len(t) : j < k => to[j] < to[k]
  BY <1>1, <1>3 DEF Waits
<1>7. {to[k] : k \in l + 1 .. Len(t)} = Waiting(y)
  <2>1. {to[k] : k \in l + 1 .. Len(t)}
          = {at[k] : k \in l + 1 .. Len(s)} \cup {Len(z) + 1}
    BY <1>1
  <2> QED
    BY <1>2, <2>1 DEF Waits
<1> HIDE DEF to
<1>8. Waits(t, l, y, to)
  BY <1>4, <1>5, <1>6, <1>7 DEF Waits
<1> QED
  BY <1>8 DEF t, y

\* A word of another channel that is sent waits for nobody.
LEMMA OtherSent ==
  ASSUME NEW s \in Seq(Words), NEW z \in Seq(Words), NEW l \in Nat,
         NEW w \in Words, ~OnReadChannel(w), NEW at, Waits(s, l, z, at)
  PROVE  Waits(s, l, Append(z, w), at)
<1> DEFINE y == Append(z, w)
<1>1. /\ Len(z) \in Nat /\ DOMAIN z = 1 .. Len(z) /\ DOMAIN y = 1 .. Len(z) + 1
      /\ y[Len(z) + 1] = w /\ \A k \in 1 .. Len(z) : y[k] = z[k]
  BY AppendProperties, LenProperties
<1> HIDE DEF y
<1>2. Waiting(y) = Waiting(z)
  BY <1>1 DEF Waiting
<1>3. \A n \in Waiting(z) : y[n] = z[n]
  BY <1>1 DEF Waiting
<1>4. Waits(s, l, y, at)
  BY <1>2, <1>3 DEF Waits
<1> QED
  BY <1>4 DEF y

\* Once the first word is popped, the others wait one place nearer.
LEMMA Nearer ==
  ASSUME NEW z \in Seq(Words), z # <<>>
  PROVE  /\ Head(z) = z[1] /\ 1 \in DOMAIN z
         /\ \A n \in Waiting(z) \ {1} : n - 1 \in Waiting(Tail(z)) /\ Tail(z)[n - 1] = z[n]
         /\ \A m \in Waiting(Tail(z)) : m \in Nat /\ m + 1 \in Waiting(z) \ {1}
         /\ Waiting(z) \subseteq Nat \ {0}
<1>1. /\ Len(z) \in Nat /\ DOMAIN z = 1 .. Len(z) /\ Len(z) >= 1
      /\ Tail(z) \in Seq(Words) /\ Len(Tail(z)) = Len(z) - 1
      /\ DOMAIN Tail(z) = 1 .. Len(z) - 1
  BY Removed, LenProperties, EmptySeq
<1>2. Head(z) = z[1] /\ \A k \in 1 .. Len(z) - 1 : Tail(z)[k] = z[k + 1]
  BY HeadTailProperties
<1>3. ASSUME NEW n \in Waiting(z) \ {1}
      PROVE  n - 1 \in Waiting(Tail(z)) /\ Tail(z)[n - 1] = z[n]
  <2>1. n - 1 \in 1 .. Len(z) - 1 /\ n - 1 + 1 = n
    BY <1>1 DEF Waiting
  <2> QED
    BY <1>1, <1>2, <2>1 DEF Waiting
<1>4. ASSUME NEW m \in Waiting(Tail(z)) PROVE m \in Nat /\ m + 1 \in Waiting(z) \ {1}
  BY <1>1, <1>2 DEF Waiting
<1> QED
  BY <1>1, <1>2, <1>3, <1>4 DEF Waiting

\* The words that wait, shifted by one.
LEMMA Shifted ==
  ASSUME NEW s \in Seq(Words), NEW l \in Nat, NEW z \in Seq(Words), z # <<>>,
         NEW at \in [l + 1 .. Len(s) -> Waiting(z) \ {1}],
         \A k \in l + 1 .. Len(s) : s[k] = z[at[k]],
         \A j, k \in l + 1 .. Len(s) : j < k => at[j] < at[k],
         {at[k] : k \in l + 1 .. Len(s)} = Waiting(z) \ {1}
  PROVE  \E to : Waits(s, l, Tail(z), to)
<1> DEFINE unread == l + 1 .. Len(s)
           y      == Tail(z)
           to     == [k \in unread |-> at[k] - 1]
<1>1. /\ \A n \in Waiting(z) \ {1} : n - 1 \in Waiting(y) /\ y[n - 1] = z[n]
      /\ \A m \in Waiting(y) : m \in Nat /\ m + 1 \in Waiting(z) \ {1}
      /\ Waiting(z) \subseteq Nat \ {0}
  BY Nearer
<1> HIDE DEF y
<1>2. \A k \in unread : at[k] \in Waiting(z) \ {1} /\ at[k] \in Nat
  BY <1>1
<1>3. to \in [unread -> Waiting(y)]
  BY <1>1, <1>2
<1>4. \A k \in unread : s[k] = y[to[k]]
  BY <1>1, <1>2
<1>5. \A j, k \in unread : j < k => to[j] < to[k]
  BY <1>2
<1>6. {to[k] : k \in unread} = Waiting(y)
  <2>1. ASSUME NEW m \in Waiting(y) PROVE \E k \in unread : to[k] = m
    <3>1. m \in Nat /\ m + 1 \in Waiting(z) \ {1}
      BY <1>1
    <3>2. PICK k \in unread : at[k] = m + 1
      BY <3>1
    <3>3. to[k] = m
      BY <3>1, <3>2
    <3> QED
      BY <3>3
  <2> QED
    BY <1>3, <2>1
<1> HIDE DEF to
<1>7. Waits(s, l, y, to)
  BY <1>3, <1>4, <1>5, <1>6 DEF Waits
<1> QED
  BY <1>7 DEF y

\* The word popped is the next of those sent, if it is of a channel that is read.
LEMMA WantedPopped ==
  ASSUME NEW s \in Seq(Words), NEW z \in Seq(Words), z # <<>>,
         NEW l \in Nat, l <= Len(s), OnReadChannel(Head(z)),
         NEW at, Waits(s, l, z, at)
  PROVE  l < Len(s) /\ s[l + 1] = Head(z) /\ \E to : Waits(s, l + 1, Tail(z), to)
<1> DEFINE unread == l + 1 .. Len(s)
<1>1. /\ Len(s) \in Nat /\ Head(z) = z[1] /\ 1 \in Waiting(z)
      /\ Waiting(z) \subseteq Nat \ {0}
  BY Nearer, LenProperties DEF Waiting
<1>2. /\ at \in [unread -> Waiting(z)]
      /\ \A k \in unread : s[k] = z[at[k]] /\ at[k] \in Nat \ {0}
      /\ \A j, k \in unread : j < k => at[j] < at[k]
      /\ {at[k] : k \in unread} = Waiting(z)
  BY <1>1 DEF Waits
<1>3. PICK f \in unread : at[f] = 1
  BY <1>1, <1>2
<1>4. f = l + 1
  <2>1. CASE l + 1 < f
    <3>1. l + 1 \in unread
      BY <1>1, <2>1
    <3> QED
      BY <1>2, <1>3, <2>1, <3>1
  <2> QED
    BY <1>1, <2>1
<1>5. \A k \in l + 2 .. Len(s) : k \in unread /\ at[k] # 1
  BY <1>1, <1>2, <1>3, <1>4
<1> DEFINE rest == [k \in l + 2 .. Len(s) |-> at[k]]
<1>6. /\ rest \in [l + 2 .. Len(s) -> Waiting(z) \ {1}]
      /\ \A k \in l + 2 .. Len(s) : s[k] = z[rest[k]]
      /\ \A j, k \in l + 2 .. Len(s) : j < k => rest[j] < rest[k]
  BY <1>2, <1>5
<1>7. {rest[k] : k \in l + 2 .. Len(s)} = Waiting(z) \ {1}
  <2>1. ASSUME NEW n \in Waiting(z) \ {1} PROVE \E k \in l + 2 .. Len(s) : rest[k] = n
    <3>1. PICK k \in unread : at[k] = n
      BY <1>2
    <3>2. k \in l + 2 .. Len(s)
      BY <1>1, <1>3, <1>4, <3>1
    <3> QED
      BY <3>1, <3>2
  <2>2. \A k \in l + 2 .. Len(s) : rest[k] \in Waiting(z) \ {1}
    BY <1>6
  <2> HIDE DEF rest
  <2> QED
    BY <2>1, <2>2
<1> HIDE DEF rest
<1>8. l + 1 \in Nat /\ (l + 1) + 1 = l + 2
  OBVIOUS
<1>9. \E to : Waits(s, l + 1, Tail(z), to)
  BY <1>6, <1>7, <1>8, Shifted
<1> QED
  BY <1>1, <1>2, <1>3, <1>4, <1>9

\* A word of another channel that is popped is none of those sent.
LEMMA OtherPopped ==
  ASSUME NEW s \in Seq(Words), NEW z \in Seq(Words), z # <<>>,
         NEW l \in Nat, ~OnReadChannel(Head(z)), NEW at, Waits(s, l, z, at)
  PROVE  \E to : Waits(s, l, Tail(z), to)
<1>1. Waiting(z) = Waiting(z) \ {1}
  BY Nearer DEF Waiting
<1>2. /\ at \in [l + 1 .. Len(s) -> Waiting(z) \ {1}]
      /\ \A k \in l + 1 .. Len(s) : s[k] = z[at[k]]
      /\ \A j, k \in l + 1 .. Len(s) : j < k => at[j] < at[k]
      /\ {at[k] : k \in l + 1 .. Len(s)} = Waiting(z) \ {1}
  BY <1>1 DEF Waits
<1> QED
  BY <1>2, Shifted

-----------------------------------------------------------------------------
\* A pop returns the next of the words sent, or leaves them waiting.
LEMMA PopNoneDropped ==
  ASSUME NEW c, ReadChannels = {c}, IInv, NoneDropped, Pop
  PROVE  NoneDropped'
<1>1. /\ mailbox0 \in Seq(Words) /\ sent \in Seq(Words) /\ matched \in Seq(Words)
      /\ Len(matched) \in Nat /\ DOMAIN matched = 1 .. Len(matched)
      /\ Len(sent) \in Nat /\ mailbox0 # <<>> /\ channel = c /\ sent' = sent
      /\ mailbox0' = Tail(mailbox0) /\ Head(mailbox0) \in Words
  BY Removed, LenProperties DEF IInv, TypeOK, CallInv, Reading, Pop, vc
<1>2. Matches(Head(mailbox0)) <=> OnReadChannel(Head(mailbox0))
  BY <1>1 DEF Matches, OnReadChannel
<1>3. PICK at : Waits(sent, Len(matched), mailbox0, at)
  BY DEF NoneDropped
<1>4. CASE OnReadChannel(Head(mailbox0))
  <2>1. matched' = Append(matched, Head(mailbox0))
    BY <1>2, <1>4 DEF Pop
  <2>2. /\ Len(matched') = Len(matched) + 1 /\ DOMAIN matched' = 1 .. Len(matched) + 1
        /\ \A k \in 1 .. Len(matched) : matched'[k] = matched[k]
        /\ matched'[Len(matched) + 1] = Head(mailbox0)
    BY <1>1, <2>1, AppendProperties
  <2>3. /\ Len(matched) < Len(sent) /\ sent[Len(matched) + 1] = Head(mailbox0)
        /\ \E to : Waits(sent, Len(matched) + 1, Tail(mailbox0), to)
    BY <1>1, <1>3, <1>4, WantedPopped DEF NoneDropped
  <2>4. \A k \in DOMAIN matched' : matched'[k] = sent'[k]
    BY <1>1, <2>2, <2>3 DEF NoneDropped
  <2> QED
    BY <1>1, <2>2, <2>3, <2>4 DEF NoneDropped
<1>5. CASE ~OnReadChannel(Head(mailbox0))
  <2>1. matched' = matched
    BY <1>2, <1>5 DEF Pop
  <2>2. \E to : Waits(sent, Len(matched), Tail(mailbox0), to)
    BY <1>1, <1>3, <1>5, OtherPopped
  <2> QED
    BY <1>1, <2>1, <2>2 DEF NoneDropped
<1> QED
  BY <1>4, <1>5

\* A word sent waits, if it is of a channel that is read.
LEMMA SendNoneDropped ==
  ASSUME IInv, NoneDropped, NEW w \in Words, VcSend(w)
  PROVE  NoneDropped'
<1>1. /\ mailbox0 \in Seq(Words) /\ sent \in Seq(Words) /\ matched \in Seq(Words)
      /\ Len(matched) \in Nat /\ DOMAIN matched = 1 .. Len(matched)
      /\ Len(sent) \in Nat /\ Len(matched) <= Len(sent)
      /\ mailbox0' = Append(mailbox0, w) /\ matched' = matched
  BY LenProperties DEF IInv, TypeOK, NoneDropped, VcSend, arm
<1>2. PICK at : Waits(sent, Len(matched), mailbox0, at)
  BY DEF NoneDropped
<1>3. CASE OnReadChannel(w)
  <2>1. sent' = Append(sent, w)
    BY <1>3 DEF VcSend
  <2>2. Len(sent') = Len(sent) + 1 /\ \A k \in 1 .. Len(sent) : sent'[k] = sent[k]
    BY <1>1, <2>1, AppendProperties
  <2>3. \E to : Waits(sent', Len(matched), mailbox0', to)
    BY <1>1, <1>2, <1>3, <2>1, WantedSent
  <2>4. \A k \in DOMAIN matched' : matched'[k] = sent'[k]
    BY <1>1, <2>2 DEF NoneDropped
  <2>5. Len(matched') <= Len(sent')
    BY <1>1, <2>2
  <2> QED
    BY <1>1, <2>3, <2>4, <2>5 DEF NoneDropped
<1>4. CASE ~OnReadChannel(w)
  <2>1. sent' = sent
    BY <1>4 DEF VcSend
  <2>2. Waits(sent, Len(matched), mailbox0', at)
    BY <1>1, <1>2, <1>4, OtherSent
  <2> QED
    BY <1>1, <2>1, <2>2 DEF NoneDropped
<1> QED
  BY <1>3, <1>4

\* No other step disturbs it.
LEMMA StepNoneDropped ==
  ASSUME NEW c, ReadChannels = {c}, IInv, NoneDropped, [Next]_vars
  PROVE  NoneDropped'
<1>1. CASE Pop
  BY <1>1, PopNoneDropped
<1>2. ASSUME NEW w \in Words, VcAnswer(w) PROVE NoneDropped'
  BY <1>2, SendNoneDropped DEF VcAnswer
<1>3. ASSUME NEW d \in Channels, VcPost(d) PROVE NoneDropped'
  <2>1. [chan |-> d, val |-> 0] \in Words
    BY Sizes DEF Words
  <2> QED
    BY <1>3, <2>1, SendNoneDropped DEF VcPost
<1>4. CASE UNCHANGED <<mailbox0, sent, matched>>
  BY <1>4 DEF NoneDropped
<1>5. ASSUME \/ PollEmpty \/ PollReady \/ WriteReady \/ Store
             \/ \E d \in ReadChannels : ReadStart(d)
             \/ \E d \in Channels : WriteStart(d)
             \/ VcTake \/ UNCHANGED vars
      PROVE  UNCHANGED <<mailbox0, sent, matched>>
  BY <1>5 DEF PollEmpty, PollReady, WriteReady, Store, ReadStart, WriteStart,
              VcTake, vars, arm, vc
<1> QED
  BY <1>1, <1>2, <1>3, <1>4, <1>5 DEF Next, ArmStep

\* While the ARM reads one channel, no word of it is dropped: read_mailbox has
\* returned the first of those that were sent, in order and each once, and the
\* others wait (mailbox.c:24-50).
THEOREM NoneIsDropped ==
  ASSUME NEW c, ReadChannels = {c}
  PROVE  Spec => []NoneWantedDropped
<1>1. Init => NoneDropped
  <2> SUFFICES ASSUME Init PROVE NoneDropped
    OBVIOUS
  <2>1. mailbox0 = <<>> /\ sent = <<>> /\ matched = <<>>
    BY DEF Init
  <2>2. Len(<<>>) = 0 /\ DOMAIN <<>> = {} /\ 0 + 1 .. 0 = {}
    BY EmptySeq
  <2>3. Waits(<<>>, 0, <<>>, [k \in {} |-> 0])
    BY <2>2 DEF Waits, Waiting
  <2> QED
    BY <2>1, <2>2, <2>3 DEF NoneDropped
<1>2. IInv /\ NoneDropped /\ [Next]_vars => NoneDropped'
  BY StepNoneDropped
<1>3. NoneDropped => NoneWantedDropped
  BY SameProperty
<1> QED
  BY <1>1, <1>2, <1>3, Invariance, PTL DEF Spec
=============================================================================

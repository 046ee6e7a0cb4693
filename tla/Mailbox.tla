------------------------------ MODULE Mailbox ------------------------------
(* read_mailbox and write_mailbox of src/src/memory/mailbox.c between the    *)
(* ARM and the VideoCore.                                                    *)
(*                                                                           *)
(* The hardware (external) is two FIFOs: the ARM pops mailbox 0 and pushes   *)
(* mailbox 1, the VideoCore the other way round.  The VideoCore takes a      *)
(* request, works on it for as long as it likes, and answers on the same     *)
(* channel; it may also post on its own account.  Each access of the ARM to  *)
(* a status, read or write register is a step, and the VideoCore runs in     *)
(* between.  A word is a record: its channel (low 4 bits) and the rest.      *)
EXTENDS Integers, Sequences, FiniteSets

CONSTANTS
  Channels,     \* the channels in use, out of 0..15
  ReadChannels, \* those the ARM reads
  Depth,        \* depth of each FIFO (8, mailbox.h:3)
  READ_MAILBOX_TIMEOUT, \* empty polls a read allows itself (2^25)
  Invalid,      \* the word 0xffffffff
  MaxRequests,  \* bound: words the ARM writes
  MaxPosts      \* bound: words it posts unasked on a channel the ARM reads

\* Requests are numbered as they are written; a post of the VideoCore's own is 0.
Words == [chan : Channels, val : 0 .. MaxRequests]

OnReadChannel(w) == w.chan \in ReadChannels

ASSUME MailboxAssumption ==
  /\ ReadChannels \subseteq Channels
  /\ Depth \in Nat \ {0}
  /\ {READ_MAILBOX_TIMEOUT, MaxRequests, MaxPosts} \subseteq Nat
  /\ Invalid \notin Words

VARIABLES
  mailbox0,     \* words for the ARM
  mailbox1,     \* words for the VideoCore
  working,      \* requests the VideoCore has taken and not answered yet
  pc,           \* where the ARM is in read_mailbox or write_mailbox
  channel,      \* the argument of the call
  data,         \* read_mailbox: the local data; write_mailbox: the word to send
  count,        \* read_mailbox: the local count
  result,       \* what the last read returned
  requests,     \* words the ARM has written so far
  posts,        \* words the VideoCore has posted unasked on such a channel so far
  overrun,      \* whether a word was written into a full mailbox 1, and lost
  sent,         \* history: words of channels the ARM reads that were put in mailbox 0
  matched       \* history: words read_mailbox returned because they matched

arm  == <<pc, channel, data, count, result, requests, matched>>
vc   == <<working, posts, sent>>
vars == <<mailbox0, mailbox1, overrun, arm, vc>>

TypeOK ==
  /\ mailbox0 \in Seq(Words) /\ Len(mailbox0) <= Depth
  /\ mailbox1 \in Seq(Words) /\ Len(mailbox1) <= Depth
  /\ working \subseteq Words
  /\ pc \in {"idle", "poll", "pop", "status", "store"}
  /\ channel \in Channels
  /\ data \in Words \cup {Invalid}
  /\ count \in 0 .. READ_MAILBOX_TIMEOUT + 2
  /\ result \in Words \cup {Invalid}
  /\ requests \in 0 .. MaxRequests
  /\ posts \in 0 .. MaxPosts
  /\ overrun \in BOOLEAN
  /\ sent \in Seq(Words) /\ matched \in Seq(Words)

Init ==
  /\ mailbox0 = <<>> /\ mailbox1 = <<>> /\ working = {}
  /\ pc = "idle" /\ channel \in Channels /\ data = Invalid /\ count = 0
  /\ result = Invalid
  /\ requests = 0 /\ posts = 0 /\ overrun = FALSE
  /\ sent = <<>> /\ matched = <<>>

-----------------------------------------------------------------------------
\* read_mailbox.  (Channels above 15 are refused at once: no call here has one.)

\* Mutant: data is left as the last call left it.
ReadStartStale(c) ==
  /\ pc = "idle"
  /\ channel' = c
  /\ count' = 0
  /\ pc' = "poll"
  /\ UNCHANGED <<mailbox0, mailbox1, overrun, vc, data, result, requests, matched>>

ReadStart(c) ==
  /\ pc = "idle"
  /\ channel' = c
  /\ data' = Invalid
  /\ count' = 0
  /\ pc' = "poll"
  /\ UNCHANGED <<mailbox0, mailbox1, overrun, vc, result, requests, matched>>

MAILBOX_EMPTY == mailbox0 = <<>>
MAILBOX_FULL  == Len(mailbox0) = Depth    \* of mailbox 0: the struct has no other

\* Mutant: one poll more is allowed than the limit says.
TimedOutLate == count > READ_MAILBOX_TIMEOUT + 1

TimedOut == count > READ_MAILBOX_TIMEOUT

\* Mutant: the polls are not counted.
PollUncounted ==
  /\ pc = "poll" /\ MAILBOX_EMPTY
  /\ IF TimedOut
       THEN pc' = "idle" /\ result' = data
       ELSE UNCHANGED <<pc, result>>
  /\ UNCHANGED <<mailbox0, mailbox1, overrun, vc, channel, data, count, requests,
                 matched>>

\* The mailbox is empty: count, and give up after too many such polls - of this
\* call, also those before a word of another channel came.
PollEmpty ==
  /\ pc = "poll" /\ MAILBOX_EMPTY
  /\ count' = count + 1
  /\ IF TimedOut
       THEN pc' = "idle" /\ result' = data
       ELSE UNCHANGED <<pc, result>>
  /\ UNCHANGED <<mailbox0, mailbox1, overrun, vc, channel, data, requests, matched>>

PollReady ==
  /\ pc = "poll" /\ ~MAILBOX_EMPTY
  /\ pc' = "pop"
  /\ UNCHANGED <<mailbox0, mailbox1, overrun, vc, channel, data, count, result,
                 requests, matched>>

\* Mutant: the whole word is compared with the channel, not its low bits.
MatchesWhole(w) == w = [chan |-> channel, val |-> 0]

Matches(w) == w.chan = channel

\* The word is read into data; one of another channel is dropped.
Pop ==
  /\ pc = "pop"
  /\ data' = Head(mailbox0)
  /\ mailbox0' = Tail(mailbox0)
  /\ IF Matches(Head(mailbox0))
       THEN /\ pc' = "idle"
            /\ result' = Head(mailbox0)
            /\ matched' = Append(matched, Head(mailbox0))
       ELSE pc' = "poll" /\ UNCHANGED <<result, matched>>
  /\ UNCHANGED <<mailbox1, overrun, vc, channel, count, requests>>

-----------------------------------------------------------------------------
\* write_mailbox: poll the status until it is not full, then store.

WriteStart(c) ==
  /\ pc = "idle" /\ requests < MaxRequests
  /\ requests' = requests + 1
  /\ channel' = c
  /\ data' = [chan |-> c, val |-> requests + 1]
  /\ pc' = "status"
  /\ UNCHANGED <<mailbox0, mailbox1, overrun, vc, count, result, matched>>

\* Mutant: the wait is for an empty mailbox, not for one that is not full.
WriteWhenEmpty ==
  /\ pc = "status" /\ MAILBOX_EMPTY
  /\ pc' = "store"
  /\ UNCHANGED <<mailbox0, mailbox1, overrun, vc, channel, data, count, result,
                 requests, matched>>

WriteReady ==
  /\ pc = "status" /\ ~MAILBOX_FULL
  /\ pc' = "store"
  /\ UNCHANGED <<mailbox0, mailbox1, overrun, vc, channel, data, count, result,
                 requests, matched>>

Store ==
  /\ pc = "store"
  /\ pc' = "idle"
  /\ IF Len(mailbox1) < Depth
       THEN mailbox1' = Append(mailbox1, data) /\ UNCHANGED overrun
       ELSE overrun' = TRUE /\ UNCHANGED mailbox1
  /\ UNCHANGED <<mailbox0, vc, channel, data, count, result, requests, matched>>

-----------------------------------------------------------------------------
\* The VideoCore.

VcTake ==
  /\ mailbox1 # <<>>
  /\ mailbox1' = Tail(mailbox1)
  /\ working' = working \cup {Head(mailbox1)}
  /\ UNCHANGED <<mailbox0, overrun, arm, posts, sent>>

VcSend(w) ==
  /\ Len(mailbox0) < Depth
  /\ mailbox0' = Append(mailbox0, w)
  /\ sent' = IF OnReadChannel(w) THEN Append(sent, w) ELSE sent
  /\ UNCHANGED <<mailbox1, overrun, arm>>

VcAnswer(w) ==
  /\ w \in working
  /\ VcSend(w)
  /\ working' = working \ {w}
  /\ UNCHANGED posts

\* Of its own accord it may post on the other channels for ever.
VcPost(c) ==
  /\ IF c \in ReadChannels
       THEN posts < MaxPosts /\ posts' = posts + 1
       ELSE UNCHANGED posts
  /\ VcSend([chan |-> c, val |-> 0])
  /\ UNCHANGED working

-----------------------------------------------------------------------------
ArmStep == PollEmpty \/ PollReady \/ Pop \/ WriteReady \/ Store

Next ==
  \/ ArmStep
  \/ \E c \in ReadChannels : ReadStart(c)
  \/ \E c \in Channels : WriteStart(c) \/ VcPost(c)
  \/ VcTake
  \/ \E w \in Words : VcAnswer(w)

\* The ARM's loops run on; the VideoCore may stop at any point.
Spec == Init /\ [][Next]_vars /\ WF_vars(ArmStep)

-----------------------------------------------------------------------------
\* While the ARM reads one channel, no word of that channel is dropped: read_mailbox
\* has returned the first of those sent, in order and each once, and the others
\* all wait in mailbox 0.  A word dropped for being another channel's, or popped
\* between a poll and the return, is never one that was wanted (mailbox.c:24-50).
NoneWantedDropped ==
  LET waiting == {n \in DOMAIN mailbox0 : OnReadChannel(mailbox0[n])}
      unread  == Len(matched) + 1 .. Len(sent)
  IN  /\ Len(matched) <= Len(sent)
      /\ \A k \in DOMAIN matched : matched[k] = sent[k]
      /\ \E at \in [unread -> waiting] :
           /\ \A k \in unread : sent[k] = mailbox0[at[k]]
           /\ \A j, k \in unread : j < k => at[j] < at[k]
           /\ {at[k] : k \in unread} = waiting

\* Another channel's word is read and dropped.
Drop == Pop /\ pc' = "poll"

\* read_mailbox returns (mailbox.c:23, "it eventually give up"), unless words of
\* other channels keep coming for ever: only polls of an empty mailbox count
\* (mailbox.c:27-37), so an endless run of words to drop is never timed out.
ReadReturns == []<><<Drop>>_vars \/ ((pc = "poll") ~> (pc = "idle"))

\* A read that gives up does not answer with a word of its channel, of this call
\* or of an earlier one.  The 0xffffffff that mailbox.c:23 promises it is only if
\* no word of another channel was dropped: else it is the last of those.
GivesUpUnanswered ==
  [][PollEmpty /\ pc' = "idle" =>
       result' = Invalid \/ (result'.chan # channel /\ count > 0)]_vars

\* "wait for the mailbox to be available to write" (mailbox.c:72): the wait ends,
\* unless mailbox 0 is full - of words that only the waiting
\* ARM could read.
WriteReturns == (pc = "status") ~> (pc = "idle" \/ MAILBOX_FULL)

\* The polling loops of mailbox.c end (mailbox.c:28, 74), with these exceptions.
CallsReturn == ReadReturns /\ WriteReturns
=============================================================================

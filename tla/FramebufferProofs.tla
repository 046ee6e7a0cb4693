------------------------- MODULE FramebufferProofs -------------------------
(* Proof that the mailbuffer is not shared, that a success draws in what was *)
(* granted, and that every drawing is bounded, for every display, every size *)
(* asked for, FIFOs of any depth and any time-out.                           *)
EXTENDS Framebuffer, FiniteSetTheorems, SequenceTheorems, TLAPS

Requests == {"resolution", "setup", "pitch", "update"}
TagOf(r) == IF r \in {"resolution", "update"} THEN "size" ELSE r

Replies == [base : Nat, size : Nat, pitch : Nat, screen : Displays]

\* From the store of a request to the last look at its answer.
Awaiting == {"receive", "receiving", "check"}

\* What the steps of the mailbox leave alone is typed too, and a request that is
\* being processed has not been answered.
TypeInv ==
  /\ fpc \in {"fill", "tags", "send", "sending", "draw", "done"} \cup Awaiting
  /\ request \in Requests
  /\ mailbuffer \in [code : {"request", "success", "error"},
                     tag : {"none", "torn", "size", "setup", "pitch"},
                     reply : Replies, walk : {"lost", "unanswered", "answered"}]
  /\ fields \in Replies
  /\ display \in Native \cup {Requested}
  /\ granted \in {None, Buffers(Requested)}
  /\ mailbox1 \in Seq(M!Words)
  /\ IsFiniteSet(working) /\ processed \subseteq working
  /\ requests \in Nat /\ (fpc = "sending" => data \in M!Words)
  /\ text \in [cols : Nat, rows : Nat, x : Nat, y : Nat]
  /\ returned \in Int /\ touched \in Int

\* A call of the mailbox is under way only while init_framebuffer waits for it;
\* returned is a success only of the last request.
CallInv ==
  /\ fpc \in {"fill", "tags", "send", "receive", "check", "draw", "done"} => pc = "idle"
  /\ fpc = "sending" => pc \in {"status", "store"}
  /\ fpc = "receiving" => pc \in {"poll", "pop"}
  /\ fpc \notin {"draw", "done"} => returned = 0 /\ touched = -1
  /\ fpc = "draw" => touched = -1
  /\ fpc \in {"draw", "done"} => (returned = 0 <=> request = "update") /\ returned <= 0

\* At most one request is outstanding, and none before the mailbuffer is sent.
\* While one is, the mailbuffer is as it was sent: nothing in it is a reply.
BufferInv ==
  /\ Unprocessed <= 1
  /\ fpc \in {"fill", "tags", "send", "sending"} => Unprocessed = 0
  /\ fpc \in {"tags", "send", "sending"} => mailbuffer.code = "request"
  /\ fpc \notin {"fill", "tags"} => mailbuffer.tag = TagOf(request)
  /\ fpc \in {"send", "sending"} => mailbuffer.reply = None
  /\ fpc \in Awaiting /\ Unprocessed = 1 =>
       mailbuffer.code = "request" /\ mailbuffer.reply = None

\* A reply is to the request that awaits it; only a set-up reports a framebuffer,
\* and it is the one that is granted.
ReplyInv ==
  fpc \in Awaiting =>
    /\ request \in {"resolution", "update"} =>
         mailbuffer.reply.screen \in Native \cup {Requested, NoSize}
    /\ request = "setup" => \/ mailbuffer.reply = None
                            \/ mailbuffer.reply = granted /\ granted # None
    /\ request = "pitch" => mailbuffer.reply.pitch \in {0, granted.pitch}

\* The fields are what the requests before this one have shown, and the cursor is
\* no further than one row and one column off the screen.
FieldsInv ==
  /\ fields.screen.w < 16384
  /\ request \in {"resolution", "setup"} => fields.base = 0 /\ fields.pitch = 0
  /\ request \in {"pitch", "update"} =>
       /\ granted # None
       /\ fields.base = granted.base /\ fields.size = granted.size
  /\ request = "pitch" => fields.pitch = 0
  /\ request = "update" => fields.pitch = granted.pitch
  /\ fpc \in {"draw", "done"} /\ request = "update"
       => text.cols = fields.screen.w \div FONT_WIDTH
          /\ text.rows = fields.screen.h \div FONT_HEIGHT
  /\ ~(fpc \in {"draw", "done"} /\ request = "update") => text.cols = 0 /\ text.rows = 0
  /\ text.x <= text.cols /\ text.y <= text.rows

\* What has been drawn, by the request that was the last.
TouchedInv ==
  Drawn =>
    /\ request \in {"resolution", "setup"} => touched < 32768
    /\ request = "pitch" => touched < granted.base + granted.size
    /\ request = "update" => touched < ScreenEnd

IInv == TypeInv /\ CallInv /\ BufferInv /\ ReplyInv /\ FieldsInv /\ TouchedInv

-----------------------------------------------------------------------------
\* What is outstanding is counted by a number, and is in mailbox 1 or being
\* worked on.
LEMMA CountType ==
  ASSUME TypeInv
  PROVE  /\ Len(mailbox1) \in Nat /\ IsFiniteSet(working \ processed)
         /\ Cardinality(working \ processed) \in Nat
         /\ Unprocessed \in Nat
<1>1. Len(mailbox1) \in Nat
  BY LenProperties DEF TypeInv
<1>2. IsFiniteSet(working \ processed)
  BY FS_Difference DEF TypeInv
<1> QED
  BY <1>1, <1>2, FS_CardinalityType DEF Unprocessed

\* Taking a request does not make it another one.
LEMMA TakeCounts ==
  ASSUME TypeInv, M!VcTake, UNCHANGED processed
  PROVE  /\ mailbox1' \in Seq(M!Words) /\ IsFiniteSet(working') /\ processed \subseteq working'
         /\ Unprocessed' \in Nat /\ Unprocessed' <= Unprocessed
<1>1. /\ mailbox1 # <<>> /\ mailbox1' = Tail(mailbox1)
      /\ working' = working \cup {Head(mailbox1)}
  BY DEF M!VcTake
<1>2. Tail(mailbox1) \in Seq(M!Words) /\ Len(Tail(mailbox1)) = Len(mailbox1) - 1
  BY <1>1, HeadTailProperties DEF TypeInv
<1> DEFINE S == working \ processed
           T == working' \ processed
           x == Head(mailbox1)
<1>3. T = S \/ T = S \cup {x}
  BY <1>1
<1> HIDE DEF x
<1>4. IsFiniteSet(T) /\ Cardinality(T) \in Nat /\ Cardinality(T) <= Cardinality(S) + 1
      /\ Cardinality(S) \in Nat
  <2> HIDE DEF T
  <2>1. IsFiniteSet(S) /\ Cardinality(S) \in Nat
    BY CountType
  <2> HIDE DEF S
  <2>2. /\ IsFiniteSet(S \cup {x})
        /\ Cardinality(S \cup {x}) \in {Cardinality(S), Cardinality(S) + 1}
    BY <2>1, FS_AddElement
  <2> QED
    BY <1>3, <2>1, <2>2
<1>5. IsFiniteSet(working')
  BY <1>1, FS_AddElement DEF TypeInv
<1>6. Unprocessed' = Len(Tail(mailbox1)) + Cardinality(T)
  BY <1>1 DEF Unprocessed
<1> HIDE DEF T
<1> QED
  BY <1>1, <1>2, <1>4, <1>5, <1>6, CountType DEF Unprocessed, TypeInv

\* The VideoCore has something to process only while a request is outstanding.
LEMMA ProcessCounts ==
  ASSUME TypeInv, NEW w \in working \ processed, processed' = processed \cup {w},
         UNCHANGED <<mailbox1, working>>
  PROVE  /\ processed' \subseteq working'
         /\ Unprocessed >= 1 /\ Unprocessed' = Unprocessed - 1
<1> DEFINE S == working \ processed
<1>1. IsFiniteSet(S) /\ Cardinality(S) \in Nat /\ w \in S
  BY CountType
<1>2. working' \ processed' = S \ {w}
  OBVIOUS
<1>3. Cardinality(S \ {w}) = Cardinality(S) - 1 /\ Cardinality(S \ {w}) \in Nat
  <2> HIDE DEF S
  <2> QED
    BY <1>1, FS_RemoveElement, FS_CardinalityType
<1>4. Unprocessed = Len(mailbox1) + Cardinality(S)
      /\ Unprocessed' = Len(mailbox1) + Cardinality(S \ {w})
  BY <1>2 DEF Unprocessed
<1> HIDE DEF S
<1> QED
  BY <1>1, <1>3, <1>4, CountType DEF TypeInv

\* An answer is to a request that has been processed.
LEMMA AnswerCounts ==
  ASSUME TypeInv, NEW w \in processed, M!VcAnswer(w), processed' = processed \ {w}
  PROVE  /\ IsFiniteSet(working') /\ processed' \subseteq working'
         /\ Unprocessed' = Unprocessed
<1>1. working' = working \ {w} /\ mailbox1' = mailbox1
  BY DEF M!VcAnswer, M!VcSend
<1>2. working' \ processed' = working \ processed
  BY <1>1
<1> QED
  BY <1>1, <1>2, FS_RemoveElement DEF TypeInv, Unprocessed

-----------------------------------------------------------------------------
\* The steps of read_mailbox and write_mailbox, as init_framebuffer sees them.
Sends ==
  \/ fpc = "send" /\ fpc' = "sending" /\ pc' = "status" /\ UNCHANGED mailbox1
  \/ fpc = "sending" /\ fpc' = "sending" /\ pc' = "store" /\ UNCHANGED mailbox1
  \/ fpc = "sending" /\ fpc' = "receive" /\ pc' = "idle" /\ UNCHANGED mailbox1
  \/ fpc = "sending" /\ fpc' = "receive" /\ pc' = "idle" /\ mailbox1' = Append(mailbox1, data)

Receives ==
  \/ fpc = "receive" /\ fpc' = "receiving" /\ pc' = "poll" /\ UNCHANGED mailbox1
  \/ fpc = "receiving" /\ fpc' = "receiving" /\ pc' \in {"poll", "pop"} /\ UNCHANGED mailbox1
  \/ fpc = "receiving" /\ fpc' = "check" /\ pc' = "idle" /\ UNCHANGED mailbox1

LEMMA ExchangeSteps ==
  ASSUME TypeInv, CallInv, Exchange
  PROVE  /\ UNCHANGED <<working, processed, display, granted, mailbuffer, request,
                        fields, text, returned, touched>>
         /\ Sends \/ Receives
         /\ requests' \in Nat /\ (fpc' = "sending" => data' \in M!Words)
<1>0. UNCHANGED <<processed, display, granted, mailbuffer, request,
                  fields, text, returned, touched>>
  BY DEF Exchange, vc
<1>1. CASE fpc = "send" /\ M!WriteStart(Channel) /\ fpc' = "sending"
  <2>1. /\ UNCHANGED <<working, mailbox1>> /\ pc' = "status"
        /\ requests' = requests + 1 /\ requests < 4
        /\ data' = [chan |-> Channel, val |-> requests + 1]
    BY <1>1 DEF M!WriteStart, M!vc
  <2>2. data' \in M!Words
    BY <2>1 DEF TypeInv, M!Words
  <2> QED
    BY <1>0, <1>1, <2>1, <2>2 DEF TypeInv, Sends
<1>2. CASE fpc = "sending" /\ M!WriteReady /\ UNCHANGED fpc
  BY <1>0, <1>2 DEF M!WriteReady, M!vc, TypeInv, Sends
<1>3. CASE fpc = "sending" /\ M!Store /\ fpc' = "receive"
  BY <1>0, <1>3 DEF M!Store, M!vc, TypeInv, Sends
<1>4. CASE fpc = "receive" /\ M!ReadStart(Channel) /\ fpc' = "receiving"
  BY <1>0, <1>4 DEF M!ReadStart, M!vc, TypeInv, Receives
<1>5. CASE /\ fpc = "receiving"
           /\ M!PollEmpty \/ M!PollReady \/ M!Pop
           /\ fpc' = IF pc' = "idle" THEN "check" ELSE fpc
  <2>1. UNCHANGED <<working, mailbox1, requests>> /\ pc' \in {"idle", "poll", "pop"}
    BY <1>5 DEF M!PollEmpty, M!PollReady, M!Pop, M!vc
  <2> QED
    BY <1>0, <1>5, <2>1 DEF TypeInv, Receives
<1> QED
  BY <1>1, <1>2, <1>3, <1>4, <1>5 DEF Exchange

\* Only the store adds a request to the outstanding ones.
LEMMA SendsCount ==
  ASSUME TypeInv, Sends \/ Receives, UNCHANGED <<working, processed>>
  PROVE  /\ mailbox1' \in Seq(M!Words) /\ IsFiniteSet(working') /\ processed' \subseteq working'
         /\ \/ Unprocessed' = Unprocessed
            \/ Unprocessed' = Unprocessed + 1 /\ fpc = "sending" /\ fpc' = "receive"
<1>1. CASE UNCHANGED mailbox1
  BY <1>1 DEF TypeInv, Unprocessed
<1>2. CASE fpc = "sending" /\ fpc' = "receive" /\ mailbox1' = Append(mailbox1, data)
  <2>1. mailbox1' \in Seq(M!Words) /\ Len(mailbox1') = Len(mailbox1) + 1
    BY <1>2, AppendProperties DEF TypeInv
  <2>2. Len(mailbox1) \in Nat /\ Cardinality(working \ processed) \in Nat
    BY CountType
  <2>3. /\ Unprocessed' = Len(mailbox1') + Cardinality(working \ processed)
        /\ Unprocessed = Len(mailbox1) + Cardinality(working \ processed)
    BY DEF Unprocessed
  <2>4. IsFiniteSet(working') /\ processed' \subseteq working'
    BY DEF TypeInv
  <2> QED
    BY <1>2, <2>1, <2>2, <2>3, <2>4
<1> QED
  BY <1>1, <1>2 DEF Sends, Receives

\* Sending and receiving: the mailbuffer rests.
LEMMA ExchangeInv ==
  ASSUME IInv, Exchange
  PROVE  IInv'
<1>0. TypeInv /\ CallInv /\ BufferInv /\ ReplyInv /\ FieldsInv /\ TouchedInv
  BY DEF IInv
<1>1. /\ UNCHANGED <<working, processed, display, granted, mailbuffer, request,
                     fields, text, returned, touched>>
      /\ Sends \/ Receives
      /\ requests' \in Nat /\ (fpc' = "sending" => data' \in M!Words)
  BY <1>0, ExchangeSteps
<1>2. /\ mailbox1' \in Seq(M!Words) /\ IsFiniteSet(working') /\ processed' \subseteq working'
      /\ \/ Unprocessed' = Unprocessed
         \/ Unprocessed' = Unprocessed + 1 /\ fpc = "sending" /\ fpc' = "receive"
  BY <1>0, <1>1, SendsCount
<1>3. TypeInv'
  BY <1>0, <1>1, <1>2 DEF TypeInv, Sends, Receives, Awaiting
<1>4. CallInv'
  BY <1>0, <1>1 DEF CallInv, Sends, Receives
<1>5. BufferInv'
  BY <1>0, <1>1, <1>2, CountType DEF BufferInv, Sends, Receives, Awaiting
<1>6. ReplyInv'
  BY <1>0, <1>1 DEF BufferInv, ReplyInv, Sends, Receives, Awaiting, None, NoSize
<1>7. FieldsInv'
  BY <1>0, <1>1 DEF FieldsInv, Sends, Receives
<1>8. TouchedInv'
  BY <1>0, <1>1 DEF TouchedInv, Drawn, ScreenEnd,
     DrawnWidth, DrawnHeight
<1> QED
  BY <1>3, <1>4, <1>5, <1>6, <1>7, <1>8 DEF IInv

\* Filling the mailbuffer, while no request is outstanding.
LEMMA FillInv ==
  ASSUME IInv, Fill \/ FillTags
  PROVE  IInv'
<1>0. TypeInv /\ CallInv /\ BufferInv /\ ReplyInv /\ FieldsInv /\ TouchedInv
  BY DEF IInv
<1>1. /\ UNCHANGED <<mailbox1, pc, data, requests, working, processed, display, granted, request,
                     fields, text, returned, touched>>
      /\ Unprocessed' = Unprocessed
  BY DEF Fill, FillTags, mailbox, vc, Unprocessed
<1>2. CASE Fill
  <2>1. fpc = "fill" /\ fpc' = "tags"
        /\ mailbuffer' = [mailbuffer EXCEPT !.code = "request", !.tag = "torn"]
    BY <1>2 DEF Fill
  <2>2. mailbuffer'.code = "request" /\ mailbuffer' \in
             [code : {"request", "success", "error"},
                     tag : {"none", "torn", "size", "setup", "pitch"},
                     reply : Replies, walk : {"lost", "unanswered", "answered"}]
    BY <1>0, <2>1 DEF TypeInv
  <2>3. TypeInv' /\ CallInv'
    BY <1>0, <1>1, <2>1, <2>2 DEF TypeInv, CallInv, Awaiting
  <2>4. BufferInv' /\ ReplyInv'
    BY <1>0, <1>1, <2>1, <2>2 DEF BufferInv, ReplyInv, Awaiting
  <2>5. FieldsInv' /\ TouchedInv'
    BY <1>0, <1>1, <2>1 DEF FieldsInv, TouchedInv, Drawn, ScreenEnd,
       DrawnWidth, DrawnHeight
  <2> QED
    BY <2>3, <2>4, <2>5 DEF IInv
<1>3. CASE FillTags
  <2>1. fpc = "tags" /\ fpc' = "send"
        /\ mailbuffer' = [mailbuffer EXCEPT !.reply = None, !.tag = TagOf(request)]
    BY <1>3 DEF FillTags, TagOf
  <2>2. TagOf(request) \in {"size", "setup", "pitch"} /\ None \in Replies
    BY <1>0 DEF TypeInv, TagOf, Requests, None, Replies, NoSize, Displays
  <2>3. /\ mailbuffer'.code = mailbuffer.code /\ mailbuffer'.reply = None
        /\ mailbuffer'.tag = TagOf(request)
        /\ mailbuffer' \in
             [code : {"request", "success", "error"},
                     tag : {"none", "torn", "size", "setup", "pitch"},
                     reply : Replies, walk : {"lost", "unanswered", "answered"}]
    BY <1>0, <2>1, <2>2 DEF TypeInv
  <2>4. TypeInv' /\ CallInv'
    BY <1>0, <1>1, <2>1, <2>3 DEF TypeInv, CallInv, Awaiting
  <2>5. BufferInv' /\ ReplyInv'
    BY <1>0, <1>1, <2>1, <2>3 DEF BufferInv, ReplyInv, Awaiting, TagOf
  <2>6. FieldsInv' /\ TouchedInv'
    BY <1>0, <1>1, <2>1 DEF FieldsInv, TouchedInv, Drawn, ScreenEnd,
       DrawnWidth, DrawnHeight
  <2> QED
    BY <2>4, <2>5, <2>6 DEF IInv
<1> QED
  BY <1>2, <1>3

-----------------------------------------------------------------------------
\* The VideoCore takes, answers and posts without touching the mailbuffer.
LEMMA ElseInv ==
  ASSUME IInv, VcAnswers \/ VcElse
  PROVE  IInv'
<1>0. TypeInv /\ CallInv /\ BufferInv /\ ReplyInv /\ FieldsInv /\ TouchedInv
  BY DEF IInv
<1>1. /\ UNCHANGED <<mailbuffer, display, granted, screen, pc, data, requests>>
  BY DEF VcAnswers, VcElse, vc, M!VcTake, M!VcPost, M!VcAnswer, M!VcSend, M!arm
<1>2. /\ mailbox1' \in Seq(M!Words) /\ IsFiniteSet(working') /\ processed' \subseteq working'
      /\ Unprocessed' \in Nat /\ Unprocessed' <= Unprocessed
  <2>1. CASE VcAnswers
    <3>1. PICK w \in processed : M!VcAnswer(w) /\ processed' = processed \ {w}
      BY <2>1 DEF VcAnswers
    <3>2. /\ IsFiniteSet(working') /\ processed' \subseteq working'
          /\ Unprocessed' = Unprocessed
      BY <1>0, <3>1, AnswerCounts
    <3>3. mailbox1' = mailbox1
      BY <3>1 DEF M!VcAnswer, M!VcSend
    <3> QED
      BY <1>0, <3>2, <3>3, CountType DEF TypeInv
  <2>2. CASE M!VcTake /\ UNCHANGED processed
    BY <1>0, <2>2, TakeCounts
  <2>3. CASE (\E c \in {1} : M!VcPost(c)) /\ UNCHANGED processed
    <3>1. UNCHANGED <<mailbox1, working, processed>>
      BY <2>3 DEF M!VcPost, M!VcSend
    <3> QED
      BY <1>0, <3>1, CountType DEF TypeInv, Unprocessed
  <2> QED
    BY <2>1, <2>2, <2>3 DEF VcElse, vc
<1>3. TypeInv'
  BY <1>0, <1>1, <1>2 DEF TypeInv, screen
<1>4. CallInv'
  BY <1>0, <1>1 DEF CallInv, screen
<1>5. BufferInv'
  BY <1>0, <1>1, <1>2, CountType DEF BufferInv, screen
<1>6. ReplyInv'
  BY <1>0, <1>1 DEF ReplyInv, screen
<1>7. FieldsInv' /\ TouchedInv'
  BY <1>0, <1>1 DEF FieldsInv, TouchedInv, Drawn, screen, ScreenEnd,
     DrawnWidth, DrawnHeight
<1> QED
  BY <1>3, <1>4, <1>5, <1>6, <1>7 DEF IInv

\* It processes the one request that is outstanding, by the tag it was sent with.
LEMMA ProcessInv ==
  ASSUME IInv, VcProcess
  PROVE  IInv'
<1>0. TypeInv /\ CallInv /\ BufferInv /\ ReplyInv /\ FieldsInv /\ TouchedInv
  BY DEF IInv
<1>1. PICK w \in working \ processed : processed' = processed \cup {w}
  BY DEF VcProcess
<1>2. UNCHANGED <<mailbox1, working, pc, data, requests, screen>>
  BY DEF VcProcess, mailbox
<1>3. /\ processed' \subseteq working'
      /\ Unprocessed >= 1 /\ Unprocessed' = Unprocessed - 1
  BY <1>0, <1>1, <1>2, ProcessCounts
<1>4. /\ Unprocessed = 1 /\ Unprocessed' = 0
      /\ fpc \in Awaiting \cup {"draw", "done"}
      /\ mailbuffer.tag = TagOf(request)
  BY <1>0, <1>3, CountType DEF BufferInv, TypeInv
<1> DEFINE tag == mailbuffer.tag
<1>5. \E code \in {"success", "error"}, reply \in Replies,
         walk \in {"lost", "unanswered", "answered"} :
        /\ mailbuffer' = [mailbuffer EXCEPT !.code = code, !.reply = reply, !.walk = walk]
        /\ \/ reply = None
           \/ tag = "size" /\ reply.screen = display
           \/ tag = "pitch" /\ reply.pitch = granted.pitch
           \/ tag = "setup" /\ reply = granted' /\ granted' = Buffers(Requested)
        /\ \/ UNCHANGED <<display, granted>>
           \/ tag = "setup" /\ display' = Requested /\ granted' = Buffers(Requested)
  <2>1. None \in Replies
    BY DEF None, Replies, NoSize, Displays
  <2>2. CASE Refused
    BY <2>1, <2>2 DEF Refused, Reply
  <2>3. CASE ReplySize
    <3>0. display \in Displays
      BY <1>0, FramebufferAssumption DEF TypeInv
    <3>1. [None EXCEPT !.screen = display] \in Replies
          /\ [None EXCEPT !.screen = display].screen = display
      BY <3>0 DEF None, Replies
    <3> QED
      BY <2>3, <3>1 DEF ReplySize, Reply
  <2>4. CASE ReplyPitch
    <3>1. granted.pitch \in Nat
      BY <1>0, FramebufferAssumption, SMTT(30) DEF TypeInv, None, Buffers, Displays, BytesPerPixel
    <3>2. [None EXCEPT !.pitch = granted.pitch] \in Replies
          /\ [None EXCEPT !.pitch = granted.pitch].pitch = granted.pitch
      BY <3>1 DEF None, Replies, NoSize, Displays
    <3> QED
      BY <2>4, <3>2 DEF ReplyPitch, Reply
  <2>5. CASE ReplySetup
    <3>1. Buffers(Requested) \in Replies
      <4>1. Requested.w \in Nat /\ Requested.h \in Nat /\ Requested \in Displays /\ Base \in Nat
        BY FramebufferAssumption DEF Displays
      <4>2. Requested.w * Requested.h \in Nat
        BY <4>1
      <4>3. Requested.w * Requested.h * 2 \in Nat /\ Requested.w * 2 \in Nat
        BY <4>1, <4>2
      <4> QED
        BY <4>1, <4>3 DEF Buffers, Replies, BytesPerPixel
    <3>2. CASE /\ granted' = Buffers(Requested) /\ display' = Requested
               /\ Reply("success", granted', "answered")
      BY <2>5, <3>1, <3>2 DEF ReplySetup, Reply
    <3>3. CASE /\ \E walk \in {"lost", "unanswered", "answered"} :
                    Reply("success", None, walk)
               /\ UNCHANGED <<display, granted>>
      BY <2>1, <3>3 DEF Reply
    <3> QED
      BY <2>5, <3>2, <3>3 DEF ReplySetup
  <2> QED
    BY <2>2, <2>3, <2>4, <2>5 DEF VcProcess
<1>6. /\ mailbuffer' \in
             [code : {"request", "success", "error"},
                     tag : {"none", "torn", "size", "setup", "pitch"},
                     reply : Replies, walk : {"lost", "unanswered", "answered"}]
      /\ mailbuffer'.tag = tag
      /\ \/ mailbuffer'.reply = None
         \/ tag = "size" /\ mailbuffer'.reply.screen = display
         \/ tag = "pitch" /\ mailbuffer'.reply.pitch = granted.pitch
         \/ tag = "setup" /\ mailbuffer'.reply = granted' /\ granted' = Buffers(Requested)
      /\ \/ UNCHANGED <<display, granted>>
         \/ tag = "setup" /\ display' = Requested /\ granted' = Buffers(Requested)
  <2>1. PICK code \in {"success", "error"}, reply \in Replies,
              walk \in {"lost", "unanswered", "answered"} :
          /\ mailbuffer' = [mailbuffer EXCEPT !.code = code, !.reply = reply, !.walk = walk]
          /\ \/ reply = None
             \/ tag = "size" /\ reply.screen = display
             \/ tag = "pitch" /\ reply.pitch = granted.pitch
             \/ tag = "setup" /\ reply = granted' /\ granted' = Buffers(Requested)
          /\ \/ UNCHANGED <<display, granted>>
             \/ tag = "setup" /\ display' = Requested /\ granted' = Buffers(Requested)
    BY <1>5
  <2>2. /\ mailbuffer' \in
               [code : {"request", "success", "error"},
                       tag : {"none", "torn", "size", "setup", "pitch"},
                       reply : Replies, walk : {"lost", "unanswered", "answered"}]
        /\ mailbuffer'.tag = tag /\ mailbuffer'.reply = reply
    BY <1>0, <2>1 DEF TypeInv
  <2> QED
    BY <2>1, <2>2
<1>7. Buffers(Requested) # None
  BY FramebufferAssumption DEF Buffers, None
<1>8. TypeInv'
  BY <1>0, <1>2, <1>3, <1>6, FramebufferAssumption DEF TypeInv, screen
<1>9. CallInv'
  BY <1>0, <1>2 DEF CallInv, screen
<1>10. BufferInv'
  BY <1>0, <1>2, <1>4, <1>6 DEF BufferInv, screen, Awaiting
<1>11. request \in {"pitch", "update"} => UNCHANGED granted
  BY <1>4, <1>6 DEF TagOf
<1>12. ReplyInv'
  <2>1. fpc' = fpc /\ request' = request
    BY <1>2 DEF screen
  <2>2. CASE request \in {"resolution", "update"}
    BY <1>0, <1>4, <1>6, <2>1, <2>2 DEF ReplyInv, TypeInv, TagOf, None
  <2>3. CASE request = "setup"
    BY <1>4, <1>6, <1>7, <2>1, <2>3 DEF ReplyInv, TagOf
  <2>4. CASE request = "pitch"
    BY <1>4, <1>6, <1>11, <2>1, <2>4 DEF ReplyInv, TagOf, None
  <2> QED
    BY <1>0, <2>1, <2>2, <2>3, <2>4 DEF TypeInv, Requests
<1>13. FieldsInv'
  BY <1>0, <1>2, <1>11 DEF FieldsInv, screen
<1>14. TouchedInv'
  BY <1>0, <1>2, <1>11 DEF TouchedInv, Drawn, screen, ScreenEnd,
     DrawnWidth, DrawnHeight
<1> QED
  BY <1>8, <1>9, <1>10, <1>12, <1>13, <1>14 DEF IInv

-----------------------------------------------------------------------------
\* What the code makes of the mailbuffer.  A request that is outstanding is not
\* followed by another: nothing in the mailbuffer looks like an answer to it.
LEMMA AnsweredIsProcessed ==
  ASSUME IInv, fpc = "check", Succeeded \/ mailbuffer.reply.pitch # 0
  PROVE  Unprocessed = 0
<1>1. Unprocessed \in Nat /\ Unprocessed <= 1
  BY CountType DEF IInv, BufferInv
<1>2. ASSUME Unprocessed = 1 PROVE FALSE
  <2>1. mailbuffer.code = "request" /\ mailbuffer.reply = None
    BY <1>2 DEF IInv, BufferInv, Awaiting
  <2> QED
    BY <2>1 DEF Succeeded, None
<1> QED
  BY <1>1, <1>2

\* The size that is read is a display's, or QEMU's.
LEMMA ResolutionType ==
  ASSUME IInv, fpc = "check", request \in {"resolution", "update"}
  PROVE  Resolution \in Displays /\ Resolution.w < 16384
<1>1. mailbuffer.reply.screen \in Native \cup {Requested, NoSize}
  BY DEF IInv, ReplyInv, Awaiting
<1>2. Qemu \in Displays /\ Qemu.w < 16384
  BY DEF Qemu, Displays
<1>3. \A s \in Native \cup {Requested} : s \in Displays /\ s.w < 16384
  BY FramebufferAssumption
<1> QED
  BY <1>1, <1>2, <1>3 DEF Resolution

\* Each request goes on to the next with what its reply shows, or to the drawing.
LEMMA CheckInv ==
  ASSUME IInv, CheckResolution \/ CheckSetup \/ CheckPitch \/ CheckUpdate
  PROVE  IInv'
<1>0. TypeInv /\ CallInv /\ BufferInv /\ ReplyInv /\ FieldsInv /\ TouchedInv
  BY DEF IInv
<1>1. /\ fpc = "check" /\ pc = "idle" /\ returned = 0 /\ touched = -1
      /\ UNCHANGED <<mailbox1, working, pc, data, requests, processed, display,
                     granted, mailbuffer, touched>>
      /\ Unprocessed' = Unprocessed
  BY <1>0 DEF CheckResolution, CheckSetup, CheckPitch, CheckUpdate, Check, vc,
              mailbox, CallInv, Unprocessed
<1>2. CASE CheckResolution
  <2>1. request = "resolution"
    BY <1>2 DEF CheckResolution, Check
  <2>2. CASE Succeeded
    <3>1. fields' = [fields EXCEPT !.screen = Resolution] /\ request' = "setup"
          /\ fpc' = "fill" /\ UNCHANGED <<returned, text>>
      BY <1>2, <2>2 DEF CheckResolution, Proceed
    <3>2. Unprocessed = 0
      BY <1>1, <2>2, AnsweredIsProcessed
    <3>3. Resolution \in Displays /\ Resolution.w < 16384
      BY <1>1, <2>1, ResolutionType
    <3>4. /\ fields' \in Replies /\ fields'.screen.w < 16384
          /\ fields'.base = fields.base /\ fields'.pitch = fields.pitch
      BY <1>0, <3>1, <3>3, SMTT(30) DEF TypeInv, Replies
    <3>5. TypeInv' /\ CallInv'
      BY <1>0, <1>1, <3>1, <3>4 DEF TypeInv, CallInv, Awaiting, Requests
    <3>6. BufferInv' /\ ReplyInv' /\ TouchedInv'
      BY <1>0, <1>1, <3>1, <3>2 DEF BufferInv, ReplyInv, TouchedInv, Awaiting, Drawn
    <3>7. FieldsInv'
      BY <1>0, <1>1, <2>1, <3>1, <3>4 DEF FieldsInv
    <3> QED
      BY <3>5, <3>6, <3>7 DEF IInv
  <2>3. CASE ~Succeeded
    <3>1. returned' = -1 /\ fpc' = "done" /\ UNCHANGED <<request, fields, text>>
      BY <1>2, <2>3 DEF CheckResolution
    <3>2. TypeInv' /\ CallInv'
      BY <1>0, <1>1, <2>1, <3>1 DEF TypeInv, CallInv, Awaiting
    <3>3. BufferInv' /\ ReplyInv' /\ TouchedInv'
      BY <1>0, <1>1, <3>1 DEF BufferInv, ReplyInv, TouchedInv, Awaiting, Drawn
    <3>4. FieldsInv'
      BY <1>0, <1>1, <2>1, <3>1 DEF FieldsInv
    <3> QED
      BY <3>2, <3>3, <3>4 DEF IInv
  <2> QED
    BY <2>2, <2>3
<1>3. CASE CheckSetup
  <2>1. request = "setup"
    BY <1>3 DEF CheckSetup, Check
  <2>2. mailbuffer.reply = None \/ (mailbuffer.reply = granted /\ granted # None)
    BY <1>0, <1>1, <2>1 DEF ReplyInv, Awaiting
  <2>3. mailbuffer.reply \in Replies /\ fields \in Replies
    BY <1>0 DEF TypeInv
  <2>4. fields' \in Replies /\ fields'.screen = fields.screen /\ fields'.pitch = fields.pitch
    BY <1>3, <2>3 DEF CheckSetup, Replies
  <2>5. CASE Succeeded /\ fpc' = "fill" /\ request' = "pitch"
    <3>1. /\ mailbuffer.reply.base # 0 /\ UNCHANGED <<returned, text>>
          /\ fields' = [fields EXCEPT !.base = mailbuffer.reply.base,
                                      !.size = mailbuffer.reply.size]
      BY <1>1, <1>3, <2>1, <2>5 DEF CheckSetup, Fail, Proceed
    <3>2. /\ granted # None /\ fields'.base = granted.base
          /\ fields'.size = granted.size
      BY <2>2, <2>3, <3>1 DEF None, Replies
    <3>3. Unprocessed = 0
      BY <1>1, <2>5, AnsweredIsProcessed
    <3>4. TypeInv' /\ CallInv'
      BY <1>0, <1>1, <2>4, <2>5, <3>1 DEF TypeInv, CallInv, Awaiting, Requests
    <3>5. BufferInv' /\ ReplyInv' /\ TouchedInv'
      BY <1>0, <1>1, <2>5, <3>3 DEF BufferInv, ReplyInv, TouchedInv, Awaiting, Drawn
    <3>6. FieldsInv'
      BY <1>0, <1>1, <2>1, <2>4, <2>5, <3>1, <3>2 DEF FieldsInv
    <3> QED
      BY <3>4, <3>5, <3>6 DEF IInv
  <2>6. CASE /\ fpc' = "draw" /\ returned' \in {-1, -2, -3, -4}
             /\ UNCHANGED <<request, text>>
    <3>1. fields'.base = 0
      <4>1. fields.base = 0
        BY <1>0, <2>1 DEF FieldsInv
      <4>2. CASE UNCHANGED fields
        BY <4>1, <4>2
      <4>3. CASE /\ mailbuffer.reply.base = 0 \/ mailbuffer.reply.size = 0
                 /\ fields' = [fields EXCEPT !.base = mailbuffer.reply.base,
                                             !.size = mailbuffer.reply.size]
        <5>1. mailbuffer.reply = None
          <6>1. granted = None \/ (granted.base # 0 /\ granted.size # 0)
            <7>1. Requested.w * Requested.h >= 16384 /\ Base # 0 /\ Requested.w \in Nat
                  /\ Requested.h \in Nat
              BY FramebufferAssumption DEF Displays
            <7>2. Requested.w * Requested.h * 2 # 0
              BY <7>1
            <7> QED
              BY <1>0, <7>1, <7>2 DEF TypeInv, Buffers, BytesPerPixel
          <6> QED
            BY <2>2, <4>3, <6>1
        <5> QED
          BY <2>3, <4>3, <5>1 DEF None, Replies
      <4> QED
        BY <1>3, <2>6, <4>2, <4>3 DEF CheckSetup, Fail, Proceed
    <3>2. TypeInv' /\ CallInv'
      BY <1>0, <1>1, <2>1, <2>4, <2>6 DEF TypeInv, CallInv, Awaiting
    <3>3. BufferInv' /\ ReplyInv' /\ TouchedInv'
      BY <1>0, <1>1, <2>6 DEF BufferInv, ReplyInv, TouchedInv, Awaiting, Drawn
    <3>4. FieldsInv'
      BY <1>0, <1>1, <2>1, <2>4, <2>6, <3>1 DEF FieldsInv
    <3> QED
      BY <3>2, <3>3, <3>4 DEF IInv
  <2> QED
    BY <1>3, <2>5, <2>6 DEF CheckSetup, Fail, Proceed
<1>4. CASE CheckPitch
  <2>1. request = "pitch" /\ fields' = [fields EXCEPT !.pitch = mailbuffer.reply.pitch]
    BY <1>4 DEF CheckPitch, Check
  <2>2. mailbuffer.reply.pitch \in {0, granted.pitch}
    BY <1>0, <1>1, <2>1 DEF ReplyInv, Awaiting
  <2>3. /\ fields' \in Replies /\ fields'.pitch = mailbuffer.reply.pitch
        /\ fields'.base = fields.base /\ fields'.size = fields.size
        /\ fields'.screen = fields.screen
    BY <1>0, <2>1 DEF TypeInv, Replies
  <2>4. CASE mailbuffer.reply.pitch = 0
    <3>1. returned' = -5 /\ fpc' = "draw" /\ UNCHANGED <<request, text>>
      BY <1>4, <2>4 DEF CheckPitch, Fail
    <3>2. TypeInv' /\ CallInv'
      BY <1>0, <1>1, <2>1, <2>3, <3>1 DEF TypeInv, CallInv, Awaiting
    <3>3. BufferInv' /\ ReplyInv' /\ TouchedInv'
      BY <1>0, <1>1, <3>1 DEF BufferInv, ReplyInv, TouchedInv, Awaiting, Drawn
    <3>4. FieldsInv'
      BY <1>0, <1>1, <2>1, <2>3, <2>4, <3>1 DEF FieldsInv
    <3> QED
      BY <3>2, <3>3, <3>4 DEF IInv
  <2>5. CASE mailbuffer.reply.pitch # 0
    <3>1. request' = "update" /\ fpc' = "fill" /\ UNCHANGED <<returned, text>>
      BY <1>4, <2>5 DEF CheckPitch, Proceed
    <3>2. Unprocessed = 0
      BY <1>1, <2>5, AnsweredIsProcessed
    <3>3. TypeInv' /\ CallInv'
      BY <1>0, <1>1, <2>3, <3>1 DEF TypeInv, CallInv, Awaiting, Requests
    <3>4. BufferInv' /\ ReplyInv' /\ TouchedInv'
      BY <1>0, <1>1, <3>1, <3>2 DEF BufferInv, ReplyInv, TouchedInv, Awaiting, Drawn
    <3>5. FieldsInv'
      BY <1>0, <1>1, <2>1, <2>2, <2>3, <2>5, <3>1 DEF FieldsInv
    <3> QED
      BY <3>3, <3>4, <3>5 DEF IInv
  <2> QED
    BY <2>4, <2>5
<1>5. CASE CheckUpdate
  <2>1. /\ request = "update" /\ request' = request /\ returned' = 0 /\ fpc' = "draw"
        /\ fields' = IF Succeeded THEN [fields EXCEPT !.screen = Resolution] ELSE fields
        /\ text' = [text EXCEPT !.cols = fields'.screen.w \div FONT_WIDTH,
                                !.rows = fields'.screen.h \div FONT_HEIGHT]
    BY <1>5 DEF CheckUpdate, Check
  <2>2. Resolution \in Displays /\ Resolution.w < 16384
    BY <1>1, <2>1, ResolutionType
  <2>3. /\ fields' \in Replies /\ fields'.screen.w < 16384 /\ fields'.base = fields.base
        /\ fields'.size = fields.size /\ fields'.pitch = fields.pitch
    BY <1>0, <2>1, <2>2, SMTT(30) DEF TypeInv, FieldsInv, Replies
  <2>4. /\ text' \in [cols : Nat, rows : Nat, x : Nat, y : Nat]
        /\ text'.cols = fields'.screen.w \div FONT_WIDTH
        /\ text'.rows = fields'.screen.h \div FONT_HEIGHT
        /\ text'.x = 0 /\ text'.y = 0 /\ text'.cols \in Nat /\ text'.rows \in Nat
    <3>1. fields'.screen.w \in Nat /\ fields'.screen.h \in Nat
      BY <2>3 DEF Replies, Displays
    <3>2. fields'.screen.w \div FONT_WIDTH \in Nat /\ fields'.screen.h \div FONT_HEIGHT \in Nat
      BY <3>1 DEF FONT_WIDTH, FONT_HEIGHT
    <3>3. text.x = 0 /\ text.y = 0 /\ text \in [cols : Nat, rows : Nat, x : Nat, y : Nat]
      BY <1>0, <1>1 DEF TypeInv, FieldsInv
    <3> QED
      BY <2>1, <3>2, <3>3
  <2>5. TypeInv' /\ CallInv'
    BY <1>0, <1>1, <2>1, <2>3, <2>4 DEF TypeInv, CallInv, Awaiting
  <2>6. BufferInv' /\ ReplyInv' /\ TouchedInv'
    BY <1>0, <1>1, <2>1 DEF BufferInv, ReplyInv, TouchedInv, Awaiting, Drawn
  <2>7. FieldsInv'
    BY <1>0, <1>1, <2>1, <2>3, <2>4 DEF FieldsInv
  <2> QED
    BY <2>5, <2>6, <2>7 DEF IInv
<1> QED
  BY <1>2, <1>3, <1>4, <1>5

-----------------------------------------------------------------------------
\* Drawing.  A product grows with its factors.
LEMMA Product ==
  ASSUME NEW a \in Nat, NEW b \in Nat, NEW c \in Nat, a <= b
  PROVE  a * c \in Nat /\ b * c \in Nat /\ a * c <= b * c
OBVIOUS

\* The largest of some numbers is one of them, and no smaller than the others.
LEMMA MaxOfTwo ==
  ASSUME NEW a \in Int, NEW b \in Int
  PROVE  Max({a, b}) \in {a, b} /\ Max({a, b}) >= a /\ Max({a, b}) >= b
<1>1. \E m \in {a, b} : \A n \in {a, b} : m >= n
  OBVIOUS
<1> QED
  BY <1>1 DEF Max

LEMMA MaxOfSix ==
  ASSUME NEW a \in Int, NEW b \in Int, NEW c \in Int,
         NEW d \in Int, NEW e \in Int, NEW f \in Int
  PROVE  Max({a, b, c, d, e, f}) \in {a, b, c, d, e, f}
<1> DEFINE S == {a, b, c, d, e, f}
<1>1. \E m \in S : \A n \in S : m >= n
  <2>1. PICK p \in {a, b, c} : p >= a /\ p >= b /\ p >= c
    OBVIOUS
  <2>2. PICK q \in {d, e, f} : q >= d /\ q >= e /\ q >= f
    OBVIOUS
  <2>3. CASE p >= q
    BY <2>1, <2>2, <2>3
  <2>4. CASE q >= p
    BY <2>1, <2>2, <2>4
  <2> QED
    BY <2>1, <2>2, <2>3, <2>4
<1> HIDE DEF S
<1>2. Max(S) \in S
  BY <1>1 DEF Max
<1> QED
  BY <1>2 DEF S

\* Where an address may be.
Within(a) ==
  /\ a \in Nat
  /\ request \in {"resolution", "setup"} => a < 32768
  /\ request = "pitch" => a < granted.base + granted.size
  /\ request = "update" => a < ScreenEnd

\* The framebuffer that may be granted is one of the size asked for.
LEMMA Grant ==
  ASSUME TypeInv, granted # None
  PROVE  /\ granted.base = Base /\ granted.screen = Requested
         /\ granted.size = Requested.w * Requested.h * 2
         /\ granted.pitch = Requested.w * 2
BY DEF TypeInv, Buffers, BytesPerPixel

\* print_pixel computes an address.
LEMMA AddressType ==
  ASSUME TypeInv, NEW x \in Nat, NEW y \in Nat
  PROVE  Address(x, y) \in Nat /\ Address(x, y) = fields.base + x * 2 + y * fields.pitch
<1>1. fields.base \in Nat /\ fields.pitch \in Nat
  BY DEF TypeInv, Replies
<1>2. y * fields.pitch \in Nat
  BY <1>1
<1> QED
  BY <1>1, <1>2 DEF Address, BytesPerPixel

\* An address without a pitch reaches no further than a row.
LEMMA WithoutPitch ==
  ASSUME TypeInv, FieldsInv, request # "update",
         NEW x \in Nat, x < 16384, NEW y \in Nat
  PROVE  Within(Address(x, y))
<1>1. fields.pitch = 0 /\ request \in Requests
  BY DEF FieldsInv, TypeInv, Requests
<1>2. Address(x, y) \in Nat /\ Address(x, y) = fields.base + x * 2
  <2>1. Address(x, y) \in Nat /\ Address(x, y) = fields.base + x * 2 + y * 0
    BY <1>1, AddressType
  <2>2. y * 0 = 0 /\ fields.base \in Nat
    BY DEF TypeInv, Replies
  <2> QED
    BY <2>1, <2>2
<1>3. CASE request \in {"resolution", "setup"}
  BY <1>2, <1>3 DEF FieldsInv, Within
<1>4. CASE request = "pitch"
  <2>1. granted # None /\ fields.base = granted.base
    BY <1>4 DEF FieldsInv
  <2>2. granted.size = Requested.w * Requested.h * 2 /\ granted.base = Base
    BY <2>1, Grant
  <2>3. /\ Base \in Nat /\ Requested.w * Requested.h >= 16384
        /\ Requested.w \in Nat /\ Requested.h \in Nat
    BY FramebufferAssumption DEF Displays
  <2> DEFINE n == Requested.w * Requested.h
  <2>4. n \in Nat
    BY <2>3
  <2> HIDE DEF n
  <2>5. granted.size = n * 2 /\ n >= 16384
    BY <2>2, <2>3 DEF n
  <2>6. x * 2 < granted.size /\ granted.size \in Nat
    BY <2>4, <2>5
  <2> QED
    BY <1>2, <1>4, <2>1, <2>2, <2>3, <2>6 DEF Within
<1> QED
  BY <1>1, <1>3, <1>4 DEF Requests

\* What is drawn is as large as the screen, and as the size asked for.
LEMMA DrawnSize ==
  ASSUME TypeInv
  PROVE  /\ DrawnWidth \in Nat /\ DrawnHeight \in Nat
         /\ fields.screen.w <= DrawnWidth /\ fields.screen.h <= DrawnHeight
         /\ Requested.w <= DrawnWidth /\ Requested.h <= DrawnHeight
<1> DEFINE a == fields.screen.w
           b == Requested.w
           c == fields.screen.h
           d == Requested.h
<1>1. a \in Nat /\ b \in Nat /\ c \in Nat /\ d \in Nat
  BY FramebufferAssumption DEF TypeInv, Replies, Displays
<1>2. DrawnWidth = Max({a, b}) /\ DrawnHeight = Max({c, d})
  BY DEF DrawnWidth, DrawnHeight
<1> HIDE DEF a, b, c, d
<1>3. /\ Max({a, b}) \in {a, b} /\ Max({a, b}) >= a /\ Max({a, b}) >= b
      /\ Max({c, d}) \in {c, d} /\ Max({c, d}) >= c /\ Max({c, d}) >= d
  BY <1>1, MaxOfTwo
<1>4. /\ DrawnWidth \in Nat /\ DrawnHeight \in Nat
      /\ a <= DrawnWidth /\ c <= DrawnHeight /\ b <= DrawnWidth /\ d <= DrawnHeight
  BY <1>1, <1>2, <1>3
<1> QED
  BY <1>4 DEF a, b, c, d

\* One with the pitch that was granted, up to seven rows below what is drawn and
\* seventeen columns right of it.
LEMMA WithPitch ==
  ASSUME TypeInv, FieldsInv, request = "update",
         NEW x \in Nat, NEW y \in Nat, x <= DrawnWidth + 17, y <= DrawnHeight + 7
  PROVE  Within(Address(x, y))
<1> DEFINE p == fields.pitch
           h == DrawnHeight + 7
<1>1. fields.base \in Nat /\ p \in Nat
  BY DEF TypeInv, Replies
<1>2. Address(x, y) \in Nat /\ Address(x, y) = fields.base + x * 2 + y * p
  BY AddressType
<1>3. DrawnWidth \in Nat /\ DrawnHeight \in Nat /\ h \in Nat
  BY DrawnSize
<1>4. y * p \in Nat /\ h * p \in Nat /\ y * p <= h * p
  BY <1>1, <1>3, Product
<1>5. ScreenEnd = fields.base + h * p + (DrawnWidth + 18) * 2
  <2>1. DrawnHeight + FONT_HEIGHT - 1 = h
    BY <1>3 DEF FONT_HEIGHT
  <2>2. (DrawnWidth + FONT_WIDTH + PixelWidth) * BytesPerPixel = (DrawnWidth + 18) * 2
    BY <1>3 DEF FONT_WIDTH, PixelWidth, BytesPerPixel
  <2> QED
    BY <2>1, <2>2 DEF ScreenEnd
<1> DEFINE rows == y * p
           most == h * p
<1>6. Address(x, y) < ScreenEnd
  <2>1. rows \in Nat /\ most \in Nat /\ rows <= most
    BY <1>4
  <2>2. Address(x, y) = fields.base + x * 2 + rows
        /\ ScreenEnd = fields.base + most + (DrawnWidth + 18) * 2
    BY <1>2, <1>5
  <2> HIDE DEF rows, most
  <2> QED
    BY <1>1, <1>3, <2>1, <2>2
<1> QED
  BY <1>2, <1>6 DEF Within

\* The cursor is on the screen, or a row or a column past its end.
LEMMA CharacterWithin ==
  ASSUME TypeInv, FieldsInv, fpc \in {"draw", "done"}
  PROVE  Within(CharacterEnd(PixelWidth))
<1> DEFINE x == text.x * 8 + 16
           y == text.y * 8 + 7
<1>1. text.x \in Nat /\ text.y \in Nat /\ text.cols \in Nat /\ text.rows \in Nat
      /\ text.x <= text.cols /\ text.y <= text.rows
  BY DEF TypeInv, FieldsInv
<1>2. CharacterEnd(PixelWidth) = Address(x, y)
  <2>1. /\ text.x * FONT_WIDTH + FONT_WIDTH - 1 + PixelWidth - 1 = x
        /\ text.y * FONT_HEIGHT + FONT_HEIGHT - 1 = y
    BY <1>1 DEF FONT_WIDTH, FONT_HEIGHT, PixelWidth
  <2> QED
    BY <2>1 DEF CharacterEnd
<1>3. x \in Nat /\ y \in Nat
  BY <1>1
<1>4. CASE request = "update"
  <2>1. text.cols = fields.screen.w \div 8 /\ text.rows = fields.screen.h \div 8
    BY <1>4 DEF FieldsInv, FONT_WIDTH, FONT_HEIGHT
  <2>2. fields.screen.w \in Nat /\ fields.screen.h \in Nat
    BY DEF TypeInv, Replies, Displays
  <2>3. x <= DrawnWidth + 17 /\ y <= DrawnHeight + 7
    BY <1>1, <2>1, <2>2, DrawnSize
  <2> HIDE DEF x, y
  <2> QED
    BY <1>2, <1>3, <1>4, <2>3, WithPitch
<1>5. CASE request # "update"
  <2>1. x = 16
    BY <1>1, <1>5 DEF FieldsInv
  <2> HIDE DEF x, y
  <2>2. x < 16384
    BY <2>1
  <2> QED
    BY <1>2, <1>3, <1>5, <2>2, WithoutPitch
<1> QED
  BY <1>4, <1>5

\* A point that is drawn whatever the size that was reported.
LEMMA PointWithin ==
  ASSUME TypeInv, FieldsInv, NEW x \in Nat, NEW y \in Nat, x < 16384,
         x <= Requested.w + 17, y <= Requested.h + 7
  PROVE  Within(Address(x, y))
<1>1. CASE request = "update"
  <2>1. Requested.w \in Nat /\ Requested.h \in Nat
    BY FramebufferAssumption DEF Displays
  <2>2. x <= DrawnWidth + 17 /\ y <= DrawnHeight + 7
    BY <2>1, DrawnSize
  <2> QED
    BY <1>1, <2>2, WithPitch
<1>2. CASE request # "update"
  BY <1>2, WithoutPitch
<1> QED
  BY <1>1, <1>2

\* The background, with the row and the column that are too many.
LEMMA ScreenWithin ==
  ASSUME TypeInv, FieldsInv
  PROVE  Within(RectangleEnd(fields.screen.w, fields.screen.h, 0, 0))
<1> DEFINE w == fields.screen.w
           h == fields.screen.h
<1>1. w \in Nat /\ h \in Nat /\ w < 16384
  BY SMTT(30) DEF TypeInv, FieldsInv, Replies, Displays
<1>2. RectangleEnd(w, h, 0, 0) = Address(w, h)
  <2>1. 0 + w = w /\ 0 + h = h
    BY <1>1
  <2> QED
    BY <2>1 DEF RectangleEnd
<1>3. w <= DrawnWidth + 17 /\ h <= DrawnHeight + 7
  BY <1>1, DrawnSize
<1>4. CASE request = "update"
  BY <1>1, <1>2, <1>3, <1>4, WithPitch
<1>5. CASE request # "update"
  BY <1>1, <1>2, <1>5, WithoutPitch
<1> QED
  BY <1>4, <1>5

\* The furthest of the six is the end of one of them.
LEMMA DrawInv ==
  ASSUME IInv, Draw
  PROVE  IInv'
<1>0. TypeInv /\ CallInv /\ BufferInv /\ ReplyInv /\ FieldsInv /\ TouchedInv
  BY DEF IInv
<1>1. /\ fpc = "draw" /\ fpc' = "done"
      /\ UNCHANGED <<mailbox1, working, pc, data, requests, processed, display,
                     granted, mailbuffer, request, fields, text, returned>>
      /\ Unprocessed' = Unprocessed
  BY DEF Draw, vc, mailbox, Unprocessed
<1> DEFINE w == Requested.w
           h == Requested.h
           a == RectangleEnd(fields.screen.w, fields.screen.h, 0, 0)
           b == Address(10, 10)
           c == Address(w \div 4, h \div 4)
           d == RectangleEnd(w, 1, 0, h \div 4)
           e == RectangleEnd(1, h, (w \div 4) * 3, 0)
           f == CharacterEnd(PixelWidth)
<1>2. w \in Nat /\ h \in Nat /\ w < 16384 /\ h >= 3
  BY FramebufferAssumption DEF Displays
<1>3. Within(a) /\ Within(f)
  BY <1>0, <1>1, ScreenWithin, CharacterWithin
<1>4. Within(b)
  <2>1. 10 <= w + 17 /\ 10 <= h + 7
    BY <1>2
  <2> HIDE DEF w, h
  <2> QED
    BY <1>0, <2>1, PointWithin DEF w, h
<1>5. Within(c)
  <2>1. /\ w \div 4 \in Nat /\ h \div 4 \in Nat /\ w \div 4 < 16384
        /\ w \div 4 <= w + 17 /\ h \div 4 <= h + 7
    BY <1>2
  <2> QED
    BY <1>0, <2>1, PointWithin
<1>6. Within(d)
  <2>1. /\ 0 + w = w /\ h \div 4 + 1 \in Nat
        /\ w <= w + 17 /\ h \div 4 + 1 <= h + 7
    BY <1>2
  <2>2. d = Address(w, h \div 4 + 1)
    BY <2>1 DEF RectangleEnd
  <2> QED
    BY <1>0, <1>2, <2>1, <2>2, PointWithin
<1>7. Within(e)
  <2> DEFINE x == (w \div 4) * 3 + 1
  <2>1. x \in Nat /\ x < 16384 /\ x <= w + 17 /\ 0 + h = h /\ h <= h + 7
    BY <1>2
  <2>2. e = Address(x, h)
    BY <2>1 DEF RectangleEnd
  <2> QED
    BY <1>0, <1>2, <2>1, <2>2, PointWithin
<1>8. touched' \in {a, b, c, d, e, f}
  <2>1. touched' = Max({a, b, c, d, e, f})
    BY DEF Draw
  <2>2. a \in Int /\ b \in Int /\ c \in Int /\ d \in Int /\ e \in Int /\ f \in Int
    BY <1>3, <1>4, <1>5, <1>6, <1>7 DEF Within
  <2> HIDE DEF a, b, c, d, e, f
  <2> QED
    BY <2>1, <2>2, MaxOfSix
<1>9. Within(touched')
  <2> HIDE DEF a, b, c, d, e, f
  <2> QED
    BY <1>3, <1>4, <1>5, <1>6, <1>7, <1>8
<1> HIDE DEF a, b, c, d, e, f
<1>10. TypeInv' /\ CallInv'
  BY <1>0, <1>1, <1>9 DEF TypeInv, CallInv, Awaiting, Within
<1>11. BufferInv' /\ ReplyInv'
  BY <1>0, <1>1 DEF BufferInv, ReplyInv, Awaiting
<1>12. FieldsInv'
  BY <1>0, <1>1 DEF FieldsInv
<1>13. TouchedInv'
  <2>1. ScreenEnd' = ScreenEnd
    BY <1>1 DEF ScreenEnd, DrawnWidth, DrawnHeight
  <2> QED
    BY <1>1, <1>9, <2>1 DEF TouchedInv, Within
<1> QED
  BY <1>10, <1>11, <1>12, <1>13 DEF IInv

\* Whoever sets the cursor, and whatever prints.
LEMMA ClientInv ==
  ASSUME IInv, Client
  PROVE  IInv'
<1>0. TypeInv /\ CallInv /\ BufferInv /\ ReplyInv /\ FieldsInv /\ TouchedInv
  BY DEF IInv
<1>1. ASSUME NEW x \in Cursors, NEW y \in Cursors, SetCursor(x, y) PROVE IInv'
  <2>1. /\ fpc = "done"
        /\ UNCHANGED <<mailbox1, working, pc, data, requests, processed, display,
                       granted, mailbuffer, fpc, request, fields, returned, touched>>
        /\ Unprocessed' = Unprocessed
    BY <1>1 DEF SetCursor, vc, mailbox, Unprocessed
  <2>2. x \in Nat /\ y \in Nat
    BY FramebufferAssumption
  <2>3. /\ text' \in [cols : Nat, rows : Nat, x : Nat, y : Nat]
        /\ text'.cols = text.cols /\ text'.rows = text.rows
        /\ text'.x <= text.cols /\ text'.y <= text.rows
    <3> DEFINE p == IF x > text.cols THEN text.cols ELSE x
               q == IF y > text.rows THEN text.rows ELSE y
    <3>1. text \in [cols : Nat, rows : Nat, x : Nat, y : Nat]
      BY <1>0 DEF TypeInv
    <3>2. p \in Nat /\ q \in Nat /\ p <= text.cols /\ q <= text.rows
      BY <2>2, <3>1
    <3>3. text' = [text EXCEPT !.x = p, !.y = q]
      BY <1>1 DEF SetCursor
    <3> HIDE DEF p, q
    <3> QED
      BY <3>1, <3>2, <3>3
  <2>4. TypeInv' /\ CallInv' /\ BufferInv' /\ ReplyInv' /\ TouchedInv'
    BY <1>0, <2>1, <2>3 DEF TypeInv, CallInv, BufferInv, ReplyInv, TouchedInv, Awaiting, Drawn,
                            ScreenEnd, DrawnWidth, DrawnHeight
  <2>5. FieldsInv'
    BY <1>0, <2>1, <2>3 DEF FieldsInv
  <2> QED
    BY <2>4, <2>5 DEF IInv
<1>2. CASE PrintCharacter
  <2>1. /\ fpc = "done"
        /\ touched' \in {touched, Max({touched, CharacterEnd(PixelWidth)})}
        /\ UNCHANGED <<mailbox1, working, pc, data, requests, processed, display,
                       granted, mailbuffer, fpc, request, fields, text, returned>>
        /\ Unprocessed' = Unprocessed
    BY <1>2 DEF PrintCharacter, vc, mailbox, Unprocessed
  <2>2. Within(CharacterEnd(PixelWidth)) /\ touched \in Int
    BY <1>0, <2>1, CharacterWithin DEF TypeInv
  <2>3. touched' \in {touched, CharacterEnd(PixelWidth)}
    <3> DEFINE f == CharacterEnd(PixelWidth)
    <3>1. f \in Int /\ touched \in Int
      BY <2>2 DEF Within
    <3>2. touched' \in {touched, Max({touched, f})}
      BY <2>1
    <3> HIDE DEF f
    <3>3. Max({touched, f}) \in {touched, f}
      BY <3>1, MaxOfTwo
    <3>4. touched' \in {touched, f}
      BY <3>2, <3>3
    <3> QED
      BY <3>4 DEF f
  <2>4. TypeInv' /\ CallInv'
    BY <1>0, <2>1, <2>2, <2>3 DEF TypeInv, CallInv, Within
  <2>5. BufferInv' /\ ReplyInv' /\ FieldsInv'
    BY <1>0, <2>1 DEF BufferInv, ReplyInv, FieldsInv, Awaiting
  <2>6. TouchedInv'
    <3>1. ScreenEnd' = ScreenEnd
      BY <2>1 DEF ScreenEnd, DrawnWidth, DrawnHeight
    <3>2. CASE touched' = CharacterEnd(PixelWidth)
      BY <2>1, <2>2, <3>1, <3>2 DEF TouchedInv, Within
    <3>3. CASE touched' = touched
      BY <1>0, <2>1, <3>1, <3>3 DEF TouchedInv, Drawn
    <3> QED
      BY <2>3, <3>2, <3>3
  <2> QED
    BY <2>4, <2>5, <2>6 DEF IInv
<1> QED
  BY <1>1, <1>2 DEF Client

-----------------------------------------------------------------------------
\* Nothing is outstanding, filled in or drawn at first.
LEMMA InitIInv == Init => IInv
<1> SUFFICES ASSUME Init PROVE IInv
  OBVIOUS
<1>1. /\ mailbox1 = <<>> /\ working = {} /\ pc = "idle" /\ requests = 0
      /\ processed = {}
  BY DEF Init, M!Init
<1>2. None \in Replies /\ None.screen = NoSize /\ None.base = 0 /\ None.pitch = 0
      /\ NoSize.w = 0
  BY DEF None, Replies, NoSize, Displays
<1>3. Unprocessed = 0
  <2>1. working \ processed = {}
    BY <1>1
  <2> QED
    BY <1>1, <2>1, EmptySeq, FS_EmptySet DEF Unprocessed
<1>4. TypeInv
  <2>1. mailbox1 \in Seq(M!Words) /\ IsFiniteSet(working)
    BY <1>1, EmptySeq, FS_EmptySet
  <2> QED
    BY <1>1, <1>2, <2>1 DEF Init, TypeInv, Requests
<1> QED
  BY <1>1, <1>2, <1>3, <1>4 DEF Init, IInv, CallInv, BufferInv, ReplyInv, FieldsInv,
                            TouchedInv, Drawn, Awaiting

\* Every step of the ARM, the VideoCore and the clients keeps the invariant.
LEMMA StepIInv == IInv /\ [Next]_vars => IInv'
<1> SUFFICES ASSUME IInv, [Next]_vars PROVE IInv'
  OBVIOUS
<1>1. CASE UNCHANGED vars
  <2>1. Unprocessed' = Unprocessed
    BY <1>1 DEF vars, mailbox, vc, Unprocessed
  <2> QED
    BY <1>1, <2>1 DEF vars, mailbox, vc, screen, IInv, TypeInv, CallInv, BufferInv,
                      ReplyInv, FieldsInv, TouchedInv, Drawn, ScreenEnd, DrawnWidth,
                      DrawnHeight
<1> QED
  BY <1>1, FillInv, ExchangeInv, CheckInv, DrawInv, ClientInv, ProcessInv, ElseInv
     DEF Next, Arm

\* The invariant holds in every reachable state.
LEMMA Invariance == Spec => []IInv
BY InitIInv, StepIInv, PTL DEF Spec

-----------------------------------------------------------------------------
\* The VideoCore never finds the mailbuffer half written, nor with a request it
\* was not sent for, however late the answers are and however often a read gave
\* up (framebuffer.c:212-233, 278-316, 361-381).
THEOREM BufferSafe == Spec => []BufferNotShared
<1>1. IInv => BufferNotShared
  BY DEF IInv, BufferInv, BufferNotShared
<1> QED
  BY <1>1, Invariance, PTL

\* If init_framebuffer reports success, it draws with the address, size and pitch
\* of the framebuffer that the VideoCore allocated for it (framebuffer.c:209-390).
THEOREM SuccessRight == Spec => []SuccessMeansGranted
<1>1. IInv => SuccessMeansGranted
  BY DEF IInv, CallInv, FieldsInv, SuccessMeansGranted
<1> QED
  BY <1>1, Invariance, PTL

\* What is drawn ends as stated, whatever the display, the requests that fail and
\* the cursor: after a success by the size the kernel takes the screen for, which
\* is another than that of the framebuffer if its last request failed
\* (framebuffer.c:56-190, 391).
THEOREM DrawingBounded == Spec => []DrawsBounded
<1>1. IInv => DrawsBounded
  <2> SUFFICES ASSUME IInv, Drawn PROVE DrawsBounded
    BY DEF DrawsBounded
  <2>1. fpc = "done" /\ request \in Requests /\ returned \in Int
        /\ returned <= 0 /\ (returned = 0 <=> request = "update")
    BY DEF IInv, TypeInv, CallInv, Drawn
  <2>2. /\ request \in {"resolution", "setup"} => touched < 32768
        /\ request = "pitch" => touched < granted.base + granted.size
        /\ request = "update" => touched < ScreenEnd
    BY DEF IInv, TouchedInv
  <2>3. request = "pitch" => fields.base = granted.base
    BY DEF IInv, FieldsInv
  <2> QED
    BY <2>1, <2>2, <2>3 DEF DrawsBounded, Requests
<1> QED
  BY <1>1, Invariance, PTL
=============================================================================

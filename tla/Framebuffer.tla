---------------------------- MODULE Framebuffer ----------------------------
(* init_framebuffer of src/src/video/framebuffer.c: four requests through    *)
(* the mailbox, all in the one mailbuffer that the ARM and the VideoCore     *)
(* share, and then the drawing.  What read_mailbox returned is never looked  *)
(* at: only what is in the mailbuffer when it returns.                       *)
(*                                                                           *)
(* The VideoCore (external) processes a request it has taken - it reads the  *)
(* mailbuffer and writes its reply there - some time before it answers.      *)
EXTENDS Integers, Sequences, FiniteSets, FiniteSetsExt

CONSTANTS
  Depth, READ_MAILBOX_TIMEOUT, Invalid,   \* as in Mailbox
  Native,       \* the display sizes there may be at power on
  Requested,    \* the size asked for: 656 x 416 (kernel.c:79)
  Base,         \* where the VideoCore puts a framebuffer
  Cursors       \* bound: columns and rows a cursor is set to afterwards

Displays == [w : Nat, h : Nat]

\* The size asked for is that of a display, and no display is so wide that a row
\* of it does not fit below the kernel, or in the framebuffer.
ASSUME FramebufferAssumption ==
  /\ Depth \in Nat \ {0} /\ READ_MAILBOX_TIMEOUT \in Nat
  /\ Native \cup {Requested} \subseteq Displays
  /\ \A s \in Native \cup {Requested} : s.w < 16384
  /\ Requested.h >= 3 /\ Requested.w * Requested.h >= 16384
  /\ Base \in Nat \ {0}
  /\ Cursors \subseteq Nat

VARIABLES
  mailbox0, mailbox1, working, pc, channel, data, count, result, requests,
  posts, overrun, sent, matched,                    \* Mailbox
  mailbuffer,   \* word 1 (code), what is asked (tag), the VideoCore's reply, and
                \* how the walk of set_up_screen over the reply's tags ends (walk)
  processed,    \* requests of working the VideoCore has done
  display,      \* the VideoCore's display size
  granted,      \* history: the framebuffer the VideoCore allocated last, or none
  fpc, request, \* where init_framebuffer is, and in which of its requests
  fields,       \* _screen_width/_height, _physical_screenbase, _screensize, _pitch
  text,         \* _character_cols, _character_rows, _character_pos_x and _y
  returned,     \* what init_framebuffer returns
  touched       \* the largest address drawn to so far, -1 before any

Channel == 8    \* MAILBOX_CHANNEL_ARM2VC
NoSize  == [w |-> 0, h |-> 0]
None    == [base |-> 0, size |-> 0, pitch |-> 0, screen |-> NoSize]
BytesPerPixel == 2      \* _bytes_per_pixel of depth 16, which set_up_screen is called with
FONT_WIDTH  == 8
FONT_HEIGHT == 8
PixelWidth  == 10       \* of the characters printed
Qemu == [w |-> 640, h |-> 480]

\* The VideoCore posts nothing unasked on the channel of the requests.
M == INSTANCE Mailbox WITH
  Channels <- {Channel, 1}, ReadChannels <- {Channel}, MaxRequests <- 4, MaxPosts <- 0

mailbox == <<mailbox0, mailbox1, working, pc, channel, data, count, result,
             requests, posts, overrun, sent, matched>>
vc      == <<processed, display, granted>>
screen  == <<fpc, request, fields, text, returned, touched>>
vars    == <<mailbox, mailbuffer, vc, screen>>

Sizes    == Native \cup {Requested, Qemu}
Buffers(s) == [base |-> Base, size |-> s.w * s.h * BytesPerPixel,
               pitch |-> s.w * BytesPerPixel, screen |-> s]

Init ==
  /\ M!Init /\ channel = Channel
  /\ mailbuffer = [code |-> "request", tag |-> "none", reply |-> None,
                   walk |-> "lost"]
  /\ processed = {} /\ display \in Native /\ granted = None
  /\ fpc = "fill" /\ request = "resolution"
  /\ text = [cols |-> 0, rows |-> 0, x |-> 0, y |-> 0]
  /\ fields = None /\ returned = 0 /\ touched = -1

-----------------------------------------------------------------------------
\* One request: the code word is reset, then the tags are filled in, then the
\* buffer is sent and the answer waited for.

Fill ==
  /\ fpc = "fill"
  /\ mailbuffer' = [mailbuffer EXCEPT !.code = "request", !.tag = "torn"]
  /\ fpc' = "tags"
  /\ UNCHANGED <<mailbox, vc, request, fields, text, returned, touched>>

FillTags ==
  /\ fpc = "tags"
  /\ mailbuffer' = [mailbuffer EXCEPT !.reply = None,
       !.tag = IF request \in {"resolution", "update"} THEN "size" ELSE request]
  /\ fpc' = "send"
  /\ UNCHANGED <<mailbox, vc, request, fields, text, returned, touched>>

Exchange ==
  /\ \/ fpc = "send" /\ M!WriteStart(Channel) /\ fpc' = "sending"
     \/ fpc = "sending" /\ M!WriteReady /\ UNCHANGED fpc
     \/ fpc = "sending" /\ M!Store /\ fpc' = "receive"
     \/ fpc = "receive" /\ M!ReadStart(Channel) /\ fpc' = "receiving"
     \/ /\ fpc = "receiving"
        /\ M!PollEmpty \/ M!PollReady \/ M!Pop
        /\ fpc' = IF pc' = "idle" THEN "check" ELSE fpc
  /\ UNCHANGED <<mailbuffer, vc, request, fields, text, returned, touched>>

-----------------------------------------------------------------------------
\* What the code makes of the mailbuffer.

Check(r) ==
  /\ fpc = "check" /\ request = r
  /\ UNCHANGED <<mailbox, mailbuffer, vc, touched>>

Proceed(r) == request' = r /\ fpc' = "fill" /\ UNCHANGED <<returned, text>>

Fail(e) == returned' = e /\ fpc' = "draw" /\ UNCHANGED <<request, text>>

\* Mutant: the code word of the reply is not looked at.
SucceededUnchecked == TRUE

Succeeded == mailbuffer.code = "success"

\* A display of no size is taken for QEMU's.
Resolution ==
  IF mailbuffer.reply.screen = NoSize THEN Qemu ELSE mailbuffer.reply.screen

CheckResolution ==
  /\ Check("resolution")
  /\ \/ /\ Succeeded
        /\ fields' = [fields EXCEPT !.screen = Resolution]
        /\ Proceed("setup")
     \/ /\ ~Succeeded
        /\ returned' = -1 /\ fpc' = "done"
        /\ UNCHANGED <<request, fields, text>>

\* set_up_screen after its first request: -1 unless the reply is marked as one,
\* -2 if its tags lead out of the buffer, -3 if the allocation has no response,
\* -4 if what it allocated is empty.
CheckSetup ==
  /\ Check("setup")
  /\ \/ ~Succeeded /\ Fail(-1) /\ UNCHANGED fields
     \/ Succeeded /\ mailbuffer.walk = "lost" /\ Fail(-2) /\ UNCHANGED fields
     \/ Succeeded /\ mailbuffer.walk = "unanswered" /\ Fail(-3) /\ UNCHANGED fields
     \/ LET reply == mailbuffer.reply
        IN  /\ Succeeded /\ mailbuffer.walk = "answered"
            /\ fields' = [fields EXCEPT !.base = reply.base, !.size = reply.size]
            /\ IF reply.base = 0 \/ reply.size = 0 THEN Fail(-4) ELSE Proceed("pitch")

\* Mutant: a reply without a pitch is taken as it is.
CheckPitchNoTest ==
  /\ Check("pitch")
  /\ fields' = [fields EXCEPT !.pitch = mailbuffer.reply.pitch]
  /\ Proceed("update")

\* Here the response bit of the tag is tested, not the code word; without it
\* the reply is still the empty one of FillTags.  _pitch is 0 until it is set.
CheckPitch ==
  /\ Check("pitch")
  /\ fields' = [fields EXCEPT !.pitch = mailbuffer.reply.pitch]
  /\ IF mailbuffer.reply.pitch = 0 THEN Fail(-5) ELSE Proceed("update")

\* The last get_resolution's result is ignored; its size counts characters.
CheckUpdate ==
  /\ Check("update")
  /\ fields' = IF Succeeded THEN [fields EXCEPT !.screen = Resolution] ELSE fields
  /\ text' = [text EXCEPT !.cols = fields'.screen.w \div FONT_WIDTH,
                          !.rows = fields'.screen.h \div FONT_HEIGHT]
  /\ returned' = 0
  /\ fpc' = "draw"
  /\ UNCHANGED request

-----------------------------------------------------------------------------
\* Drawing, by the largest address it writes.

\* print_pixel
Address(x, y) == fields.base + x * BytesPerPixel + y * fields.pitch

\* print_rectangle: rows 0 to height and columns 0 to width, both included.
RectangleEnd(width, height, x0, y0) == Address(x0 + width, y0 + height)

\* print_character: each pixel is repeated pixel_width times to its right.
CharacterEnd(pixel_width) ==
  Address(text.x * FONT_WIDTH + FONT_WIDTH - 1 + pixel_width - 1,
          text.y * FONT_HEIGHT + FONT_HEIGHT - 1)

\* Whatever set_up_screen returned: the background, two pixels, two bars and a
\* character, and the message "Framebuffer initialized!".
Draw ==
  /\ fpc = "draw"
  /\ LET w == Requested.w
         h == Requested.h
     IN  touched' = Max({ RectangleEnd(fields.screen.w, fields.screen.h, 0, 0),
                          Address(10, 10),
                          Address(w \div 4, h \div 4),
                          RectangleEnd(w, 1, 0, h \div 4),
                          RectangleEnd(1, h, (w \div 4) * 3, 0),
                          CharacterEnd(PixelWidth) })
  /\ fpc' = "done"
  /\ UNCHANGED <<mailbox, mailbuffer, vc, request, fields, text, returned>>

\* Mutant: the cursor is not kept on the screen.
SetCursorUnclamped(x, y) ==
  /\ fpc = "done"
  /\ text' = [text EXCEPT !.x = x, !.y = y]
  /\ UNCHANGED <<mailbox, mailbuffer, vc, fpc, request, fields, returned, touched>>

\* set_cursor_position
SetCursor(x, y) ==
  /\ fpc = "done"
  /\ text' = [text EXCEPT !.x = IF x > text.cols THEN text.cols ELSE x,
                          !.y = IF y > text.rows THEN text.rows ELSE y]
  /\ UNCHANGED <<mailbox, mailbuffer, vc, fpc, request, fields, returned, touched>>

\* _bytes_per_pixel is 0, and print_pixel writes nothing, until set_up_screen has
\* been entered: init_framebuffer returns before that only without drawing.
DepthSet == request # "resolution"

PrintCharacter ==
  /\ fpc = "done"
  /\ touched' = IF DepthSet THEN Max({touched, CharacterEnd(PixelWidth)}) ELSE touched
  /\ UNCHANGED <<mailbox, mailbuffer, vc, fpc, request, fields, text, returned>>

-----------------------------------------------------------------------------
\* The VideoCore processes a request by what the mailbuffer holds now.
Reply(code, reply, walk) ==
  mailbuffer' = [mailbuffer EXCEPT !.code = code, !.reply = reply, !.walk = walk]

Refused == Reply("error", None, "lost") /\ UNCHANGED <<display, granted>>

ReplySize ==
  /\ mailbuffer.tag = "size"
  /\ Reply("success", [None EXCEPT !.screen = display], "lost")
  /\ UNCHANGED <<display, granted>>

ReplyPitch ==
  /\ mailbuffer.tag = "pitch"
  /\ Reply("success", [None EXCEPT !.pitch = granted.pitch], "lost")
  /\ UNCHANGED <<display, granted>>

\* It allocates, or finds no memory, or leaves the tag alone, or answers with
\* tags that lead the walk astray.
ReplySetup ==
  /\ mailbuffer.tag = "setup"
  /\ \/ /\ granted' = Buffers(Requested)
        /\ display' = Requested
        /\ Reply("success", granted', "answered")
     \/ /\ \E walk \in {"lost", "unanswered", "answered"} :
             Reply("success", None, walk)
        /\ UNCHANGED <<display, granted>>

VcProcess ==
  /\ \E w \in working \ processed : processed' = processed \cup {w}
  /\ Refused \/ ReplySize \/ ReplyPitch \/ ReplySetup
  /\ UNCHANGED <<mailbox, screen>>

VcAnswers ==
  \E w \in processed :
    /\ M!VcAnswer(w)
    /\ processed' = processed \ {w}
    /\ UNCHANGED <<mailbuffer, display, granted, screen>>

VcElse ==
  /\ M!VcTake \/ M!VcPost(1)
  /\ UNCHANGED <<mailbuffer, vc, screen>>

-----------------------------------------------------------------------------
Arm == \/ Fill \/ FillTags \/ Exchange
       \/ CheckResolution \/ CheckSetup \/ CheckPitch \/ CheckUpdate
       \/ Draw

\* What the rest of the kernel may call afterwards.
Client == (\E x, y \in Cursors : SetCursor(x, y)) \/ PrintCharacter

Next == Arm \/ Client \/ VcProcess \/ VcAnswers \/ VcElse

\* The ARM runs on; the VideoCore may be as slow as it likes, or stop.
Spec == Init /\ [][Next]_vars /\ WF_vars(Arm)

-----------------------------------------------------------------------------
Unprocessed == Len(mailbox1) + Cardinality(working \ processed)

\* The VideoCore never finds the mailbuffer half written, nor with a request it
\* was not sent for: while the ARM fills it or looks at a success in it, every
\* earlier request has been processed, however late the answers are and however
\* often a read gave up (framebuffer.c:212-233, 278-316, 361-381).
BufferNotShared ==
  /\ Unprocessed <= 1
  /\ fpc \in {"fill", "tags", "send"} => Unprocessed = 0

\* If init_framebuffer reports success, the address, size and pitch it draws
\* with are those of the framebuffer the VideoCore allocated for it.
SuccessMeansGranted ==
  (fpc = "done" /\ returned = 0) =>
    /\ granted # None
    /\ fields.base = granted.base
    /\ fields.size = granted.size
    /\ fields.pitch = granted.pitch

\* init_framebuffer returns, even if the VideoCore never answers, with two
\* exceptions: words of other channels keep coming for ever, which are dropped
\* without being counted (mailbox.c:27-37), or mailbox 0 is full when it wants to
\* send - of answers it did not wait for, and words of other channels, that only
\* it could read (mailbox.c:74).
InitReturns ==
  \/ []<><<M!Drop>>_vars
  \/ <>(fpc = "done" \/ (pc = "status" /\ M!MAILBOX_FULL))

Drawn == touched >= 0

\* The end of what is drawn on a screen of the size the kernel takes it for, or on
\* the part it asked for, whichever is larger: less than a row of characters below
\* it, and one character to the right of it.
DrawnWidth  == Max({fields.screen.w, Requested.w})
DrawnHeight == Max({fields.screen.h, Requested.h})
ScreenEnd ==
  fields.base + (DrawnHeight + FONT_HEIGHT - 1) * fields.pitch
              + (DrawnWidth + FONT_WIDTH + PixelWidth) * BytesPerPixel

\* What is drawn is bounded, although an error is not looked at before drawing
\* (framebuffer.c:64) and loops run one too far (framebuffer.c:89-101, 186-189).
\* After a failed set-up it stays in the framebuffer it was granted, or below the
\* kernel, which begins at 0x8000: an address and a pitch that do not go together
\* are never drawn with.  After a successful one it ends, at any cursor, where
\* ScreenEnd says.  That is little past the end of the framebuffer only if the
\* kernel's size is the one that was allocated ("Width of the allocated frame
\* buffer", framebuffer.c:27): if the last request fails, whose result is ignored
\* (framebuffer.c:391), it is the size of the display there was before, with the
\* pitch of the new one, and the background alone is drawn far past the end.
DrawsBounded ==
  Drawn =>
    \/ returned < 0 /\ touched < 32768
    \/ returned < 0 /\ fields.base = granted.base
                    /\ touched < granted.base + granted.size
    \/ returned = 0 /\ touched < ScreenEnd

\* "The size of the frame buffer: width x height x depth" (framebuffer.c:31):
\* the drawing stays inside the bytes the VideoCore allocated.
DrawsInside ==
  (Drawn /\ returned = 0 /\ fields.screen = granted.screen) =>
    touched < granted.base + granted.size
=============================================================================

--------------------------- MODULE MCFramebuffer ---------------------------
(* Framebuffer at the size the kernel asks for, on a display of 1920 x 1080  *)
(* or on QEMU, which reports a display of no size.                           *)
EXTENDS Framebuffer

MCNative    == {[w |-> 1920, h |-> 1080], [w |-> 0, h |-> 0]}
MCRequested == [w |-> 656, h |-> 416]
=============================================================================

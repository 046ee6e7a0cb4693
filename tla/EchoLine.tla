------------------------------ MODULE EchoLine ------------------------------
(* What the serial console of the kernel promises (src/src/init/kernel.c):   *)
(* it says its greeting, and then answers every character it has accepted    *)
(* with that character, once, in order, and sooner or later.                 *)
EXTENDS Integers, Sequences

CONSTANTS Characters, Greeting

VARIABLES
  accepted,     \* the characters taken from the line
  out           \* the characters sent on it

vars == <<accepted, out>>

Script == Greeting \o accepted

Init == accepted = <<>> /\ out = <<>>

Accept(c) == accepted' = Append(accepted, c) /\ UNCHANGED out

Answer ==
  /\ Len(out) < Len(Script)
  /\ out' = Append(out, Script[Len(out) + 1])
  /\ UNCHANGED accepted

Next == Answer \/ \E c \in Characters : Accept(c)

Spec == Init /\ [][Next]_vars /\ WF_vars(Answer)
=============================================================================

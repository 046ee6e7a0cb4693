--------------------------- MODULE DeviceRegistry ---------------------------
(* What the device layer (src/src/common/device.c) promises its clients: an   *)
(* id handed out by a registration belongs to one driver until the registry   *)
(* is reset, and every call with that id reaches that driver.                 *)
EXTENDS Integers, FiniteSets

CONSTANTS
  Capacity,     \* number of ids
  Drivers,      \* the drivers that can be registered
  NoDriver,     \* where a call with an id nobody was given goes
  Full,         \* what a registration returns when every id is taken
  Failed        \* what it returns when the driver itself did not start

VARIABLES
  bound,        \* id -> driver, for the ids handed out since the last reset
  outcome,      \* what the last reset or registration returned
  served        \* the last call: its id and the driver it reached

vars == <<bound, outcome, served>>

Ids == 0 .. Capacity - 1

Init ==
  /\ bound = [d \in {} |-> NoDriver]
  /\ outcome = [from |-> "init", code |-> 0]
  /\ served = [id |-> 0, to |-> NoDriver]

\* Every id is withdrawn.
Reset ==
  /\ bound' = [d \in {} |-> NoDriver]
  /\ outcome' = [from |-> "init", code |-> 0]
  /\ UNCHANGED served

\* A driver gets an id that nobody holds.
Bind(d, o) ==
  /\ d \notin DOMAIN bound
  /\ bound' = [e \in DOMAIN bound \cup {d} |-> IF e = d THEN o ELSE bound[e]]
  /\ outcome' = [from |-> "register", code |-> d]
  /\ UNCHANGED served

\* A registration is turned away only when every id is taken, or because the
\* driver itself failed to start; neither disturbs the drivers already bound.
Refuse ==
  /\ \/ outcome' = [from |-> "register", code |-> Failed]
     \/ /\ DOMAIN bound = Ids
        /\ outcome' = [from |-> "register", code |-> Full]
  /\ UNCHANGED <<bound, served>>

Call(d) ==
  /\ served' = [id |-> d,
                to |-> IF d \in DOMAIN bound THEN bound[d] ELSE NoDriver]
  /\ UNCHANGED <<bound, outcome>>

Next ==
  \/ Reset
  \/ \E d \in Ids, o \in Drivers : Bind(d, o)
  \/ Refuse
  \/ \E d \in Ids : Call(d)

Spec == Init /\ [][Next]_vars
=============================================================================

------------------------------ MODULE Devices ------------------------------
(* The device table of src/src/common/device.c.                              *)
(*                                                                           *)
(* One thread (the kernel) registers drivers and resets the table, one step  *)
(* per point at which an interrupt handler could run.  A handler never       *)
(* registers; it may call read, write or destroy with an id that a           *)
(* registration returned.  The kernel itself may try any id of the table.    *)
EXTENDS Integers, FiniteSets

CONSTANTS
  MAX_DEVICES,  \* size of device_table (2 in device.h:10)
  DevOps,       \* the struct dev_operations a driver can pass
  NullOps,      \* the NULL the table is born with
  InvalidDev    \* where a call refused with MSKE_ERR_INVALID_DEV "goes"

\* dev_id is a u8: a larger table would hand out truncated ids.
ASSUME DevicesAssumption ==
  /\ MAX_DEVICES \in 1 .. 256
  /\ NullOps \notin DevOps
  /\ InvalidDev \notin DevOps \cup {NullOps}

MSKE_ERR          == -101
MSKE_ERR_DEV_INIT == -4
MSKE_SUCESS       == 0

VARIABLES
  num_devices,  \* the counter behind the "table full" test
  valid,        \* the slots of device_table whose valid flag is set
  table_ops,    \* slot -> the dev_ops stored in it
  pc,           \* where the kernel's call into device.c is
  i,            \* the local i of device_register and device_init
  dev_ops,      \* the argument of device_register
  ret,          \* the value the last device_register or device_init returned,
                \* with the call it came from
  clients,      \* history: id -> driver, what device_register told its callers
  served        \* history: the last read/write/destroy, [id, to]

vars == <<num_devices, valid, table_ops, pc, i, dev_ops, ret, clients, served>>

Slots == 0 .. MAX_DEVICES - 1
PCs   == {"idle", "scan", "init", "mark", "bind", "clear"}

TypeOK ==
  /\ num_devices \in 0 .. MAX_DEVICES
  /\ valid \subseteq Slots
  /\ table_ops \in [Slots -> DevOps \cup {NullOps}]
  /\ pc \in PCs
  /\ i \in 0 .. MAX_DEVICES
  /\ dev_ops \in DevOps \cup {NullOps}
  /\ ret \in [from : {"init", "register"},
              code : Slots \cup {MSKE_ERR, MSKE_ERR_DEV_INIT}]
  /\ DOMAIN clients \subseteq Slots
  /\ clients \in [DOMAIN clients -> DevOps]
  /\ served \in [id : Slots, to : DevOps \cup {NullOps, InvalidDev}]

Init ==
  /\ num_devices = 0
  /\ valid = {}
  /\ table_ops = [d \in Slots |-> NullOps]
  /\ pc = "idle"
  /\ i = 0
  /\ dev_ops = NullOps
  /\ ret = [from |-> "init", code |-> MSKE_SUCESS]
  /\ clients = [d \in {} |-> NullOps]
  /\ served = [id |-> 0, to |-> InvalidDev]

-----------------------------------------------------------------------------
\* device_init: the count goes first, the slots after it, one by one.

\* Mutant: the slots are cleared but the count is kept.
InitKeepsCount ==
  /\ pc = "idle"
  /\ i' = 0
  /\ pc' = "clear"
  /\ ret' = [from |-> "init", code |-> MSKE_SUCESS]
  /\ clients' = [d \in {} |-> NullOps]
  /\ UNCHANGED <<num_devices, valid, table_ops, dev_ops, served>>

InitStart ==
  /\ pc = "idle"
  /\ num_devices' = 0
  /\ i' = 0
  /\ pc' = "clear"
  /\ ret' = [from |-> "init", code |-> MSKE_SUCESS]
  /\ clients' = [d \in {} |-> NullOps]
  /\ UNCHANGED <<valid, table_ops, dev_ops, served>>

\* Mutant: the clearing loop runs one slot too far.
ClearsOneTooMany == i <= MAX_DEVICES

SlotToClear == i < MAX_DEVICES

InitClear ==
  /\ pc = "clear"
  /\ SlotToClear
  /\ valid' = valid \ {i}
  /\ i' = i + 1
  /\ UNCHANGED <<num_devices, table_ops, pc, dev_ops, ret, clients, served>>

InitDone ==
  /\ pc = "clear"
  /\ ~SlotToClear
  /\ pc' = "idle"
  /\ UNCHANGED <<num_devices, valid, table_ops, i, dev_ops, ret, clients, served>>

-----------------------------------------------------------------------------
\* device_register

\* Mutants: the "full" test lets one registration too many through, or turns
\* away the last one that fits.
FullTooLate  == num_devices > MAX_DEVICES
FullTooEarly == num_devices >= MAX_DEVICES - 1

TableFull == num_devices >= MAX_DEVICES

RegisterFull ==
  /\ pc = "idle"
  /\ TableFull
  /\ ret' = [from |-> "register", code |-> MSKE_ERR]
  /\ UNCHANGED <<num_devices, valid, table_ops, pc, i, dev_ops, clients, served>>

RegisterStart(o) ==
  /\ pc = "idle"
  /\ ~TableFull
  /\ i' = 0
  /\ dev_ops' = o
  /\ pc' = "scan"
  /\ UNCHANGED <<num_devices, valid, table_ops, ret, clients, served>>

\* Mutant: the scan does not advance.
ScanStuck ==
  /\ pc = "scan"
  /\ i \in valid
  /\ UNCHANGED vars

\* The loop has no test of i against MAX_DEVICES.
ScanTaken ==
  /\ pc = "scan"
  /\ i \in valid
  /\ i' = i + 1
  /\ UNCHANGED <<num_devices, valid, table_ops, pc, dev_ops, ret, clients, served>>

\* Mutant: the slot is marked before the driver's init is known to succeed.
ScanMarksEarly ==
  /\ pc = "scan"
  /\ i \notin valid
  /\ pc' = "init"
  /\ valid' = valid \cup {i}
  /\ UNCHANGED <<num_devices, table_ops, i, dev_ops, ret, clients, served>>

ScanFree ==
  /\ pc = "scan"
  /\ i \notin valid
  /\ pc' = "init"
  /\ UNCHANGED <<num_devices, valid, table_ops, i, dev_ops, ret, clients, served>>

\* The driver's init callback: it answers MSKE_SUCESS or anything else.
DriverStarts ==
  /\ pc = "init"
  /\ pc' = "mark"
  /\ UNCHANGED <<num_devices, valid, table_ops, i, dev_ops, ret, clients, served>>

DriverFails ==
  /\ pc = "init"
  /\ pc' = "idle"
  /\ ret' = [from |-> "register", code |-> MSKE_ERR_DEV_INIT]
  /\ UNCHANGED <<num_devices, valid, table_ops, i, dev_ops, clients, served>>

\* valid is set before dev_ops is.
MarkValid ==
  /\ pc = "mark"
  /\ valid' = valid \cup {i}
  /\ pc' = "bind"
  /\ UNCHANGED <<num_devices, table_ops, i, dev_ops, ret, clients, served>>

\* Mutant: the caller is given the count after the increment, not the slot.
DevIdFromCount == (num_devices + 1) % 256

dev_id == i % 256

BindOps ==
  /\ pc = "bind"
  /\ table_ops' = [table_ops EXCEPT ![i] = dev_ops]
  /\ num_devices' = num_devices + 1
  /\ ret' = [from |-> "register", code |-> dev_id]
  /\ clients' = [d \in DOMAIN clients \cup {dev_id} |->
                   IF d = dev_id THEN dev_ops ELSE clients[d]]
  /\ pc' = "idle"
  /\ UNCHANGED <<valid, i, dev_ops, served>>

-----------------------------------------------------------------------------
\* device_read, device_write and device_destroy dispatch alike, and none of
\* them changes the table: a destroyed device keeps its slot.

Dispatch(d) ==
  /\ served' = [id |-> d,
                to |-> IF d \in valid THEN table_ops[d] ELSE InvalidDev]
  /\ UNCHANGED <<num_devices, valid, table_ops, pc, i, dev_ops, ret, clients>>

KernelCalls(d)  == pc = "idle" /\ Dispatch(d)
HandlerCalls(d) == d \in DOMAIN clients /\ Dispatch(d)

-----------------------------------------------------------------------------
KernelStep ==
  \/ InitClear \/ InitDone
  \/ ScanTaken \/ ScanFree
  \/ DriverStarts \/ DriverFails
  \/ MarkValid \/ BindOps

Next ==
  \/ KernelStep
  \/ InitStart
  \/ RegisterFull
  \/ \E o \in DevOps : RegisterStart(o)
  \/ \E d \in Slots : KernelCalls(d) \/ HandlerCalls(d)

\* A call into device.c runs on: handlers return, and a driver's init too.
Spec == Init /\ [][Next]_vars /\ WF_vars(KernelStep)

-----------------------------------------------------------------------------
\* The count is what keeps the scan inside the table, so it must be the number
\* of valid slots in every state in which a scan can start or run; between the
\* marking of a slot and the increment it is one behind (device.c:24-27).
CountMatchesTable ==
  /\ pc = "clear" => num_devices = 0
  /\ pc = "bind" => Cardinality(valid) = num_devices + 1
  /\ pc \notin {"clear", "bind"} => Cardinality(valid) = num_devices

\* The unbounded scan of device.c:17 only reads slots that exist, and so do the
\* stores at device.c:24-25 and device.c:55.
ScanInBounds ==
  pc \in {"scan", "init", "mark", "bind"} => i \in Slots

\* What a caller was told holds: the id it was given names a valid slot with
\* its driver in it, at every instant a handler could use it, also while
\* another registration is half way (device.c:24-25).
ClientsServed ==
  \A d \in DOMAIN clients :
    d \in valid /\ table_ops[d] = clients[d]

\* No call jumps through the NULL operations of a slot that was marked valid
\* before its operations were stored (device.c:24-25, 34-35).
NoNullCall == served.to # NullOps

\* Every registration and every reset returns (the scan, device.c:17, ends).
CallsReturn == (pc # "idle") ~> (pc = "idle")

\* The table implements the registry its clients rely on.
Registry == INSTANCE DeviceRegistry WITH
  Capacity <- MAX_DEVICES, Drivers <- DevOps, NoDriver <- InvalidDev,
  Full <- MSKE_ERR, Failed <- MSKE_ERR_DEV_INIT,
  bound <- clients, outcome <- ret, served <- served

Implements == Registry!Spec
=============================================================================

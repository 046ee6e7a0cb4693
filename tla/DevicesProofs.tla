--------------------------- MODULE DevicesProofs ---------------------------
(* Proofs about Devices, for a device table of any size up to 256.           *)
EXTENDS Devices, FiniteSetTheorems, TLAPS

Registering == pc \in {"scan", "init", "mark", "bind"}

\* Why the unbounded scan stays in the table: it runs only while the count is
\* below the size, the count is the number of valid slots, and all the slots it
\* has passed are valid.  The other parts say which slots the clients hold.
ScanProgress ==
  /\ Registering => num_devices < MAX_DEVICES /\ dev_ops \in DevOps
  /\ pc = "scan" => \A d \in 0 .. i - 1 : d \in valid
  /\ pc \in {"init", "mark"} => i \notin valid
  /\ pc = "bind" => i \in valid
  /\ pc = "clear" => \A d \in 0 .. i - 1 : d \notin valid

Holders ==
  /\ pc = "clear" => DOMAIN clients = {}
  /\ pc = "bind" => DOMAIN clients = valid \ {i}
  /\ pc \notin {"clear", "bind"} => DOMAIN clients = valid

IInv ==
  /\ TypeOK
  /\ CountMatchesTable
  /\ ScanInBounds
  /\ ScanProgress
  /\ ClientsServed
  /\ Holders
  /\ NoNullCall

-----------------------------------------------------------------------------
\* The size of the table as a number.
LEMMA SizeType == MAX_DEVICES \in Int /\ MAX_DEVICES >= 1 /\ MAX_DEVICES <= 256
BY DevicesAssumption

\* The slots are a finite set of MAX_DEVICES elements.
LEMMA SlotsFinite ==
  IsFiniteSet(Slots) /\ Cardinality(Slots) = MAX_DEVICES
<1>1. 0 \in Int /\ MAX_DEVICES - 1 \in Int /\ MAX_DEVICES \in Nat \ {0}
  BY DevicesAssumption
<1>2. QED BY <1>1, FS_Interval DEF Slots

\* So are the valid ones, at most that many, and all of them only when full.
LEMMA ValidFinite ==
  ASSUME TypeOK
  PROVE  /\ IsFiniteSet(valid)
         /\ Cardinality(valid) \in 0 .. MAX_DEVICES
         /\ Cardinality(valid) = MAX_DEVICES => valid = Slots
<1>1. valid \subseteq Slots
  BY DEF TypeOK
<1>2. IsFiniteSet(valid) /\ Cardinality(valid) <= Cardinality(Slots)
      /\ (Cardinality(valid) = Cardinality(Slots) => valid = Slots)
  BY <1>1, SlotsFinite, FS_Subset
<1>3. Cardinality(valid) \in Nat
  BY <1>2, FS_CardinalityType
<1>4. QED BY <1>2, <1>3, SlotsFinite, DevicesAssumption

-----------------------------------------------------------------------------
\* The table starts in a state that satisfies the invariant.
LEMMA InitIInv == Init => IInv
<1> SUFFICES ASSUME Init PROVE IInv
  OBVIOUS
<1>1. TypeOK
  BY DevicesAssumption DEF Init, TypeOK, Slots, PCs, MSKE_SUCESS
<1>2. CountMatchesTable
  BY FS_EmptySet DEF Init, CountMatchesTable
<1>3. ScanInBounds /\ ScanProgress /\ ClientsServed /\ Holders
  BY DEF Init, ScanInBounds, ScanProgress, Registering, ClientsServed, Holders
<1>4. NoNullCall
  BY DevicesAssumption DEF Init, NoNullCall
<1>5. QED BY <1>1, <1>2, <1>3, <1>4 DEF IInv

-----------------------------------------------------------------------------
\* Every step of device.c, and of a handler in between, keeps the types; the
\* scan does because it stops inside the table.
LEMMA ScanStopsInTable == IInv /\ ScanTaken => i + 1 \in Slots
<1> SUFFICES ASSUME IInv, ScanTaken PROVE i + 1 \in Slots
  OBVIOUS
<1>1. i \in Slots /\ num_devices < MAX_DEVICES /\ Cardinality(valid) = num_devices
  BY DEF IInv, ScanTaken, ScanInBounds, ScanProgress, Registering,
         CountMatchesTable
<1>2. ASSUME i = MAX_DEVICES - 1 PROVE FALSE
  <2>1. valid = Slots
    <3>1. i \in valid /\ \A d \in 0 .. i - 1 : d \in valid
      BY DEF IInv, ScanTaken, ScanProgress
    <3>2. \A d \in Slots : d = i \/ d \in 0 .. i - 1
      BY <1>2, SizeType DEF Slots
    <3>3. QED BY <3>1, <3>2 DEF IInv, TypeOK
  <2>2. QED BY <1>1, <2>1, SlotsFinite, SizeType DEF IInv, TypeOK
<1>3. QED BY <1>1, <1>2, SizeType DEF Slots

\* The id a registration returns is its slot, untruncated and held by nobody.
LEMMA BoundIdIsSlot ==
  IInv /\ pc = "bind" => /\ i \in Slots /\ dev_id = i /\ i \in valid
                        /\ i \notin DOMAIN clients
                        /\ dev_ops \in DevOps /\ num_devices < MAX_DEVICES
BY SizeType, SMTT(30) DEF IInv, TypeOK, Slots, dev_id, ScanInBounds, ScanProgress,
                Registering, Holders

LEMMA NextTypeOK == IInv /\ [Next]_vars => TypeOK'
<1> SUFFICES ASSUME IInv, [Next]_vars PROVE TypeOK'
  OBVIOUS
<1> USE SizeType DEF TypeOK, IInv
<1>1. CASE InitStart
  BY <1>1 DEF InitStart, PCs, Slots, MSKE_SUCESS
<1>2. CASE InitClear \/ InitDone
  BY <1>2 DEF InitClear, InitDone, SlotToClear, PCs
<1>3. CASE RegisterFull
  BY <1>3 DEF RegisterFull
<1>4. ASSUME NEW o \in DevOps, RegisterStart(o) PROVE TypeOK'
  BY <1>4 DEF RegisterStart, TableFull, PCs
<1>5. CASE ScanTaken
  BY <1>5, ScanStopsInTable DEF ScanTaken, Slots
<1>6. CASE ScanFree \/ DriverStarts \/ DriverFails
  BY <1>6 DEF ScanFree, DriverStarts, DriverFails, PCs
<1>7. CASE MarkValid
  BY <1>7 DEF MarkValid, PCs, ScanInBounds
<1>8. CASE BindOps
  <2>1. /\ DOMAIN clients' = DOMAIN clients \cup {i}
        /\ \A d \in DOMAIN clients' : clients'[d] \in DevOps
        /\ clients' = [d \in DOMAIN clients' |-> clients'[d]]
    BY <1>8, BoundIdIsSlot DEF BindOps
  <2>2. QED BY <1>8, <2>1, BoundIdIsSlot DEF BindOps, PCs
<1>9. ASSUME NEW d \in Slots, KernelCalls(d) \/ HandlerCalls(d) PROVE TypeOK'
  BY <1>9 DEF KernelCalls, HandlerCalls, Dispatch
<1>10. CASE UNCHANGED vars
  BY <1>10 DEF vars
<1>11. QED
  BY <1>1, <1>2, <1>3, <1>4, <1>5, <1>6, <1>7, <1>8, <1>9, <1>10
     DEF Next, KernelStep

\* They keep the rest of the invariant.  The count follows the valid slots at
\* MarkValid; the clients follow them at BindOps and InitStart.
LEMMA NextIInv == IInv /\ [Next]_vars => IInv'
<1> SUFFICES ASSUME IInv, [Next]_vars PROVE IInv'
  OBVIOUS
<1>0. TypeOK'
  BY NextTypeOK
<1> USE <1>0, SizeType
<1> USE DEF IInv, TypeOK, CountMatchesTable, ScanInBounds, ScanProgress,
            Registering, ClientsServed, Holders, NoNullCall
<1>1. CASE InitStart
  BY <1>1 DEF InitStart
<1>2. CASE InitClear
  BY <1>2 DEF InitClear, SlotToClear
<1>3. CASE InitDone
  <2>1. valid = {}
    BY <1>3 DEF InitDone, SlotToClear, Slots
  <2>2. QED BY <1>3, <2>1, FS_EmptySet DEF InitDone
<1>4. CASE RegisterFull
  BY <1>4 DEF RegisterFull
<1>5. ASSUME NEW o \in DevOps, RegisterStart(o) PROVE IInv'
  BY <1>5 DEF RegisterStart, TableFull, Slots
<1>6. CASE ScanTaken
  BY <1>6, ScanStopsInTable DEF ScanTaken, Slots
<1>7. CASE ScanFree \/ DriverStarts \/ DriverFails
  BY <1>7 DEF ScanFree, DriverStarts, DriverFails
<1>8. CASE MarkValid
  <2>1. Cardinality(valid') = Cardinality(valid) + 1
    BY <1>8, ValidFinite, FS_AddElement DEF MarkValid
  <2>2. QED BY <1>8, <2>1 DEF MarkValid
<1>9. CASE BindOps
  <2>1. DOMAIN clients' = DOMAIN clients \cup {i}
    BY <1>9, BoundIdIsSlot DEF BindOps
  <2>2. ClientsServed'
    BY <1>9, <2>1, BoundIdIsSlot DEF BindOps
  <2>3. QED BY <1>9, <2>1, <2>2, BoundIdIsSlot DEF BindOps
<1>10. ASSUME NEW d \in Slots, KernelCalls(d) \/ HandlerCalls(d) PROVE IInv'
  <2>1. d \in valid => d \in DOMAIN clients /\ table_ops[d] \in DevOps
    BY <1>10 DEF KernelCalls, HandlerCalls, Dispatch
  <2>2. NoNullCall'
    BY <1>10, <2>1, DevicesAssumption DEF KernelCalls, HandlerCalls, Dispatch
  <2>3. QED BY <1>10, <2>2 DEF KernelCalls, HandlerCalls, Dispatch
<1>11. CASE UNCHANGED vars
  BY <1>11 DEF vars
<1>12. QED
  BY <1>1, <1>2, <1>3, <1>4, <1>5, <1>6, <1>7, <1>8, <1>9, <1>10, <1>11
     DEF Next, KernelStep

\* The invariant holds in every reachable state.
LEMMA Invariance == Spec => []IInv
BY InitIInv, NextIInv, PTL DEF Spec

-----------------------------------------------------------------------------
(* The results, for every reachable state and every table size.              *)

\* The state of the device table has the types the code declares.
THEOREM TypeCorrect == Spec => []TypeOK
BY Invariance, PTL DEF IInv

\* The counter is the number of valid slots whenever a registration reads it.
THEOREM CountCorrect == Spec => []CountMatchesTable
BY Invariance, PTL DEF IInv

\* The scan of device.c:17 never reads past the table.
THEOREM ScanSafe == Spec => []ScanInBounds
BY Invariance, PTL DEF IInv

\* Every id a registration returned leads to the driver it was returned for.
THEOREM ClientsSafe == Spec => []ClientsServed
BY Invariance, PTL DEF IInv

\* No call is dispatched through the NULL operations of a half-filled slot.
THEOREM CallsSafe == Spec => []NoNullCall
BY Invariance, PTL DEF IInv

-----------------------------------------------------------------------------
\* A full count means that every id is in a client's hands.
LEMMA FullMeansTaken ==
  IInv /\ RegisterFull => DOMAIN clients = Slots
<1> SUFFICES ASSUME IInv, RegisterFull PROVE DOMAIN clients = Slots
  OBVIOUS
<1>1. Cardinality(valid) = num_devices /\ DOMAIN clients = valid
  BY DEF IInv, CountMatchesTable, Holders, RegisterFull
<1>2. num_devices = MAX_DEVICES
  BY SizeType DEF IInv, TypeOK, RegisterFull, TableFull
<1>3. QED BY <1>1, <1>2, ValidFinite DEF IInv

\* Every step of device.c is a step of the registry or changes nothing in it.
LEMMA StepRefines == IInv /\ [Next]_vars => [Registry!Next]_(Registry!vars)
<1> SUFFICES ASSUME IInv, [Next]_vars
             PROVE  [Registry!Next]_(Registry!vars)
  OBVIOUS
<1> USE DEF Registry!Next, Registry!vars
<1>1. CASE InitStart
  BY <1>1 DEF InitStart, Registry!Reset, MSKE_SUCESS
<1>2. CASE InitClear \/ InitDone \/ ScanTaken \/ ScanFree \/ DriverStarts
           \/ MarkValid
  BY <1>2 DEF InitClear, InitDone, ScanTaken, ScanFree, DriverStarts, MarkValid
<1>3. CASE RegisterFull
  BY <1>3, FullMeansTaken
     DEF RegisterFull, TableFull, Registry!Refuse, Registry!Ids, Slots
<1>4. CASE DriverFails
  BY <1>4 DEF DriverFails, Registry!Refuse
<1>5. ASSUME NEW o \in DevOps, RegisterStart(o)
      PROVE  UNCHANGED Registry!vars
  BY <1>5 DEF RegisterStart
<1>6. CASE BindOps
  <2>1. Registry!Bind(i, dev_ops)
    BY <1>6, BoundIdIsSlot DEF BindOps, Registry!Bind
  <2>2. i \in Registry!Ids /\ dev_ops \in DevOps
    BY <1>6, BoundIdIsSlot DEF BindOps, Registry!Ids, Slots
  <2>3. QED BY <2>1, <2>2
<1>7. ASSUME NEW d \in Slots, KernelCalls(d) \/ HandlerCalls(d)
      PROVE  Registry!Next
  <2>1. d \in valid <=> d \in DOMAIN clients
    BY <1>7 DEF IInv, ClientsServed, Holders, KernelCalls, HandlerCalls
  <2>2. Registry!Call(d)
    BY <1>7, <2>1 DEF IInv, ClientsServed, KernelCalls, HandlerCalls, Dispatch,
                      Registry!Call
  <2>3. QED BY <2>2 DEF Registry!Ids, Slots
<1>8. CASE UNCHANGED vars
  BY <1>8 DEF vars
<1>9. QED
  BY <1>1, <1>2, <1>3, <1>4, <1>5, <1>6, <1>7, <1>8 DEF Next, KernelStep

\* The device table implements the registry of ids its clients rely on.
THEOREM Refinement == Spec => Implements
<1>1. Init => Registry!Init
  BY DEF Init, Registry!Init, MSKE_SUCESS
<1>2. QED
  BY <1>1, StepRefines, Invariance, PTL DEF Spec, Implements, Registry!Spec
=============================================================================

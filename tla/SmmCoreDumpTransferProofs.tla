---------------------- MODULE SmmCoreDumpTransferProofs ----------------------
(***************************************************************************)
(* Proofs about SmmCoreDumpTransfer, for every database, every region      *)
(* table, both builds and any number of failed Communicate calls.          *)
(***************************************************************************)
EXTENDS SmmCoreDumpTransfer, TLAPS

(* What the loop knows at its head and just before CopyMem.  A failed        *)
(* Communicate leaves DumpOffset where it was, so the stale window it lets   *)
(* through lands at or above Offset and is fetched again.                    *)
LoopInv ==
  /\ pc = "getInfo" => comm.Command = GET_INFO /\ comm.ReturnStatus = StatusUnset
                       /\ capacity > CommSize
  /\ pc = "allocate" => smmPresent /\ appSize = smmSize /\ capacity > CommSize
  /\ pc \in {"loop", "store"} =>
       /\ smmPresent
       /\ appSize = smmSize
       /\ capacity > 0
       /\ comm.Command = GET_DATA_BY_OFFSET
       /\ comm.DumpOffset <= smmSize
  /\ pc = "loop" => Delivered(comm.DumpOffset)
  /\ pc = "store" =>
       /\ Delivered(offset)
       /\ comm.DumpSize <= capacity
       /\ offset < appSize
       /\ offset + comm.DumpSize <= appSize
       /\ \/ comm.DumpOffset = offset /\ (AssertsEnabled => comm.ReturnStatus # EFI_SUCCESS)
          \/ /\ comm.DumpOffset = offset + comm.DumpSize
             /\ \A i \in 0 .. comm.DumpSize - 1 : window[i] = smmDatabase[offset + i]
  /\ appPresent => pc \in {"loop", "store", "done", "assert"}

Inv == TypeOK /\ LoopInv /\ TransferFaithful

(* The first usable region leaves room for the request and at least a byte. *)
LEMMA RegionRoom ==
  ASSUME NEW i \in UsableRegions, regions \in RegionTables
  PROVE  regions[i].size \in Nat /\ regions[i].size > CommSize
BY TransferAssumption DEF TransferAssumption, UsableRegions, Usable

(* It holds before the first call.                                         *)
LEMMA InitInv == Init => Inv
<1> SUFFICES ASSUME Init PROVE Inv
  OBVIOUS
<1>1. comm \in Comm
  BY DEF Init, Comm, GET_INFO, GET_DATA_BY_OFFSET, GetInfoLength, GetDataLength,
     EFI_SUCCESS, EFI_ACCESS_DENIED, StatusUnset
<1>2. smmSize \in Nat /\ smmDatabase \in Buffer(smmSize)
  BY TransferAssumption DEF Init, TransferAssumption
<1>3. failures \in 0 .. MaxFailures
  BY TransferAssumption DEF Init, TransferAssumption
<1> QED
  BY <1>1, <1>2, <1>3 DEF Init, Inv, TypeOK, LoopInv, TransferFaithful, Pcs

(* The request of the loop fits both the window and what is left to fetch. *)
LEMMA RequestFits ==
  ASSUME comm \in Comm, comm.DumpOffset < appSize, appSize \in Nat, capacity \in Nat
  PROVE  /\ Request \in Comm
         /\ Request = [comm EXCEPT !.DumpSize = Request.DumpSize]
         /\ Request.DumpSize <= capacity
         /\ Request.DumpOffset + Request.DumpSize <= appSize
<1>1. ChunkSize \in Nat /\ ChunkSize <= capacity /\ comm.DumpOffset + ChunkSize <= appSize
  BY DEF ChunkSize, Comm
<1> QED
  BY <1>1 DEF Request, Comm

(* A GET_DATA_BY_OFFSET request within the database is answered in full, with *)
(* the bytes at its offset, or refused and left alone.                       *)
LEMMA HandlerAnswers ==
  ASSUME NEW c \in Comm, c.Command = GET_DATA_BY_OFFSET, smmPresent,
         smmSize \in Nat, smmDatabase \in Buffer(smmSize), capacity \in Nat,
         window \in Buffer(capacity),
         c.DumpSize <= capacity, c.DumpOffset < smmSize, c.DumpOffset + c.DumpSize <= smmSize
  PROVE  LET r == SmmCoreDumpHandler(c)
             w == WindowAfter(c)
         IN  /\ r \in Comm /\ w \in Buffer(capacity)
             /\ r.Command = GET_DATA_BY_OFFSET
             /\ r.DumpSize = c.DumpSize
             /\ \/ r.DumpOffset = c.DumpOffset /\ r.ReturnStatus # EFI_SUCCESS
                \/ /\ r.DumpOffset = c.DumpOffset + c.DumpSize
                   /\ \A i \in 0 .. c.DumpSize - 1 : w[i] = smmDatabase[c.DumpOffset + i]
<1>1. ClampedSize(c) = c.DumpSize
  BY DEF ClampedSize, Comm
<1>2. WindowAfter(c) \in Buffer(capacity)
  BY <1>1 DEF WindowAfter, Buffer, Comm
<1>3. CASE outsideSmm /\ c.Length = GetDataLength
  <2> DEFINE d == SmmCoreDumpCopyData(c)
  <2>1. d \in Comm /\ d.Command = c.Command /\ d.DumpSize = c.DumpSize
        /\ d.DumpOffset = c.DumpOffset + c.DumpSize
    <3>1. c.DumpSize \in Nat /\ c.DumpOffset \in Nat /\ c.DumpOffset + c.DumpSize \in Nat
      BY DEF Comm
    <3>2. d = [c EXCEPT !.DumpSize = c.DumpSize, !.DumpOffset = c.DumpOffset + c.DumpSize]
      BY <1>1, <3>1 DEF SmmCoreDumpCopyData
    <3> QED
      BY <3>1, <3>2 DEF Comm
  <2>2. SmmCoreDumpHandler(c) = [d EXCEPT !.ReturnStatus = EFI_SUCCESS]
    BY <1>3 DEF SmmCoreDumpHandler, SmmCoreDumpHandlerGetDataByOffset,
       GET_INFO, GET_DATA_BY_OFFSET, HeaderLength, GetDataLength
  <2>3. \A i \in 0 .. c.DumpSize - 1 : WindowAfter(c)[i] = smmDatabase[c.DumpOffset + i]
    BY <1>1, <1>3 DEF WindowAfter, Buffer, Comm
  <2> HIDE DEF d
  <2>4. LET r == SmmCoreDumpHandler(c)
        IN  r \in Comm /\ r.Command = d.Command /\ r.DumpSize = d.DumpSize /\ r.DumpOffset = d.DumpOffset
    BY <2>1, <2>2 DEF Comm
  <2> QED
    BY <1>2, <2>1, <2>3, <2>4
<1>4. CASE ~(outsideSmm /\ c.Length = GetDataLength)
  <2>1. \/ SmmCoreDumpHandler(c) = [c EXCEPT !.ReturnStatus = EFI_ACCESS_DENIED]
        \/ SmmCoreDumpHandler(c) = [c EXCEPT !.ReturnStatus = StatusUnset]
    BY <1>4 DEF SmmCoreDumpHandler, SmmCoreDumpHandlerGetDataByOffset,
       GET_INFO, GET_DATA_BY_OFFSET, HeaderLength, GetInfoLength, GetDataLength, Comm
  <2> QED
    BY <1>2, <2>1 DEF Comm, EFI_SUCCESS, EFI_ACCESS_DENIED, StatusUnset
<1> QED
  BY <1>3, <1>4

(* Every step of a caller and of the handler keeps it.                     *)
LEMMA NextInv == Inv /\ [Next]_vars => Inv'
<1> SUFFICES ASSUME Inv, [Next]_vars PROVE Inv'
  OBVIOUS
<1> USE TransferAssumption DEF TransferAssumption
<1>1. CASE ServicesMissing
  BY <1>1 DEF ServicesMissing, Inv, TypeOK, LoopInv, TransferFaithful, Delivered, smmVars, appVars, Pcs
<1>2. CASE FindRegion
  BY <1>2, RegionRoom DEF FindRegion, Inv, TypeOK, LoopInv, TransferFaithful, Delivered, smmVars, Pcs,
     Comm, GET_INFO, GET_DATA_BY_OFFSET, GetInfoLength, GetDataLength, EFI_SUCCESS, EFI_ACCESS_DENIED, StatusUnset
<1>3. CASE NoRegion
  BY <1>3 DEF NoRegion, Inv, TypeOK, LoopInv, TransferFaithful, Delivered, smmVars, appVars, Pcs
<1>4. CASE GetInfoFails
  BY <1>4 DEF GetInfoFails, CommunicateFails, Inv, TypeOK, LoopInv, TransferFaithful, Delivered, smmVars, appVars, Pcs
<1>5. CASE GetInfo
  <2> USE <1>5 DEF GetInfo, CommunicateRuns, Inv
  <2>1. window' = window
    BY DEF WindowAfter, LoopInv, GET_INFO, GET_DATA_BY_OFFSET
  <2>2. /\ comm' \in Comm
        /\ comm'.ReturnStatus = EFI_SUCCESS => smmPresent /\ comm'.DumpSize = smmSize
    <3>1. \/ comm' = comm
          \/ smmPresent /\ comm' = [comm EXCEPT !.DumpSize = smmSize, !.ReturnStatus = EFI_SUCCESS]
          \/ comm' = [comm EXCEPT !.ReturnStatus = StatusUnset]
      BY DEF SmmCoreDumpHandler, SmmCoreDumpHandlerGetInfo, LoopInv, GET_INFO, GET_DATA_BY_OFFSET
    <3>2. comm \in Comm /\ smmSize \in Nat /\ comm.ReturnStatus = StatusUnset
      BY DEF TypeOK, LoopInv
    <3>3. CASE comm' = comm
      BY <3>2, <3>3 DEF EFI_SUCCESS, StatusUnset
    <3>4. CASE smmPresent /\ comm' = [comm EXCEPT !.DumpSize = smmSize, !.ReturnStatus = EFI_SUCCESS]
      BY <3>2, <3>4 DEF Comm, EFI_SUCCESS
    <3>5. CASE comm' = [comm EXCEPT !.ReturnStatus = StatusUnset]
      BY <3>2, <3>5 DEF Comm, EFI_SUCCESS, StatusUnset
    <3> QED
      BY <3>1, <3>3, <3>4, <3>5
  <2>3. CASE comm'.ReturnStatus = EFI_SUCCESS
    BY <2>1, <2>2, <2>3 DEF TypeOK, LoopInv, TransferFaithful, Delivered, smmVars, Pcs
  <2>4. CASE comm'.ReturnStatus # EFI_SUCCESS
    BY <2>1, <2>2, <2>4 DEF TypeOK, LoopInv, TransferFaithful, Delivered, smmVars, Pcs
  <2> QED
    BY <2>3, <2>4
<1>6. CASE AllocateFails
  BY <1>6 DEF AllocateFails, Inv, TypeOK, LoopInv, TransferFaithful, Delivered, smmVars, appVars, Pcs
<1>7. CASE Allocate
  <2> USE <1>7 DEF Allocate, Inv
  <2>1. comm' \in Comm /\ comm'.DumpOffset = 0 /\ comm'.Command = GET_DATA_BY_OFFSET
    BY DEF TypeOK, Comm, GET_DATA_BY_OFFSET, GetDataLength, StatusUnset
  <2>2. appDatabase' \in Buffer(appSize)
    BY DEF Buffer
  <2> QED
    BY <2>1, <2>2 DEF TypeOK, LoopInv, TransferFaithful, Delivered, smmVars, Pcs
<1>8. CASE GetChunk
  <2> USE <1>8 DEF GetChunk, Inv
  <2>1. /\ Request \in Comm
        /\ Request = [comm EXCEPT !.DumpSize = Request.DumpSize]
        /\ Request.DumpSize <= capacity
        /\ Request.DumpOffset + Request.DumpSize <= smmSize
    BY RequestFits DEF LoopInv, TypeOK
  <2>2. comm' = SmmCoreDumpHandler(Request) /\ window' = WindowAfter(Request)
    BY DEF CommunicateRuns
  <2>3. Request.DumpOffset = comm.DumpOffset /\ Request.Command = GET_DATA_BY_OFFSET
    BY <2>1 DEF LoopInv, TypeOK, Comm
  <2>4. /\ comm' \in Comm /\ window' \in Buffer(capacity)
        /\ comm'.Command = GET_DATA_BY_OFFSET
        /\ comm'.DumpSize = Request.DumpSize
        /\ \/ comm'.DumpOffset = offset' /\ comm'.ReturnStatus # EFI_SUCCESS
           \/ /\ comm'.DumpOffset = offset' + comm'.DumpSize
              /\ \A i \in 0 .. comm'.DumpSize - 1 : window'[i] = smmDatabase[offset' + i]
    BY <2>1, <2>2, <2>3, HandlerAnswers DEF LoopInv, TypeOK
  <2>5. TypeOK'
    <3>1. offset' \in Nat
      BY DEF TypeOK, Comm
    <3> QED
      BY <2>4, <3>1 DEF TypeOK, CommunicateRuns, smmVars, Pcs
  <2>6. offset' \in Nat /\ offset' < appSize /\ appSize = smmSize /\ offset' + comm'.DumpSize <= smmSize
        /\ comm'.DumpSize <= capacity /\ comm'.DumpOffset <= smmSize
    BY <2>1, <2>3, <2>4 DEF TypeOK, LoopInv, Comm
  <2>7. Delivered(offset)' /\ appDatabase' = appDatabase /\ smmDatabase' = smmDatabase
    BY DEF LoopInv, Delivered, smmVars
  <2>8. LoopInv'
    BY <2>4, <2>6, <2>7 DEF TypeOK, LoopInv, smmVars
  <2> QED
    BY <2>5, <2>8 DEF TransferFaithful
<1>9. CASE GetChunkFails
  <2> USE <1>9 DEF GetChunkFails, CommunicateFails, Inv
  <2>1. /\ comm' \in Comm
        /\ comm' = [comm EXCEPT !.DumpSize = comm'.DumpSize]
        /\ comm'.DumpSize <= capacity
        /\ comm'.DumpOffset + comm'.DumpSize <= smmSize
    BY RequestFits DEF LoopInv, TypeOK
  <2>2. comm'.DumpOffset = comm.DumpOffset /\ comm'.Command = comm.Command
    BY <2>1 DEF LoopInv, TypeOK, Comm
  <2>3. TypeOK'
    <3>1. offset' \in Nat /\ failures' \in 0 .. MaxFailures
      BY DEF TypeOK, Comm
    <3> QED
      BY <2>1, <3>1 DEF TypeOK, smmVars, Pcs
  <2>4. Delivered(offset)' /\ appDatabase' = appDatabase /\ smmDatabase' = smmDatabase
    BY DEF LoopInv, Delivered, smmVars
  <2>5. LoopInv'
    BY <2>1, <2>2, <2>4 DEF TypeOK, LoopInv, smmVars
  <2> QED
    BY <2>3, <2>5 DEF TransferFaithful
<1>10. CASE StoreRefused
  BY <1>10 DEF StoreRefused, Inv, TypeOK, LoopInv, TransferFaithful, Delivered, smmVars, Pcs
<1>11. CASE StoreChunk
  <2> USE <1>11 DEF StoreChunk, Inv
  <2>1. appDatabase' \in Buffer(appSize)
    BY DEF TypeOK, LoopInv, Buffer, Comm
  <2>2. ASSUME NEW i \in 0 .. comm.DumpOffset - 1
        PROVE  appDatabase'[i] = smmDatabase[i]
    <3>1. /\ comm.DumpOffset \in Nat /\ comm.DumpSize \in Nat /\ offset \in Nat /\ appSize \in Nat
          /\ i \in 0 .. appSize-1
          /\ appSize = smmSize
      BY DEF TypeOK, LoopInv, Comm
    <3>2. CASE i < offset
      BY <3>1, <3>2 DEF LoopInv, Delivered
    <3>3. CASE i >= offset
      <4>1. /\ comm.DumpOffset = offset + comm.DumpSize
            /\ \A j \in 0 .. comm.DumpSize - 1 : window[j] = smmDatabase[offset + j]
        BY <3>1, <3>3 DEF LoopInv
      <4>2. i - offset \in 0 .. comm.DumpSize - 1 /\ offset + (i - offset) = i
        BY <3>1, <3>3, <4>1
      <4>3. window[i - offset] = smmDatabase[i]
        BY <4>1, <4>2
      <4> QED
        BY <3>1, <3>3, <4>2, <4>3
    <3> QED
      BY <3>1, <3>2, <3>3
  <2>3. Delivered(comm.DumpOffset)'
    BY <2>2 DEF Delivered, smmVars
  <2> QED
    BY <2>1, <2>3 DEF TypeOK, LoopInv, TransferFaithful, smmVars, Pcs
<1>12. CASE LoopEnds
  BY <1>12 DEF LoopEnds, Inv, TypeOK, LoopInv, TransferFaithful, Delivered, smmVars, appVars, Pcs, Comm
<1>13. CASE UNCHANGED vars
  BY <1>13 DEF vars, Inv, TypeOK, LoopInv, TransferFaithful, Delivered, smmVars, appVars
<1> QED
  BY <1>1, <1>2, <1>3, <1>4, <1>5, <1>6, <1>7, <1>8, <1>9, <1>10, <1>11, <1>12, <1>13 DEF Next

(* It holds in every state.                                                *)
LEMMA SpecInv == Spec => []Inv
BY InitInv, NextInv, PTL DEF Spec

(* The types hold throughout GetSmmCoreDatabase. *)
THEOREM TypeCorrect == Spec => []TypeOK
<1>1. Inv => TypeOK
  BY DEF Inv
<1> QED
  BY <1>1, SpecInv, PTL

(* A buffer that GetSmmCoreDatabase leaves is the driver's database. *)
THEOREM Faithful == Spec => []TransferFaithful
<1>1. Inv => TransferFaithful
  BY DEF Inv
<1> QED
  BY <1>1, SpecInv, PTL

(* The CopyMem of GetSmmCoreDatabase stays within both buffers. *)
THEOREM InBounds == Spec => []StoreInBounds
<1>1. Inv => StoreInBounds
  BY DEF Inv, LoopInv, StoreInBounds
<1> QED
  BY <1>1, SpecInv, PTL

(* With ASSERTs only fresh answers are copied. *)
THEOREM Fresh == Spec => []FreshAnswer
<1>1. Inv => FreshAnswer
  BY DEF Inv, LoopInv, FreshAnswer
<1> QED
  BY <1>1, SpecInv, PTL

(* Every step of the transfer is a step of DumpSnapshot or invisible in it. *)
THEOREM Refinement == Spec => ImplementsSnapshot
<1>1. Init => Snapshot!Init
  BY DEF Init, Snapshot!Init, Terminal
<1>2. Inv /\ [Next]_vars => [Snapshot!Next]_Snapshot!vars
  <2> SUFFICES ASSUME Inv, [Next]_vars PROVE [Snapshot!Next]_Snapshot!vars
    OBVIOUS
  <2> USE DEF Terminal
  <2>1. CASE ServicesMissing \/ GetInfoFails \/ AllocateFails
    BY <2>1 DEF Inv, LoopInv, ServicesMissing, GetInfoFails, AllocateFails, smmVars, appVars,
       Snapshot!Next, Snapshot!Refuse
  <2>2. CASE NoRegion
    BY <2>2 DEF NoRegion, smmVars, appVars, Snapshot!Next, Snapshot!Stop
  <2>3. CASE FindRegion \/ Allocate \/ GetChunk \/ StoreChunk
    BY <2>3 DEF FindRegion, Allocate, GetChunk, StoreChunk, smmVars, Snapshot!vars
  <2>4. CASE GetInfo
    BY <2>4 DEF Inv, LoopInv, GetInfo, smmVars, Snapshot!Next, Snapshot!Refuse, Snapshot!vars
  <2>5. CASE GetChunkFails
    BY <2>5 DEF GetChunkFails, smmVars, Snapshot!Next, Snapshot!Stop, Snapshot!vars
  <2>6. CASE StoreRefused
    BY <2>6 DEF StoreRefused, smmVars, Snapshot!Next, Snapshot!Refuse
  <2>7. CASE LoopEnds
    <3>1. appSize = smmSize /\ appDatabase = smmDatabase
      <4>1. comm.DumpOffset = smmSize /\ appSize = smmSize
        BY <2>7 DEF LoopEnds, Inv, TypeOK, LoopInv, Comm
      <4>2. appDatabase \in Buffer(smmSize) /\ smmDatabase \in Buffer(smmSize) /\ Delivered(smmSize)
        BY <2>7, <4>1 DEF LoopEnds, Inv, TypeOK, LoopInv
      <4>3. /\ appDatabase = [i \in 0 .. smmSize-1 |-> appDatabase[i]]
            /\ smmDatabase = [i \in 0 .. smmSize-1 |-> smmDatabase[i]]
        BY <4>2 DEF Buffer
      <4>4. [i \in 0 .. smmSize-1 |-> appDatabase[i]] = [i \in 0 .. smmSize-1 |-> smmDatabase[i]]
        BY <4>2 DEF Delivered
      <4> QED
        BY <4>1, <4>3, <4>4
    <3> QED
      BY <2>7, <3>1 DEF LoopEnds, Inv, TypeOK, smmVars, appVars, Snapshot!Next, Snapshot!Deliver
  <2>8. CASE UNCHANGED vars
    BY <2>8 DEF vars, smmVars, appVars, Snapshot!vars
  <2> QED
    BY <2>1, <2>2, <2>3, <2>4, <2>5, <2>6, <2>7, <2>8 DEF Next
<1> QED
  BY <1>1, <1>2, SpecInv, PTL DEF Spec, ImplementsSnapshot, Snapshot!Spec
=============================================================================

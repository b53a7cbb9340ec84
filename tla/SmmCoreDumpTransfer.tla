------------------------- MODULE SmmCoreDumpTransfer -------------------------
(***************************************************************************)
(* How SmmCoreDumpApp (UEFI shell) fetches the database that the           *)
(* SmmCoreDump driver built inside SMRAM.                                  *)
(*                                                                         *)
(* The application writes a request into a communication buffer that lives *)
(* outside SMRAM, raises a software SMI through                            *)
(* EFI_SMM_COMMUNICATION_PROTOCOL.Communicate, and SmmCoreDumpHandler      *)
(* answers in place.  GET_INFO returns the size of the database, then      *)
(* GET_DATA_BY_OFFSET is repeated until DumpOffset reaches that size; each *)
(* call copies one chunk into the window behind the request header and the *)
(* application copies the window into its own buffer.                      *)
(*                                                                         *)
(* One field survives from one request to the next: ReturnStatus is preset *)
(* to (UINT64)-1 once before the loop, not once per request.  In a build   *)
(* without ASSERTs a Communicate that fails in the middle of the loop is   *)
(* therefore taken for a success; the model keeps that path.               *)
(***************************************************************************)
EXTENDS Integers, Sequences

CONSTANTS
  Bytes,              \* what one byte of the database can hold
  ZeroByte,           \* what AllocateZeroPool fills a buffer with
  MaxDatabaseSize,    \* bound: largest database the driver builds
  RegionTables,       \* the communication region tables a platform may publish
  MinimalSizeNeeded,  \* EFI_PAGE_SIZE in GetSmmCoreDatabase
  CommSize,           \* bytes of EFI_SMM_COMMUNICATE_HEADER and the request
  AssertsEnabled,     \* TRUE: DEBUG build, a failed ASSERT stops the program
  MaxFailures         \* bound: how many Communicate calls may fail

ASSUME TransferAssumption ==
  /\ ZeroByte \in Bytes
  /\ MaxDatabaseSize \in Nat
  /\ MinimalSizeNeeded \in Nat
  /\ CommSize \in Nat
  /\ CommSize < MinimalSizeNeeded
  /\ \A t \in RegionTables : \A i \in 1..Len(t) : t[i].size \in Nat
  /\ AssertsEnabled \in BOOLEAN
  /\ MaxFailures \in Nat

VARIABLES
  smmPresent,   \* the driver's mSmmCoreDatabase is not NULL
  smmSize,      \* the driver's mSmmCoreDatabaseSize
  smmDatabase,  \* the bytes mSmmCoreDatabase points to
  outsideSmm,   \* what SmmIsBufferOutsideSmmValid says of the window
  regions,      \* PiSmmCommunicationRegionTable
  comm,         \* the request structure in the communication buffer
  window,       \* the bytes behind it, where DumpBuffer points
  pc,           \* where GetSmmCoreDatabase is
  offset,       \* its local Offset
  capacity,     \* its local Size
  appPresent,   \* the application's mSmmCoreDatabase is not NULL
  appSize,      \* the application's mSmmCoreDatabaseSize
  appDatabase,  \* the bytes of the application's buffer
  failures      \* Communicate calls that failed so far

smmVars == <<smmPresent, smmSize, smmDatabase, outsideSmm, regions>>
appVars == <<offset, capacity, appPresent, appSize, appDatabase>>
vars == <<smmVars, comm, window, pc, appVars, failures>>

(* SMM_CORE_DUMP_PARAMETER_*: commands, sizeof of each, EFI_STATUS values. *)
GET_INFO            == 1
GET_DATA_BY_OFFSET  == 2
HeaderLength        == 16
GetInfoLength       == 24
GetDataLength       == 40
EFI_SUCCESS         == 0
EFI_ACCESS_DENIED   == 15
StatusUnset         == -1

Comm == [Command : {GET_INFO, GET_DATA_BY_OFFSET}, Length : {GetInfoLength, GetDataLength},
         ReturnStatus : {EFI_SUCCESS, EFI_ACCESS_DENIED, StatusUnset},
         DumpSize : Nat, DumpOffset : Nat]

Buffer(n) == [0 .. n-1 -> Bytes]

-----------------------------------------------------------------------------
(* The SMI handler: a function from the request to the answer. *)

(* *DumpSize after SmmCoreDumpCopyData, for a request below the end. *)
ClampedSize(c) ==
  IF smmSize - c.DumpOffset < c.DumpSize THEN smmSize - c.DumpOffset ELSE c.DumpSize

StuckCopyData(c) ==                \* mutant: *DumpOffset is not advanced
  IF c.DumpOffset >= smmSize
  THEN [c EXCEPT !.DumpOffset = smmSize]
  ELSE [c EXCEPT !.DumpSize = ClampedSize(c)]

SmmCoreDumpCopyData(c) ==
  IF c.DumpOffset >= smmSize
  THEN [c EXCEPT !.DumpOffset = smmSize]
  ELSE [c EXCEPT !.DumpSize = ClampedSize(c), !.DumpOffset = c.DumpOffset + ClampedSize(c)]

SmmCoreDumpHandlerGetDataByOffset(c) ==
  IF outsideSmm
  THEN [SmmCoreDumpCopyData(c) EXCEPT !.ReturnStatus = EFI_SUCCESS]
  ELSE [c EXCEPT !.ReturnStatus = EFI_ACCESS_DENIED]

SmmCoreDumpHandlerGetInfo(c) ==
  [c EXCEPT !.DumpSize = smmSize, !.ReturnStatus = EFI_SUCCESS]

SmmCoreDumpHandler(c) ==
  IF ~smmPresent \/ c.Length < HeaderLength THEN c
  ELSE IF c.Command = GET_INFO /\ c.Length = GetInfoLength
       THEN SmmCoreDumpHandlerGetInfo(c)
  ELSE IF c.Command = GET_DATA_BY_OFFSET /\ c.Length = GetDataLength
       THEN SmmCoreDumpHandlerGetDataByOffset(c)
  ELSE [c EXCEPT !.ReturnStatus = StatusUnset]

(* What the handler leaves in the window: CopyMem of SmmCoreDumpCopyData. *)
WindowAfter(c) ==
  IF /\ smmPresent /\ outsideSmm
     /\ c.Command = GET_DATA_BY_OFFSET /\ c.Length = GetDataLength
     /\ c.DumpOffset < smmSize
  THEN [i \in DOMAIN window |->
          IF i < ClampedSize(c) THEN smmDatabase[c.DumpOffset + i] ELSE window[i]]
  ELSE window

(* Communicate itself is firmware: it reports an error without entering the *)
(* handler, or it runs the handler on the buffer before it returns.         *)
CommunicateFails ==
  /\ failures < MaxFailures
  /\ failures' = failures + 1

CommunicateRuns(c) ==
  /\ comm' = SmmCoreDumpHandler(c)
  /\ window' = WindowAfter(c)
  /\ UNCHANGED failures

-----------------------------------------------------------------------------
(* The application: GetSmmCoreDatabase, one action per stretch of code      *)
(* between two calls that leave the program.                                *)

(* The region loop stops at the first conventional entry of enough pages. *)
Usable(e) == e.conventional /\ e.size >= MinimalSizeNeeded

UsableRegions == {i \in 1..Len(regions) : Usable(regions[i])}

FirstUsable(i) == i \in UsableRegions /\ \A j \in UsableRegions : i <= j

(* The protocol or the configuration table is missing: print and return. *)
ServicesMissing ==
  /\ pc = "locate"
  /\ pc' = "done"
  /\ UNCHANGED <<smmVars, comm, window, appVars, failures>>

(* Find the region and lay the request out at its start. *)
FindRegion ==
  /\ pc = "locate"
  /\ \E i \in UsableRegions :
       /\ FirstUsable(i)
       /\ capacity' = regions[i].size
       /\ window' \in Buffer(regions[i].size - CommSize)
  /\ comm' = [Command |-> GET_INFO, Length |-> GetInfoLength,
              ReturnStatus |-> StatusUnset, DumpSize |-> 0, DumpOffset |-> 0]
  /\ pc' = "getInfo"
  /\ UNCHANGED <<smmVars, offset, appPresent, appSize, appDatabase, failures>>

(* ASSERT(Index < NumberOfEntries): without ASSERTs Entry is past the table *)
(* and nothing is known of what follows.                                    *)
NoRegion ==
  /\ pc = "locate" /\ UsableRegions = {}
  /\ pc' = IF AssertsEnabled THEN "assert" ELSE "undefined"
  /\ UNCHANGED <<smmVars, comm, window, appVars, failures>>

(* The first Communicate fails: print and return. *)
GetInfoFails ==
  /\ pc = "getInfo"
  /\ CommunicateFails
  /\ pc' = "done"
  /\ UNCHANGED <<smmVars, comm, window, appVars>>

GetInfo ==
  /\ pc = "getInfo"
  /\ CommunicateRuns(comm)
  /\ IF comm'.ReturnStatus = EFI_SUCCESS
     THEN /\ appSize' = comm'.DumpSize
          /\ pc' = "allocate"
     ELSE /\ pc' = "done"
          /\ UNCHANGED appSize
  /\ UNCHANGED <<smmVars, offset, capacity, appPresent, appDatabase>>

(* AllocateZeroPool returns NULL: print and return. *)
AllocateFails ==
  /\ pc = "allocate"
  /\ pc' = "done"
  /\ UNCHANGED <<smmVars, comm, window, appVars, failures>>

HeaderBlindAllocate ==             \* mutant: the header's room is offered for data too
  /\ pc = "allocate"
  /\ appPresent' = TRUE
  /\ appDatabase' = [i \in 0 .. appSize-1 |-> ZeroByte]
  /\ comm' = [comm EXCEPT !.Command = GET_DATA_BY_OFFSET, !.Length = GetDataLength,
                          !.ReturnStatus = StatusUnset, !.DumpOffset = 0]
  /\ pc' = "loop"
  /\ UNCHANGED <<smmVars, window, offset, capacity, appSize, failures>>

(* The buffer, and the request header that the whole loop reuses. *)
Allocate ==
  /\ pc = "allocate"
  /\ appPresent' = TRUE
  /\ appDatabase' = [i \in 0 .. appSize-1 |-> ZeroByte]
  /\ comm' = [comm EXCEPT !.Command = GET_DATA_BY_OFFSET, !.Length = GetDataLength,
                          !.ReturnStatus = StatusUnset, !.DumpOffset = 0]
  /\ capacity' = capacity - CommSize
  /\ pc' = "loop"
  /\ UNCHANGED <<smmVars, window, offset, appSize, failures>>

(* The head of the while loop: Offset and DumpSize of the next request. *)
WholeRestChunkSize == appSize - comm.DumpOffset   \* mutant: ignores the room in the region

ChunkSize ==
  IF capacity <= appSize - comm.DumpOffset THEN capacity ELSE appSize - comm.DumpOffset

Request == [comm EXCEPT !.DumpSize = ChunkSize]

GetChunk ==
  /\ pc = "loop" /\ comm.DumpOffset < appSize
  /\ offset' = comm.DumpOffset
  /\ CommunicateRuns(Request)
  /\ pc' = "store"
  /\ UNCHANGED <<smmVars, capacity, appPresent, appSize, appDatabase>>

(* ASSERT_EFI_ERROR stops a DEBUG build; a RELEASE build goes on with the   *)
(* request as it was written and whatever ReturnStatus held.                *)
AdvancingGetChunkFails ==          \* mutant: the loop steps DumpOffset itself
  /\ pc = "loop" /\ comm.DumpOffset < appSize
  /\ offset' = comm.DumpOffset
  /\ CommunicateFails
  /\ comm' = [Request EXCEPT !.DumpOffset = comm.DumpOffset + ChunkSize]
  /\ pc' = IF AssertsEnabled THEN "assert" ELSE "store"
  /\ UNCHANGED <<smmVars, window, capacity, appPresent, appSize, appDatabase>>

GetChunkFails ==
  /\ pc = "loop" /\ comm.DumpOffset < appSize
  /\ offset' = comm.DumpOffset
  /\ CommunicateFails
  /\ comm' = Request
  /\ pc' = IF AssertsEnabled THEN "assert" ELSE "store"
  /\ UNCHANGED <<smmVars, window, capacity, appPresent, appSize, appDatabase>>

(* ReturnStatus is an error: free the buffer and return. *)
StoreRefused ==
  /\ pc = "store" /\ comm.ReturnStatus # EFI_SUCCESS
  /\ appPresent' = FALSE
  /\ pc' = "done"
  /\ UNCHANGED <<smmVars, comm, window, offset, capacity, appSize, appDatabase, failures>>

(* CopyMem(mSmmCoreDatabase + Offset, DumpBuffer, DumpSize). *)
LateStoreChunk ==                  \* mutant: CopyMem at DumpOffset, which the answer moved
  /\ pc = "store" /\ comm.ReturnStatus = EFI_SUCCESS
  /\ appDatabase' = [i \in 0 .. appSize-1 |->
                       IF comm.DumpOffset <= i /\ i < comm.DumpOffset + comm.DumpSize
                       THEN window[i - comm.DumpOffset] ELSE appDatabase[i]]
  /\ pc' = "loop"
  /\ UNCHANGED <<smmVars, comm, window, offset, capacity, appPresent, appSize, failures>>

StoreChunk ==
  /\ pc = "store" /\ comm.ReturnStatus = EFI_SUCCESS
  /\ appDatabase' = [i \in 0 .. appSize-1 |->
                       IF offset <= i /\ i < offset + comm.DumpSize
                       THEN window[i - offset] ELSE appDatabase[i]]
  /\ pc' = "loop"
  /\ UNCHANGED <<smmVars, comm, window, offset, capacity, appPresent, appSize, failures>>

LoopEnds ==
  /\ pc = "loop" /\ comm.DumpOffset >= appSize
  /\ pc' = "done"
  /\ UNCHANGED <<smmVars, comm, window, appVars, failures>>

-----------------------------------------------------------------------------
Init ==
  /\ smmPresent \in BOOLEAN
  /\ smmSize \in 0 .. MaxDatabaseSize
  /\ smmDatabase \in Buffer(smmSize)
  /\ outsideSmm \in BOOLEAN
  /\ regions \in RegionTables
  /\ comm = [Command |-> GET_INFO, Length |-> GetInfoLength,
             ReturnStatus |-> StatusUnset, DumpSize |-> 0, DumpOffset |-> 0]
  /\ window = [i \in 0 .. -1 |-> ZeroByte]
  /\ pc = "locate"
  /\ offset = 0 /\ capacity = 0
  /\ appPresent = FALSE /\ appSize = 0 /\ appDatabase = [i \in 0 .. -1 |-> ZeroByte]
  /\ failures = 0

Next ==
  \/ ServicesMissing \/ FindRegion \/ NoRegion
  \/ GetInfoFails \/ GetInfo
  \/ AllocateFails \/ Allocate
  \/ GetChunk \/ GetChunkFails
  \/ StoreRefused \/ StoreChunk \/ LoopEnds

(* The application is one thread that keeps running until it returns. *)
Fairness == WF_vars(Next)

Spec == Init /\ [][Next]_vars
FairSpec == Spec /\ Fairness

-----------------------------------------------------------------------------
Pcs == {"locate", "getInfo", "allocate", "loop", "store", "done", "assert", "undefined"}

Terminal == {"done", "assert", "undefined"}

(* The variables keep their types, and each buffer the size its allocation  *)
(* gave it.                                                                 *)
TypeOK ==
  /\ smmPresent \in BOOLEAN /\ outsideSmm \in BOOLEAN /\ appPresent \in BOOLEAN
  /\ smmSize \in Nat /\ smmDatabase \in Buffer(smmSize)
  /\ regions \in RegionTables
  /\ comm \in Comm
  /\ pc \in Pcs
  /\ offset \in Nat /\ capacity \in Nat /\ appSize \in Nat /\ failures \in 0 .. MaxFailures
  /\ pc \in {"getInfo", "allocate"} => capacity >= CommSize /\ window \in Buffer(capacity - CommSize)
  /\ pc \in {"loop", "store"} => window \in Buffer(capacity)
  /\ pc \in {"loop", "store"} => appPresent
  /\ appPresent => appDatabase \in Buffer(appSize)

(* The first n bytes of the application's buffer are the driver's. *)
Delivered(n) == \A i \in 0 .. n-1 : appDatabase[i] = smmDatabase[i]

(* GetSmmCoreDatabase leaves a buffer behind only if it is the driver's      *)
(* database, byte for byte and of the same size: the callers, which walk the *)
(* buffer by the Length fields in it, never see a hole or a stale chunk,     *)
(* even when Communicate failed in the middle of the loop and the stale      *)
(* ReturnStatus let the old window through.                                  *)
TransferFaithful ==
  pc = "done" /\ appPresent => appSize = smmSize /\ Delivered(smmSize)

(* The CopyMem of the application never reads past the window nor writes     *)
(* past its buffer, whichever DumpSize the handler or a failed Communicate   *)
(* left in the request.                                                      *)
StoreInBounds ==
  pc = "store" /\ comm.ReturnStatus = EFI_SUCCESS =>
    /\ comm.DumpSize <= capacity
    /\ offset + comm.DumpSize <= appSize

(* In a build with ASSERTs what the application copies is always the answer  *)
(* to the request it has just made, never one a failed Communicate left.     *)
FreshAnswer ==
  AssertsEnabled /\ pc = "store" /\ comm.ReturnStatus = EFI_SUCCESS =>
    /\ comm.DumpOffset = offset + comm.DumpSize
    /\ \A i \in 0 .. comm.DumpSize - 1 : window[i] = smmDatabase[offset + i]

(* The loop ends: as only MaxFailures calls fail, GetSmmCoreDatabase returns *)
(* or stops at an ASSERT.                                                    *)
TransferTerminates == <>(pc \in Terminal)

(* What the transfer promises, read off the program's state. *)
Snapshot == INSTANCE DumpSnapshot WITH
  source <- [size |-> smmSize, bytes |-> smmDatabase],
  status <- IF pc = "done" THEN IF appPresent THEN "delivered" ELSE "refused"
            ELSE IF pc \in Terminal THEN "stopped" ELSE "pending",
  copy   <- IF pc = "done" /\ appPresent
            THEN [size |-> appSize, bytes |-> appDatabase]
            ELSE [size |-> 0, bytes |-> [i \in 0 .. -1 |-> ZeroByte]],
  Nothing <- [size |-> 0, bytes |-> [i \in 0 .. -1 |-> ZeroByte]]

(* The chunked, retried, in-place protocol looks like one atomic copy of the *)
(* driver's database, or like nothing at all.                                *)
ImplementsSnapshot == Snapshot!Spec
=============================================================================

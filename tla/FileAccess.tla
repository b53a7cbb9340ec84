----------------------------- MODULE FileAccess -----------------------------
(***************************************************************************)
(* The file helpers of the applications: reading a file of this volume or  *)
(* of the only volume that has it, writing a file, the n-th file of a      *)
(* directory (AppSupport.c of PcdDump, SupportFile.c of the core dumps),   *)
(* and the helpers of DbxEnroll, BootOption and StackUsage that go through *)
(* the shell.                                                              *)
(*                                                                         *)
(* Each helper is a sequence of calls.  A call acquires handles or pool    *)
(* memory; when it fails the helper releases what "undo" names and returns *)
(* "status", when it succeeds it releases what "after" names and goes on.  *)
(* Any call may fail.  "open_volume" stands for OpenVolume and the calls   *)
(* that find the volume before it: those of GetMyVol, or HandleProtocol in *)
(* a scan, which all return or go on as a failing OpenVolume does.         *)
(***************************************************************************)
EXTENDS Integers, Sequences, FiniteSets

CONSTANTS
  Bytes,     \* what files are made of
  Worlds     \* [vols, data, dir, index]: old contents per volume, data to write, a directory

VARIABLES
  world,
  helper,    \* the helper that was called
  program,   \* its calls
  step,      \* the next call
  vol,       \* the volume it works on
  disk,      \* contents of the file per volume, NoFile where there is none
  held,      \* handles open and buffers allocated
  handleBuffer, \* has LocateHandleBuffer allocated its array of volumes
  status,
  result,    \* [vol, data]: ThisVol and Buffer of the callers
  missed,    \* volumes on which a call has failed
  entry      \* position in the directory and number of files passed

fileVars == <<world, helper, program, step, vol, disk, held, handleBuffer, status, result, missed, entry>>

NoFile == <<"no_file">>

(* There is a volume, which has the file or does not.                      *)
WorldForm(w) ==
  /\ w.vols \in Seq(Seq(Bytes) \cup {NoFile}) /\ w.vols # <<>>
  /\ w.data \in Seq(Bytes)
  /\ w.dir \in Seq([isDir : BOOLEAN, suffix : BOOLEAN]) /\ w.index \in Nat
ASSUME WorldsAssumption == \A w \in Worlds : WorldForm(w)

Nothing == [vol |-> 0, data |-> NoFile]
Call(do, acquires, undo, after, st) == [do |-> do, acquires |-> acquires, undo |-> undo, after |-> after, status |-> st]

-----------------------------------------------------------------------------
(* The status of an allocation that fails is that of the call before it,   *)
(* EFI_SUCCESS, in ReadFileFromVol.                                        *)
ReadFileFromVol ==
  << Call("open_volume", {"RootDir"}, {}, {}, "error"),
     Call("open", {"Handle"}, {"RootDir"}, {"RootDir"}, "error"),
     Call("allocate", {"FileInfo"}, {"Handle"}, {}, "success"),
     Call("info", {}, {"Handle", "FileInfo"}, {}, "error"),
     Call("allocate", {"TempBuffer"}, {"Handle", "FileInfo"}, {"FileInfo"}, "success"),
     Call("read", {}, {"Handle", "TempBuffer"}, {"Handle"}, "error") >>

(* Delete closes the handle, whatever becomes of the file.                 *)
WriteFileFromBuffer ==
  << Call("open_volume", {"RootDir"}, {}, {}, "error"),
     Call("create", {"Handle"}, {"RootDir"}, {}, "error"),
     Call("delete", {}, {}, {"Handle"}, "error"),
     Call("create", {"Handle"}, {"RootDir"}, {"RootDir"}, "error"),
     Call("write", {}, {"Handle"}, {"Handle"}, "error") >>

(* The helpers on the shell protocol; a failed read keeps its buffer.      *)
ShellReadFileToBuffer ==
  << Call("open", {"Handle"}, {}, {}, "error"),
     Call("info", {}, {"Handle"}, {}, "error"),
     Call("allocate", {"TempBuffer"}, {"Handle"}, {}, "out_of_resources"),
     Call("read", {}, {"Handle"}, {"Handle"}, "error") >>
ShellWriteFileFromBuffer ==
  << Call("create", {"Handle"}, {}, {}, "error"),
     Call("info", {"FileInfo"}, {"Handle"}, {}, "error"),
     Call("empty", {}, {"FileInfo", "Handle"}, {"FileInfo"}, "error"),
     Call("write", {}, {"Handle"}, {"Handle"}, "error") >>

(* The calls of GetFileNameUnderDir before its loop.                       *)
GetFileNameUnderDir ==
  << Call("open_volume", {"RootDir"}, {}, {}, "error"),
     Call("open_dir", {"Handle"}, {"RootDir"}, {"RootDir"}, "error"),
     Call("set_position", {}, {"Handle"}, {}, "error"),
     Call("allocate", {"FileInfo"}, {"Handle"}, {}, "error") >>

Helpers == {"read", "scan", "write", "shell_read", "shell_write", "dir"}
Program(h) ==
  CASE h \in {"read", "scan"} -> ReadFileFromVol
    [] h = "write" -> WriteFileFromBuffer
    [] h = "shell_read" -> ShellReadFileToBuffer
    [] h = "shell_write" -> ShellWriteFileFromBuffer
    [] h = "dir" -> GetFileNameUnderDir

-----------------------------------------------------------------------------
(* GetMyVol, or the first volume of a scan.                                *)
FileInit ==
  /\ world \in Worlds /\ helper \in Helpers
  /\ program = Program(helper)
  /\ step = (IF helper = "scan" THEN 0 ELSE 1) /\ vol = 1 /\ disk = world.vols /\ held = {} /\ handleBuffer = FALSE /\ status = "running"
  /\ result = Nothing /\ missed = {} /\ entry = [at |-> 1, passed |-> 0]

(* A scan begins with LocateHandleBuffer.  No path of it frees the array.  *)
LocateVolumes ==
  /\ status = "running" /\ step = 0
  /\ \/ step' = 1 /\ handleBuffer' = TRUE /\ UNCHANGED <<status, missed>>
     \/ step' = Len(program) + 1 /\ status' = "not_found" /\ missed' = DOMAIN world.vols /\ UNCHANGED handleBuffer
  /\ UNCHANGED <<world, helper, program, vol, disk, held, result, entry>>

Running == status = "running" /\ step \in 1..Len(program)
Now == program[step]
Possible == Now.do \in {"open", "info", "read"} => disk[vol] # NoFile

(* A file is written from its start: what was longer stays behind.         *)
Written(old, new) ==
  IF old = NoFile THEN new ELSE new \o SubSeq(old, Len(new) + 1, Len(old))
Effect(do, old) ==
  CASE do = "delete" -> NoFile
    [] do = "create" -> IF old = NoFile THEN <<>> ELSE old
    [] do = "empty" -> <<>>
    [] do = "write" -> Written(old, world.data)
    [] OTHER -> old

(* A helper returns to its caller; in a scan the next volume is tried.     *)
LastCall == step = Len(program)
NextVolUntilFound == helper = "scan" /\ vol < Len(world.vols) /\ result'.vol = 0
NextVol == helper = "scan" /\ vol < Len(world.vols)
Continue ==
  IF NextVol THEN vol' = vol + 1 /\ step' = 1 /\ status' = "running"
  ELSE vol' = vol /\ step' = Len(program) + 1 /\ status' = (IF result'.vol = 0 THEN "not_found" ELSE "success")

CallOk ==
  /\ Running /\ Possible /\ Now.do # "delete"
  /\ disk' = [disk EXCEPT ![vol] = Effect(Now.do, @)]
  /\ LET after == (held \cup Now.acquires) \ Now.after
         buffer == [vol |-> vol, data |-> disk[vol]]
     IN  CASE ~LastCall ->
                held' = after /\ step' = step + 1 /\ UNCHANGED <<status, result, vol>>
           [] LastCall /\ helper = "scan" /\ result.vol # 0 ->
                (* a duplicate: both buffers are freed *)
                /\ held' = after \ {"TempBuffer", "Buffer"} /\ status' = "no_mapping" /\ step' = step + 1
                /\ result' = Nothing /\ UNCHANGED vol
           [] LastCall /\ helper = "scan" /\ result.vol = 0 ->
                held' = (after \ {"TempBuffer"}) \cup {"Buffer"} /\ result' = buffer /\ Continue
           [] LastCall /\ helper \in {"read", "shell_read"} ->
                held' = (after \ {"TempBuffer"}) \cup {"Buffer"} /\ result' = buffer /\ status' = "success" /\ step' = step + 1 /\ UNCHANGED vol
           [] LastCall /\ helper \in {"write", "shell_write"} ->
                held' = after /\ status' = "success" /\ step' = step + 1 /\ UNCHANGED <<result, vol>>
           [] OTHER -> held' = after /\ step' = step + 1 /\ UNCHANGED <<status, result, vol>>
  /\ UNCHANGED <<world, helper, program, handleBuffer, missed, entry>>

(* Delete has one failure, EFI_WARN_DELETE_FAILURE, which is no EFI_ERROR. *)
Deleted(warned) ==
  /\ Running /\ Now.do = "delete"
  /\ disk' = [disk EXCEPT ![vol] = IF warned THEN @ ELSE NoFile]
  /\ held' = held \ Now.after /\ step' = step + 1
  /\ missed' = IF warned THEN missed \cup {vol} ELSE missed
  /\ UNCHANGED <<world, helper, program, handleBuffer, vol, status, result, entry>>

(* An empty file is not emptied again.  A scan that is told of a success   *)
(* without a buffer goes on with a pointer nobody has set.                 *)
CallFails ==
  /\ Running /\ Now.do # "delete"
  /\ ~(Now.do = "empty" /\ disk[vol] = <<>>)
  /\ held' = held \ Now.undo /\ missed' = missed \cup {vol}
  /\ IF helper = "scan" /\ Now.status # "success"
       THEN result' = result /\ Continue
       ELSE /\ step' = Len(program) + 1 /\ status' = (IF helper = "scan" THEN "undefined" ELSE Now.status)
            /\ UNCHANGED <<vol, result>>
  /\ UNCHANGED <<world, helper, program, handleBuffer, disk, entry>>

-----------------------------------------------------------------------------
(* The loop of GetFileNameUnderDir over the entries of the directory.      *)
DirMatches(e) == ~e.isDir /\ e.suffix
Listing == helper = "dir" /\ status = "running" /\ step > Len(program)
InDir == entry.at <= Len(world.dir)
DirFound == InDir /\ DirMatches(world.dir[entry.at]) /\ entry.passed = world.index

DirNext ==
  /\ Listing /\ InDir /\ ~DirFound
  /\ entry' = [at |-> entry.at + 1, passed |-> IF DirMatches(world.dir[entry.at]) THEN entry.passed + 1 ELSE entry.passed]
  /\ UNCHANGED <<world, helper, program, handleBuffer, step, vol, disk, held, status, result, missed>>

(* A Read that fails ends the loop as the end of the directory does.       *)
DirFails ==
  /\ Listing
  /\ held' = held \ {"FileInfo", "Handle"} /\ status' = "not_found" /\ missed' = missed \cup {vol}
  /\ UNCHANGED <<world, helper, program, handleBuffer, step, vol, disk, result, entry>>

(* Without memory for the copy of the name NULL is returned, as at the end.*)
DirEnd ==
  /\ Listing
  /\ held' = held \ {"FileInfo", "Handle"}
  /\ \/ DirFound /\ status' = "success" /\ result' = [vol |-> entry.at, data |-> <<>>]
     \/ DirFound /\ status' = "no_name" /\ UNCHANGED result
     \/ ~InDir /\ status' = "not_found" /\ UNCHANGED result
  /\ UNCHANGED <<world, helper, program, handleBuffer, step, vol, disk, missed, entry>>

FileNext ==
  \/ LocateVolumes \/ CallOk \/ CallFails \/ (\E warned \in BOOLEAN : Deleted(warned))
  \/ DirNext \/ DirFails \/ DirEnd

FileSpec == FileInit /\ [][FileNext]_fileVars

-----------------------------------------------------------------------------
Returned == status # "running"

(* Whatever call fails, a helper returns with every file and directory it  *)
(* opened closed.                                                          *)
HandlesClosed == Returned => held \cap {"RootDir", "Handle"} = {}

(* The helpers on the file system leave no buffer allocated but the one    *)
(* they return (and the array below); a duplicate found late in a scan     *)
(* frees the earlier one.                                                  *)
BuffersFreed ==
  Returned /\ status # "undefined" /\ helper \in {"read", "scan", "write", "dir"} =>
    held \cap {"FileInfo", "TempBuffer", "Buffer"} = IF result.vol # 0 /\ helper \in {"read", "scan"} THEN {"Buffer"} ELSE {}

(* The array of volume handles is left behind by every scan that gets as   *)
(* far as reading a file, and by no other helper.                          *)
ArrayLeft ==
  /\ handleBuffer => helper = "scan"
  /\ helper = "scan" /\ status \in {"success", "no_mapping"} => handleBuffer

(* "If there is only one file match the name, it will be read. If there is *)
(* more than one file match the name, it will return Error."  The volumes  *)
(* counted are those that have the file and on which no call failed.       *)
ScanRight ==
  Returned /\ helper = "scan" /\ status # "undefined" =>
    LET with == {v \in 1..Len(world.vols) : world.vols[v] # NoFile} \ missed
    IN  CASE with = {} -> status = "not_found"
          [] Cardinality(with) = 1 -> status = "success" /\ result.vol \in with /\ result.data = world.vols[result.vol]
          [] Cardinality(with) > 1 -> status = "no_mapping"

(* A write that returns success leaves the file with the new data and      *)
(* nothing of the old, in the shell's helpers and in the file system's,    *)
(* unless Delete has warned: then the end of a longer old file stays.      *)
FileReplaced ==
  status = "success" /\ helper \in {"write", "shell_write"} =>
    LET old == world.vols[vol]
        rest == IF old = NoFile \/ Len(old) <= Len(world.data) THEN <<>> ELSE SubSeq(old, Len(world.data) + 1, Len(old))
    IN  disk[vol] = IF vol \in missed THEN world.data \o rest ELSE world.data

(* The directory helper returns the file with the index it was asked for,  *)
(* counting files with the suffix only, and none only when there are no    *)
(* more than that or the directory could not be read.                      *)
IndexedFile ==
  Returned /\ helper = "dir" =>
    LET hits == {i \in 1..Len(world.dir) : ~world.dir[i].isDir /\ world.dir[i].suffix}
    IN  /\ status = "success" =>
             LET i == result.vol IN i \in hits /\ Cardinality({j \in hits : j < i}) = world.index
        /\ status = "not_found" => missed # {} \/ Cardinality(hits) <= world.index

(* A file helper releases what it took whatever call fails, but for the    *)
(* array of a scan, reads the one file of that name, writes files whole    *)
(* and finds the file of an index.                                         *)
FilesRight == HandlesClosed /\ BuffersFreed /\ ArrayLeft /\ ScanRight /\ FileReplaced /\ IndexedFile
=============================================================================

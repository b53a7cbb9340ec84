-------------------------- MODULE ShellToolsProofs --------------------------
(***************************************************************************)
(* Proofs about the file helpers of the support files, for all volumes,    *)
(* contents and failing calls; about PatchMicrocode, for all machines,     *)
(* updates and widths of a word; about SmmProfileDump, for all memory      *)
(* maps, image tables and profiles and any number of page faults; about    *)
(* GetPciOprom, for all platforms, ROMs and command lines; about           *)
(* EsrtFmpDump, for all firmware protocols, capsules and tables.           *)
(***************************************************************************)
EXTENDS FileAccess, PciOprom, PatchMicrocode, SmmProfileDump, EsrtFmpDump, FiniteSetTheorems, SequenceTheorems, WellFoundedInduction, TLAPS

(* Induction on the natural numbers, for a set.                            *)
LEMMA Induction ==
  ASSUME NEW S, 0 \in S, \A n \in Nat : n \in S => n + 1 \in S
  PROVE  Nat \subseteq S
<1> DEFINE T == Nat \ S
<1> DEFINE R == OpToRel(<, Nat)
<1>1. SUFFICES ASSUME T # {} PROVE FALSE
  OBVIOUS
<1>2. IsWellFoundedOn(R, Nat)
  BY NatLessThanWellFounded
<1>3. PICK x \in T : \A y \in T : ~(<<y, x>> \in R)
  BY <1>1, <1>2, WFMin
<1>4. x \in Nat /\ x # 0 /\ x-1 \in Nat /\ x - 1 < x /\ x = (x-1) + 1
  OBVIOUS
<1>5. <<x-1,x>> \in R
  BY <1>4 DEF OpToRel
<1>6. x - 1 \in S
  <2> HIDE DEF R
  <2> QED BY <1>3, <1>4, <1>5
<1> QED BY <1>4, <1>6

-----------------------------------------------------------------------------
(* The file helpers.                                                       *)
(* What a helper holds before its n-th call.                               *)
Taken(h, n) ==
  IF n \in {0, 1} THEN {}
  ELSE CASE h \in {"read", "scan"} ->
              IF n = 2 THEN {"RootDir"} ELSE IF n = 3 THEN {"Handle"} ELSE IF n = 6 THEN {"Handle", "TempBuffer"} ELSE {"Handle", "FileInfo"}
         [] h = "write" ->
              IF n \in {2, 4} THEN {"RootDir"} ELSE IF n = 3 THEN {"RootDir", "Handle"} ELSE {"Handle"}
         [] h = "shell_read" ->
              IF n = 4 THEN {"Handle", "TempBuffer"} ELSE {"Handle"}
         [] h = "shell_write" ->
              IF n = 3 THEN {"Handle", "FileInfo"} ELSE {"Handle"}
         [] h = "dir" ->
              IF n = 2 THEN {"RootDir"} ELSE IF n = 5 THEN {"Handle", "FileInfo"} ELSE {"Handle"}

Passed(h) == IF h \in {"read", "scan", "shell_read"} THEN {"TempBuffer"} ELSE IF h = "dir" THEN {"Handle", "FileInfo"} ELSE {}

CallCount(h) == IF h \in {"read", "scan"} THEN 6 ELSE IF h = "write" THEN 5 ELSE 4

(* What every call of a program leaves to the next one, and what is left   *)
(* when it fails; Delete does not fail.                                    *)
SetForm(h, t, next, c) ==
  /\ (t \cup c.acquires) \ c.after = next
  /\ c.do # "delete" => (t \ c.undo) \cap {"RootDir", "Handle"} = {}
  /\ "Buffer" \notin (c.undo \cup c.after) \cup c.acquires
  /\ h \in {"read", "scan", "write", "dir"} /\ c.do # "delete" => t \ c.undo = {}
Left(h, n) == IF n = CallCount(h) THEN Passed(h) ELSE Taken(h, n + 1)
DoForm(h, n, c) ==
  /\ c.do = "delete" <=> (h = "write" /\ n = 3)
  /\ c.do = "open" <=> (h = "shell_read" /\ n = 1) \/ ((h = "read" \/ h = "scan") /\ n = 2)
  /\ c.do = "create" <=> (h = "write" /\ n \in {2, 4}) \/ (h = "shell_write" /\ n = 1)
  /\ c.do = "empty" <=> (h = "shell_write" /\ n = 3)
  /\ c.do = "write" <=> (h = "write" /\ n = 5) \/ (h = "shell_write" /\ n = 4)
  /\ c.do = "read" <=> ((h = "read" \/ h = "scan") /\ n = 6) \/ (h = "shell_read" /\ n = 4)
  /\ \/ c.status = "error"
     \/ (h = "read" \/ h = "scan") /\ n \in {3, 5} /\ c.status = "success"
     \/ h = "shell_read" /\ n = 3 /\ c.status = "out_of_resources"
CallForm(h, n) == SetForm(h, Taken(h, n), Left(h, n), Program(h)[n]) /\ DoForm(h, n, Program(h)[n])

(* The programs have as many calls.                                        *)
LEMMA Counts == \A h \in Helpers : Len(Program(h)) = CallCount(h)
<1>1. Len(ReadFileFromVol) = 6
  BY DEF ReadFileFromVol
<1>2. Len(WriteFileFromBuffer) = 5
  BY DEF WriteFileFromBuffer
<1>3. Len(ShellReadFileToBuffer) = 4 /\ Len(ShellWriteFileFromBuffer) = 4 /\ Len(GetFileNameUnderDir) = 4
  BY DEF ShellReadFileToBuffer, ShellWriteFileFromBuffer, GetFileNameUnderDir
<1> QED
  BY <1>1, <1>2, <1>3 DEF Helpers, Program, CallCount

(* The names of the helpers and of the calls differ.                       *)
LEMMA Names ==
  /\ "read" # "shell_read" /\ "read" # "write" /\ "read" # "shell_write" /\ "read" # "dir"
  /\ "scan" # "shell_read" /\ "scan" # "write" /\ "scan" # "shell_write" /\ "scan" # "dir"
  /\ "write" # "shell_read" /\ "write" # "shell_write" /\ "write" # "dir"
  /\ "shell_read" # "shell_write" /\ "shell_read" # "dir" /\ "shell_write" # "dir"
OBVIOUS

(* CallNumbers of calls differ.                                                *)
LEMMA CallNumbers ==
  /\ 0 # 1 /\ ~(0 > 1) /\ (\A k \in Nat : k # 0 /\ k # 1 => k > 1)
  /\ 1 # 2 /\ 1 # 3 /\ 1 # 4 /\ 1 # 5 /\ 1 # 6
  /\ 3 # 1 /\ 3 # 2 /\ 3 # 4 /\ 3 # 5 /\ 3 # 6
OBVIOUS

(* The calls of ReadFileFromVol.                                             *)
LEMMA ReadCalls == \A h \in {"read", "scan"} : \A n \in 1..6 : CallForm(h, n)
<1> SUFFICES ASSUME NEW h \in {"read", "scan"} PROVE \A n \in 1..6 : CallForm(h, n)
  OBVIOUS
<1>1. Program(h) = ReadFileFromVol /\ Len(ReadFileFromVol) = 6
  BY DEF ReadFileFromVol, Program
<1>2. /\ ReadFileFromVol[1] = Call("open_volume", {"RootDir"}, {}, {}, "error")
      /\ ReadFileFromVol[2] = Call("open", {"Handle"}, {"RootDir"}, {"RootDir"}, "error")
      /\ ReadFileFromVol[3] = Call("allocate", {"FileInfo"}, {"Handle"}, {}, "success")
      /\ ReadFileFromVol[4] = Call("info", {}, {"Handle", "FileInfo"}, {}, "error")
      /\ ReadFileFromVol[5] = Call("allocate", {"TempBuffer"}, {"Handle", "FileInfo"}, {"FileInfo"}, "success")
      /\ ReadFileFromVol[6] = Call("read", {}, {"Handle", "TempBuffer"}, {"Handle"}, "error")
  BY DEF ReadFileFromVol
<1>3. CallForm(h, 1)
  <2>1. PICK c : c = Program(h)[1]
    OBVIOUS
  <2>0. c = Call("open_volume", {"RootDir"}, {}, {}, "error")
    BY <1>1, <1>2, <2>1
  <2>2. c.do = "open_volume" /\ c.acquires = {"RootDir"} /\ c.undo = {} /\ c.after = {} /\ c.status = "error"
    BY <2>0 DEF Call
  <2>3. Taken(h, 1) = {} /\ Left(h, 1) = {"RootDir"}
    <3>1. CASE h = "read"
      BY <3>1 DEF Taken, Left, Passed, CallCount
    <3>2. CASE h = "scan"
      BY <3>2 DEF Taken, Left, Passed, CallCount
    <3> QED
      BY <3>1, <3>2
  <2>4. SetForm(h, Taken(h, 1), Left(h, 1), c)
    BY <2>2, <2>3, Names DEF SetForm
  <2>5. DoForm(h, 1, c)
    <3>1. CASE h = "read"
      BY <2>2, <3>1, CallNumbers, Zenon DEF DoForm
    <3>2. CASE h = "scan"
      BY <2>2, <3>2, CallNumbers, Zenon DEF DoForm
    <3> QED
      BY <3>1, <3>2
  <2> QED
    BY <2>1, <2>4, <2>5 DEF CallForm
<1>4. CallForm(h, 2)
  <2>1. PICK c : c = Program(h)[2]
    OBVIOUS
  <2>0. c = Call("open", {"Handle"}, {"RootDir"}, {"RootDir"}, "error")
    BY <1>1, <1>2, <2>1
  <2>2. c.do = "open" /\ c.acquires = {"Handle"} /\ c.undo = {"RootDir"} /\ c.after = {"RootDir"} /\ c.status = "error"
    BY <2>0 DEF Call
  <2>3. Taken(h, 2) = {"RootDir"} /\ Left(h, 2) = {"Handle"}
    <3>1. CASE h = "read"
      BY <3>1 DEF Taken, Left, Passed, CallCount
    <3>2. CASE h = "scan"
      BY <3>2 DEF Taken, Left, Passed, CallCount
    <3> QED
      BY <3>1, <3>2
  <2>4. SetForm(h, Taken(h, 2), Left(h, 2), c)
    BY <2>2, <2>3, Names DEF SetForm
  <2>5. DoForm(h, 2, c)
    <3>1. CASE h = "read"
      BY <2>2, <3>1, Names DEF DoForm
    <3>2. CASE h = "scan"
      BY <2>2, <3>2, Names DEF DoForm
    <3> QED
      BY <3>1, <3>2
  <2> QED
    BY <2>1, <2>4, <2>5 DEF CallForm
<1>5. CallForm(h, 3)
  <2>1. PICK c : c = Program(h)[3]
    OBVIOUS
  <2>0. c = Call("allocate", {"FileInfo"}, {"Handle"}, {}, "success")
    BY <1>1, <1>2, <2>1
  <2>2. c.do = "allocate" /\ c.acquires = {"FileInfo"} /\ c.undo = {"Handle"} /\ c.after = {} /\ c.status = "success"
    BY <2>0 DEF Call
  <2>3. Taken(h, 3) = {"Handle"} /\ Left(h, 3) = {"Handle", "FileInfo"}
    <3>1. CASE h = "read"
      BY <3>1 DEF Taken, Left, Passed, CallCount
    <3>2. CASE h = "scan"
      BY <3>2 DEF Taken, Left, Passed, CallCount
    <3> QED
      BY <3>1, <3>2
  <2>4. SetForm(h, Taken(h, 3), Left(h, 3), c)
    BY <2>2, <2>3, Names DEF SetForm
  <2>5. DoForm(h, 3, c)
    <3>1. CASE h = "read"
      BY <2>2, <3>1, Names DEF DoForm
    <3>2. CASE h = "scan"
      BY <2>2, <3>2, Names DEF DoForm
    <3> QED
      BY <3>1, <3>2
  <2> QED
    BY <2>1, <2>4, <2>5 DEF CallForm
<1>6. CallForm(h, 4)
  <2>1. PICK c : c = Program(h)[4]
    OBVIOUS
  <2>0. c = Call("info", {}, {"Handle", "FileInfo"}, {}, "error")
    BY <1>1, <1>2, <2>1
  <2>2. c.do = "info" /\ c.acquires = {} /\ c.undo = {"Handle", "FileInfo"} /\ c.after = {} /\ c.status = "error"
    BY <2>0 DEF Call
  <2>3. Taken(h, 4) = {"Handle", "FileInfo"} /\ Left(h, 4) = {"Handle", "FileInfo"}
    <3>1. CASE h = "read"
      BY <3>1 DEF Taken, Left, Passed, CallCount
    <3>2. CASE h = "scan"
      BY <3>2 DEF Taken, Left, Passed, CallCount
    <3> QED
      BY <3>1, <3>2
  <2>4. SetForm(h, Taken(h, 4), Left(h, 4), c)
    BY <2>2, <2>3, Names DEF SetForm
  <2>5. DoForm(h, 4, c)
    <3>1. CASE h = "read"
      BY <2>2, <3>1, Names DEF DoForm
    <3>2. CASE h = "scan"
      BY <2>2, <3>2, Names DEF DoForm
    <3> QED
      BY <3>1, <3>2
  <2> QED
    BY <2>1, <2>4, <2>5 DEF CallForm
<1>7. CallForm(h, 5)
  <2>1. PICK c : c = Program(h)[5]
    OBVIOUS
  <2>0. c = Call("allocate", {"TempBuffer"}, {"Handle", "FileInfo"}, {"FileInfo"}, "success")
    BY <1>1, <1>2, <2>1
  <2>2. c.do = "allocate" /\ c.acquires = {"TempBuffer"} /\ c.undo = {"Handle", "FileInfo"} /\ c.after = {"FileInfo"} /\ c.status = "success"
    BY <2>0 DEF Call
  <2>3. Taken(h, 5) = {"Handle", "FileInfo"} /\ Left(h, 5) = {"Handle", "TempBuffer"}
    <3>1. CASE h = "read"
      BY <3>1 DEF Taken, Left, Passed, CallCount
    <3>2. CASE h = "scan"
      BY <3>2 DEF Taken, Left, Passed, CallCount
    <3> QED
      BY <3>1, <3>2
  <2>4. SetForm(h, Taken(h, 5), Left(h, 5), c)
    BY <2>2, <2>3, Names DEF SetForm
  <2>5. DoForm(h, 5, c)
    <3>1. CASE h = "read"
      BY <2>2, <3>1, Names DEF DoForm
    <3>2. CASE h = "scan"
      BY <2>2, <3>2, Names DEF DoForm
    <3> QED
      BY <3>1, <3>2
  <2> QED
    BY <2>1, <2>4, <2>5 DEF CallForm
<1>8. CallForm(h, 6)
  <2>1. PICK c : c = Program(h)[6]
    OBVIOUS
  <2>0. c = Call("read", {}, {"Handle", "TempBuffer"}, {"Handle"}, "error")
    BY <1>1, <1>2, <2>1
  <2>2. c.do = "read" /\ c.acquires = {} /\ c.undo = {"Handle", "TempBuffer"} /\ c.after = {"Handle"} /\ c.status = "error"
    BY <2>0 DEF Call
  <2>3. Taken(h, 6) = {"Handle", "TempBuffer"} /\ Left(h, 6) = {"TempBuffer"}
    <3>1. CASE h = "read"
      BY <3>1 DEF Taken, Left, Passed, CallCount
    <3>2. CASE h = "scan"
      BY <3>2 DEF Taken, Left, Passed, CallCount
    <3> QED
      BY <3>1, <3>2
  <2>4. SetForm(h, Taken(h, 6), Left(h, 6), c)
    BY <2>2, <2>3, Names DEF SetForm
  <2>5. DoForm(h, 6, c)
    <3>1. CASE h = "read"
      BY <2>2, <3>1, Names DEF DoForm
    <3>2. CASE h = "scan"
      BY <2>2, <3>2, Names DEF DoForm
    <3> QED
      BY <3>1, <3>2
  <2> QED
    BY <2>1, <2>4, <2>5 DEF CallForm
<1>9. \A n \in 1..6 : n = 1 \/ n = 2 \/ n = 3 \/ n = 4 \/ n = 5 \/ n = 6
  OBVIOUS
<1> QED
  BY <1>3, <1>4, <1>5, <1>6, <1>7, <1>8, <1>9

(* The calls of WriteFileFromBuffer.                                         *)
LEMMA WriteCalls == \A n \in 1..5 : CallForm("write", n)
<1>1. Program("write") = WriteFileFromBuffer /\ Len(WriteFileFromBuffer) = 5
  BY DEF WriteFileFromBuffer, Program
<1>2. /\ WriteFileFromBuffer[1] = Call("open_volume", {"RootDir"}, {}, {}, "error")
      /\ WriteFileFromBuffer[2] = Call("create", {"Handle"}, {"RootDir"}, {}, "error")
      /\ WriteFileFromBuffer[3] = Call("delete", {}, {}, {"Handle"}, "error")
      /\ WriteFileFromBuffer[4] = Call("create", {"Handle"}, {"RootDir"}, {"RootDir"}, "error")
      /\ WriteFileFromBuffer[5] = Call("write", {}, {"Handle"}, {"Handle"}, "error")
  BY DEF WriteFileFromBuffer
<1>3. CallForm("write", 1)
  <2>1. PICK c : c = Program("write")[1]
    OBVIOUS
  <2>0. c = Call("open_volume", {"RootDir"}, {}, {}, "error")
    BY <1>1, <1>2, <2>1
  <2>2. c.do = "open_volume" /\ c.acquires = {"RootDir"} /\ c.undo = {} /\ c.after = {} /\ c.status = "error"
    BY <2>0 DEF Call
  <2>3. Taken("write", 1) = {} /\ Left("write", 1) = {"RootDir"}
    BY DEF Taken, Left, Passed, CallCount
  <2>4. SetForm("write", Taken("write", 1), Left("write", 1), c)
    BY <2>2, <2>3, Names DEF SetForm
  <2>5. DoForm("write", 1, c)
    BY <2>2, CallNumbers, Zenon DEF DoForm
  <2> QED
    BY <2>1, <2>4, <2>5 DEF CallForm
<1>4. CallForm("write", 2)
  <2>1. PICK c : c = Program("write")[2]
    OBVIOUS
  <2>0. c = Call("create", {"Handle"}, {"RootDir"}, {}, "error")
    BY <1>1, <1>2, <2>1
  <2>2. c.do = "create" /\ c.acquires = {"Handle"} /\ c.undo = {"RootDir"} /\ c.after = {} /\ c.status = "error"
    BY <2>0 DEF Call
  <2>3. Taken("write", 2) = {"RootDir"} /\ Left("write", 2) = {"RootDir", "Handle"}
    BY DEF Taken, Left, Passed, CallCount
  <2>4. SetForm("write", Taken("write", 2), Left("write", 2), c)
    BY <2>2, <2>3, Names DEF SetForm
  <2>5. DoForm("write", 2, c)
    BY <2>2, Names DEF DoForm
  <2> QED
    BY <2>1, <2>4, <2>5 DEF CallForm
<1>5. CallForm("write", 3)
  <2>1. PICK c : c = Program("write")[3]
    OBVIOUS
  <2>0. c = Call("delete", {}, {}, {"Handle"}, "error")
    BY <1>1, <1>2, <2>1
  <2>2. c.do = "delete" /\ c.acquires = {} /\ c.undo = {} /\ c.after = {"Handle"} /\ c.status = "error"
    BY <2>0 DEF Call
  <2>3. Taken("write", 3) = {"RootDir", "Handle"} /\ Left("write", 3) = {"RootDir"}
    BY DEF Taken, Left, Passed, CallCount
  <2>4. SetForm("write", Taken("write", 3), Left("write", 3), c)
    BY <2>2, <2>3, Names DEF SetForm
  <2>5. DoForm("write", 3, c)
    BY <2>2, Names DEF DoForm
  <2> QED
    BY <2>1, <2>4, <2>5 DEF CallForm
<1>6. CallForm("write", 4)
  <2>1. PICK c : c = Program("write")[4]
    OBVIOUS
  <2>0. c = Call("create", {"Handle"}, {"RootDir"}, {"RootDir"}, "error")
    BY <1>1, <1>2, <2>1
  <2>2. c.do = "create" /\ c.acquires = {"Handle"} /\ c.undo = {"RootDir"} /\ c.after = {"RootDir"} /\ c.status = "error"
    BY <2>0 DEF Call
  <2>3. Taken("write", 4) = {"RootDir"} /\ Left("write", 4) = {"Handle"}
    BY DEF Taken, Left, Passed, CallCount
  <2>4. SetForm("write", Taken("write", 4), Left("write", 4), c)
    BY <2>2, <2>3, Names DEF SetForm
  <2>5. DoForm("write", 4, c)
    BY <2>2, Names DEF DoForm
  <2> QED
    BY <2>1, <2>4, <2>5 DEF CallForm
<1>7. CallForm("write", 5)
  <2>1. PICK c : c = Program("write")[5]
    OBVIOUS
  <2>0. c = Call("write", {}, {"Handle"}, {"Handle"}, "error")
    BY <1>1, <1>2, <2>1
  <2>2. c.do = "write" /\ c.acquires = {} /\ c.undo = {"Handle"} /\ c.after = {"Handle"} /\ c.status = "error"
    BY <2>0 DEF Call
  <2>3. Taken("write", 5) = {"Handle"} /\ Left("write", 5) = {}
    BY DEF Taken, Left, Passed, CallCount
  <2>4. SetForm("write", Taken("write", 5), Left("write", 5), c)
    BY <2>2, <2>3, Names DEF SetForm
  <2>5. DoForm("write", 5, c)
    BY <2>2, Names DEF DoForm
  <2> QED
    BY <2>1, <2>4, <2>5 DEF CallForm
<1>8. \A n \in 1..5 : n = 1 \/ n = 2 \/ n = 3 \/ n = 4 \/ n = 5
  OBVIOUS
<1> QED
  BY <1>3, <1>4, <1>5, <1>6, <1>7, <1>8

(* The calls of ShellReadFileToBuffer.                                       *)
LEMMA ShellReadCalls == \A n \in 1..4 : CallForm("shell_read", n)
<1>1. Program("shell_read") = ShellReadFileToBuffer /\ Len(ShellReadFileToBuffer) = 4
  BY DEF ShellReadFileToBuffer, Program
<1>2. /\ ShellReadFileToBuffer[1] = Call("open", {"Handle"}, {}, {}, "error")
      /\ ShellReadFileToBuffer[2] = Call("info", {}, {"Handle"}, {}, "error")
      /\ ShellReadFileToBuffer[3] = Call("allocate", {"TempBuffer"}, {"Handle"}, {}, "out_of_resources")
      /\ ShellReadFileToBuffer[4] = Call("read", {}, {"Handle"}, {"Handle"}, "error")
  BY DEF ShellReadFileToBuffer
<1>3. CallForm("shell_read", 1)
  <2>1. PICK c : c = Program("shell_read")[1]
    OBVIOUS
  <2>0. c = Call("open", {"Handle"}, {}, {}, "error")
    BY <1>1, <1>2, <2>1
  <2>2. c.do = "open" /\ c.acquires = {"Handle"} /\ c.undo = {} /\ c.after = {} /\ c.status = "error"
    BY <2>0 DEF Call
  <2>3. Taken("shell_read", 1) = {} /\ Left("shell_read", 1) = {"Handle"}
    BY DEF Taken, Left, Passed, CallCount
  <2>4. SetForm("shell_read", Taken("shell_read", 1), Left("shell_read", 1), c)
    BY <2>2, <2>3, Names DEF SetForm
  <2>5. DoForm("shell_read", 1, c)
    BY <2>2, Names DEF DoForm
  <2> QED
    BY <2>1, <2>4, <2>5 DEF CallForm
<1>4. CallForm("shell_read", 2)
  <2>1. PICK c : c = Program("shell_read")[2]
    OBVIOUS
  <2>0. c = Call("info", {}, {"Handle"}, {}, "error")
    BY <1>1, <1>2, <2>1
  <2>2. c.do = "info" /\ c.acquires = {} /\ c.undo = {"Handle"} /\ c.after = {} /\ c.status = "error"
    BY <2>0 DEF Call
  <2>3. Taken("shell_read", 2) = {"Handle"} /\ Left("shell_read", 2) = {"Handle"}
    BY DEF Taken, Left, Passed, CallCount
  <2>4. SetForm("shell_read", Taken("shell_read", 2), Left("shell_read", 2), c)
    BY <2>2, <2>3, Names DEF SetForm
  <2>5. DoForm("shell_read", 2, c)
    BY <2>2, Names DEF DoForm
  <2> QED
    BY <2>1, <2>4, <2>5 DEF CallForm
<1>5. CallForm("shell_read", 3)
  <2>1. PICK c : c = Program("shell_read")[3]
    OBVIOUS
  <2>0. c = Call("allocate", {"TempBuffer"}, {"Handle"}, {}, "out_of_resources")
    BY <1>1, <1>2, <2>1
  <2>2. c.do = "allocate" /\ c.acquires = {"TempBuffer"} /\ c.undo = {"Handle"} /\ c.after = {} /\ c.status = "out_of_resources"
    BY <2>0 DEF Call
  <2>3. Taken("shell_read", 3) = {"Handle"} /\ Left("shell_read", 3) = {"Handle", "TempBuffer"}
    BY DEF Taken, Left, Passed, CallCount
  <2>4. SetForm("shell_read", Taken("shell_read", 3), Left("shell_read", 3), c)
    BY <2>2, <2>3, Names DEF SetForm
  <2>5. DoForm("shell_read", 3, c)
    BY <2>2, CallNumbers, Zenon DEF DoForm
  <2> QED
    BY <2>1, <2>4, <2>5 DEF CallForm
<1>6. CallForm("shell_read", 4)
  <2>1. PICK c : c = Program("shell_read")[4]
    OBVIOUS
  <2>0. c = Call("read", {}, {"Handle"}, {"Handle"}, "error")
    BY <1>1, <1>2, <2>1
  <2>2. c.do = "read" /\ c.acquires = {} /\ c.undo = {"Handle"} /\ c.after = {"Handle"} /\ c.status = "error"
    BY <2>0 DEF Call
  <2>3. Taken("shell_read", 4) = {"Handle", "TempBuffer"} /\ Left("shell_read", 4) = {"TempBuffer"}
    BY DEF Taken, Left, Passed, CallCount
  <2>4. SetForm("shell_read", Taken("shell_read", 4), Left("shell_read", 4), c)
    BY <2>2, <2>3, Names DEF SetForm
  <2>5. DoForm("shell_read", 4, c)
    BY <2>2, Names DEF DoForm
  <2> QED
    BY <2>1, <2>4, <2>5 DEF CallForm
<1>7. \A n \in 1..4 : n = 1 \/ n = 2 \/ n = 3 \/ n = 4
  OBVIOUS
<1> QED
  BY <1>3, <1>4, <1>5, <1>6, <1>7

(* The calls of ShellWriteFileFromBuffer.                                    *)
LEMMA ShellWriteCalls == \A n \in 1..4 : CallForm("shell_write", n)
<1>1. Program("shell_write") = ShellWriteFileFromBuffer /\ Len(ShellWriteFileFromBuffer) = 4
  BY DEF ShellWriteFileFromBuffer, Program
<1>2. /\ ShellWriteFileFromBuffer[1] = Call("create", {"Handle"}, {}, {}, "error")
      /\ ShellWriteFileFromBuffer[2] = Call("info", {"FileInfo"}, {"Handle"}, {}, "error")
      /\ ShellWriteFileFromBuffer[3] = Call("empty", {}, {"FileInfo", "Handle"}, {"FileInfo"}, "error")
      /\ ShellWriteFileFromBuffer[4] = Call("write", {}, {"Handle"}, {"Handle"}, "error")
  BY DEF ShellWriteFileFromBuffer
<1>3. CallForm("shell_write", 1)
  <2>1. PICK c : c = Program("shell_write")[1]
    OBVIOUS
  <2>0. c = Call("create", {"Handle"}, {}, {}, "error")
    BY <1>1, <1>2, <2>1
  <2>2. c.do = "create" /\ c.acquires = {"Handle"} /\ c.undo = {} /\ c.after = {} /\ c.status = "error"
    BY <2>0 DEF Call
  <2>3. Taken("shell_write", 1) = {} /\ Left("shell_write", 1) = {"Handle"}
    BY DEF Taken, Left, Passed, CallCount
  <2>4. SetForm("shell_write", Taken("shell_write", 1), Left("shell_write", 1), c)
    BY <2>2, <2>3, Names DEF SetForm
  <2>5. DoForm("shell_write", 1, c)
    BY <2>2, Names DEF DoForm
  <2> QED
    BY <2>1, <2>4, <2>5 DEF CallForm
<1>4. CallForm("shell_write", 2)
  <2>1. PICK c : c = Program("shell_write")[2]
    OBVIOUS
  <2>0. c = Call("info", {"FileInfo"}, {"Handle"}, {}, "error")
    BY <1>1, <1>2, <2>1
  <2>2. c.do = "info" /\ c.acquires = {"FileInfo"} /\ c.undo = {"Handle"} /\ c.after = {} /\ c.status = "error"
    BY <2>0 DEF Call
  <2>3. Taken("shell_write", 2) = {"Handle"} /\ Left("shell_write", 2) = {"Handle", "FileInfo"}
    BY DEF Taken, Left, Passed, CallCount
  <2>4. SetForm("shell_write", Taken("shell_write", 2), Left("shell_write", 2), c)
    BY <2>2, <2>3, Names DEF SetForm
  <2>5. DoForm("shell_write", 2, c)
    BY <2>2, Names DEF DoForm
  <2> QED
    BY <2>1, <2>4, <2>5 DEF CallForm
<1>5. CallForm("shell_write", 3)
  <2>1. PICK c : c = Program("shell_write")[3]
    OBVIOUS
  <2>0. c = Call("empty", {}, {"FileInfo", "Handle"}, {"FileInfo"}, "error")
    BY <1>1, <1>2, <2>1
  <2>2. c.do = "empty" /\ c.acquires = {} /\ c.undo = {"FileInfo", "Handle"} /\ c.after = {"FileInfo"} /\ c.status = "error"
    BY <2>0 DEF Call
  <2>3. Taken("shell_write", 3) = {"Handle", "FileInfo"} /\ Left("shell_write", 3) = {"Handle"}
    BY DEF Taken, Left, Passed, CallCount
  <2>4. SetForm("shell_write", Taken("shell_write", 3), Left("shell_write", 3), c)
    BY <2>2, <2>3, Names DEF SetForm
  <2>5. DoForm("shell_write", 3, c)
    BY <2>2, Names DEF DoForm
  <2> QED
    BY <2>1, <2>4, <2>5 DEF CallForm
<1>6. CallForm("shell_write", 4)
  <2>1. PICK c : c = Program("shell_write")[4]
    OBVIOUS
  <2>0. c = Call("write", {}, {"Handle"}, {"Handle"}, "error")
    BY <1>1, <1>2, <2>1
  <2>2. c.do = "write" /\ c.acquires = {} /\ c.undo = {"Handle"} /\ c.after = {"Handle"} /\ c.status = "error"
    BY <2>0 DEF Call
  <2>3. Taken("shell_write", 4) = {"Handle"} /\ Left("shell_write", 4) = {}
    BY DEF Taken, Left, Passed, CallCount
  <2>4. SetForm("shell_write", Taken("shell_write", 4), Left("shell_write", 4), c)
    BY <2>2, <2>3, Names DEF SetForm
  <2>5. DoForm("shell_write", 4, c)
    BY <2>2, Names DEF DoForm
  <2> QED
    BY <2>1, <2>4, <2>5 DEF CallForm
<1>7. \A n \in 1..4 : n = 1 \/ n = 2 \/ n = 3 \/ n = 4
  OBVIOUS
<1> QED
  BY <1>3, <1>4, <1>5, <1>6, <1>7

(* The calls of GetFileNameUnderDir.                                         *)
LEMMA DirCalls == \A n \in 1..4 : CallForm("dir", n)
<1>1. Program("dir") = GetFileNameUnderDir /\ Len(GetFileNameUnderDir) = 4
  BY DEF GetFileNameUnderDir, Program
<1>2. /\ GetFileNameUnderDir[1] = Call("open_volume", {"RootDir"}, {}, {}, "error")
      /\ GetFileNameUnderDir[2] = Call("open_dir", {"Handle"}, {"RootDir"}, {"RootDir"}, "error")
      /\ GetFileNameUnderDir[3] = Call("set_position", {}, {"Handle"}, {}, "error")
      /\ GetFileNameUnderDir[4] = Call("allocate", {"FileInfo"}, {"Handle"}, {}, "error")
  BY DEF GetFileNameUnderDir
<1>3. CallForm("dir", 1)
  <2>1. PICK c : c = Program("dir")[1]
    OBVIOUS
  <2>0. c = Call("open_volume", {"RootDir"}, {}, {}, "error")
    BY <1>1, <1>2, <2>1
  <2>2. c.do = "open_volume" /\ c.acquires = {"RootDir"} /\ c.undo = {} /\ c.after = {} /\ c.status = "error"
    BY <2>0 DEF Call
  <2>3. Taken("dir", 1) = {} /\ Left("dir", 1) = {"RootDir"}
    BY DEF Taken, Left, Passed, CallCount
  <2>4. SetForm("dir", Taken("dir", 1), Left("dir", 1), c)
    BY <2>2, <2>3, Names DEF SetForm
  <2>5. DoForm("dir", 1, c)
    BY <2>2, Names DEF DoForm
  <2> QED
    BY <2>1, <2>4, <2>5 DEF CallForm
<1>4. CallForm("dir", 2)
  <2>1. PICK c : c = Program("dir")[2]
    OBVIOUS
  <2>0. c = Call("open_dir", {"Handle"}, {"RootDir"}, {"RootDir"}, "error")
    BY <1>1, <1>2, <2>1
  <2>2. c.do = "open_dir" /\ c.acquires = {"Handle"} /\ c.undo = {"RootDir"} /\ c.after = {"RootDir"} /\ c.status = "error"
    BY <2>0 DEF Call
  <2>3. Taken("dir", 2) = {"RootDir"} /\ Left("dir", 2) = {"Handle"}
    BY DEF Taken, Left, Passed, CallCount
  <2>4. SetForm("dir", Taken("dir", 2), Left("dir", 2), c)
    BY <2>2, <2>3, Names DEF SetForm
  <2>5. DoForm("dir", 2, c)
    BY <2>2, Names DEF DoForm
  <2> QED
    BY <2>1, <2>4, <2>5 DEF CallForm
<1>5. CallForm("dir", 3)
  <2>1. PICK c : c = Program("dir")[3]
    OBVIOUS
  <2>0. c = Call("set_position", {}, {"Handle"}, {}, "error")
    BY <1>1, <1>2, <2>1
  <2>2. c.do = "set_position" /\ c.acquires = {} /\ c.undo = {"Handle"} /\ c.after = {} /\ c.status = "error"
    BY <2>0 DEF Call
  <2>3. Taken("dir", 3) = {"Handle"} /\ Left("dir", 3) = {"Handle"}
    BY DEF Taken, Left, Passed, CallCount
  <2>4. SetForm("dir", Taken("dir", 3), Left("dir", 3), c)
    BY <2>2, <2>3, Names DEF SetForm
  <2>5. DoForm("dir", 3, c)
    BY <2>2, Names DEF DoForm
  <2> QED
    BY <2>1, <2>4, <2>5 DEF CallForm
<1>6. CallForm("dir", 4)
  <2>1. PICK c : c = Program("dir")[4]
    OBVIOUS
  <2>0. c = Call("allocate", {"FileInfo"}, {"Handle"}, {}, "error")
    BY <1>1, <1>2, <2>1
  <2>2. c.do = "allocate" /\ c.acquires = {"FileInfo"} /\ c.undo = {"Handle"} /\ c.after = {} /\ c.status = "error"
    BY <2>0 DEF Call
  <2>3. Taken("dir", 4) = {"Handle"} /\ Left("dir", 4) = {"Handle", "FileInfo"}
    BY DEF Taken, Left, Passed, CallCount
  <2>4. SetForm("dir", Taken("dir", 4), Left("dir", 4), c)
    BY <2>2, <2>3, Names DEF SetForm
  <2>5. DoForm("dir", 4, c)
    BY <2>2, Names DEF DoForm
  <2> QED
    BY <2>1, <2>4, <2>5 DEF CallForm
<1>7. \A n \in 1..4 : n = 1 \/ n = 2 \/ n = 3 \/ n = 4
  OBVIOUS
<1> QED
  BY <1>3, <1>4, <1>5, <1>6, <1>7

-----------------------------------------------------------------------------
(* The inductive invariant, part by part: where a helper is, what it holds *)
(* there, and what a scan, a write and a directory have found so far.  A   *)
(* scan that is past its first call has the array of volume handles.       *)
Vols == 1..Len(world.vols)
Old == world.vols[vol]
Made == IF Old = NoFile THEN <<>> ELSE Old
Got(k) == {v \in 1..k : world.vols[v] # NoFile} \ missed
Hits == {i \in 1..Len(world.dir) : ~world.dir[i].isDir /\ world.dir[i].suffix}
Before(k) == {j \in Hits : j < k}

PlaceInv ==
  /\ world \in Worlds /\ helper \in Helpers /\ program = Program(helper)
  /\ vol \in Vols /\ (helper # "scan" => vol = 1)
  /\ step \in 0..CallCount(helper) + 1
  /\ ~Returned /\ step > CallCount(helper) => helper = "dir"
  /\ step = 0 => helper = "scan" /\ ~Returned
  /\ handleBuffer => helper = "scan"
  /\ helper = "scan" /\ step # 0 /\ status \in {"running", "success", "no_mapping"} => handleBuffer
  /\ disk = [v \in Vols |-> disk[v]] /\ missed \subseteq Vols

HeldInv ==
  IF Returned THEN HandlesClosed /\ BuffersFreed
  ELSE /\ held = (IF step > CallCount(helper) THEN Passed(helper) ELSE Taken(helper, step))
                 \cup (IF result.vol # 0 THEN {"Buffer"} ELSE {})
       /\ helper # "scan" => result = Nothing

(* A scan has the file of one of the volumes behind it, or of none.        *)
ScanInv ==
  helper = "scan" =>
    /\ disk = world.vols
    /\ IF Returned THEN ScanRight
       ELSE /\ missed \subseteq 1..vol - 1
            /\ IF result.vol = 0 THEN result = Nothing /\ Got(vol - 1) = {}
               ELSE Got(vol - 1) = {result.vol} /\ result.data = world.vols[result.vol]

(* What a write has made of the file.                                      *)
WriteInv ==
  helper \in {"write", "shell_write"} =>
    IF Returned THEN FileReplaced
    ELSE /\ missed \subseteq (IF helper = "write" /\ step > 3 THEN {vol} ELSE {})
         /\ disk[vol] = IF helper = "write"
                          THEN IF step < 3 THEN Old ELSE IF step = 3 \/ vol \in missed THEN Made
                               ELSE IF step = 4 THEN NoFile ELSE <<>>
                          ELSE IF step = 1 THEN Old ELSE IF step < 4 THEN Made ELSE <<>>

(* The files with the suffix passed so far.                                *)
DirInv ==
  helper = "dir" =>
    IF Returned THEN IndexedFile
    ELSE /\ entry.at \in 1..Len(world.dir) + 1
         /\ entry.passed = Cardinality(Before(entry.at)) /\ entry.passed <= world.index

FilesInv == PlaceInv /\ HeldInv /\ ScanInv /\ WriteInv /\ DirInv

-----------------------------------------------------------------------------
(* The calls of every helper.                                              *)
LEMMA AllCalls ==
  \A h \in Helpers : \A n \in 1..CallCount(h) : CallForm(h, n)
<1> SUFFICES ASSUME NEW h \in Helpers PROVE \A n \in 1..CallCount(h) : CallForm(h, n)
  OBVIOUS
<1>1. CASE h \in {"read", "scan"}
  BY <1>1, ReadCalls DEF CallCount
<1>2. CASE h = "write"
  BY <1>2, WriteCalls DEF CallCount
<1>3. CASE h = "shell_read"
  BY <1>3, ShellReadCalls DEF CallCount
<1>4. CASE h = "shell_write"
  BY <1>4, ShellWriteCalls DEF CallCount
<1>5. CASE h = "dir"
  BY <1>5, DirCalls DEF CallCount
<1> QED
  BY <1>1, <1>2, <1>3, <1>4, <1>5 DEF Helpers

(* What is known of a world.                                               *)
LEMMA WorldFacts ==
  ASSUME PlaceInv
  PROVE  /\ WorldForm(world) /\ Len(world.vols) \in Nat \ {0} /\ Len(world.data) \in Nat /\ Len(world.dir) \in Nat
         /\ vol \in Nat \ {0} /\ IsFiniteSet(Vols) /\ CallCount(helper) \in {4, 5, 6} /\ step \in Nat
<1>1. WorldForm(world)
  BY WorldsAssumption DEF PlaceInv
<1>2. Len(world.vols) \in Nat \ {0}
  BY <1>1 DEF WorldForm
<1>3. CallCount(helper) \in {4, 5, 6}
  BY DEF CallCount
<1>4. IsFiniteSet(Vols)
  BY <1>2, FS_Interval DEF Vols
<1>5. step \in Nat
  BY <1>3 DEF PlaceInv
<1>6. vol \in Nat \ {0}
  BY <1>2 DEF PlaceInv, Vols
<1> QED
  BY <1>1, <1>2, <1>3, <1>4, <1>5, <1>6 DEF WorldForm

(* The volumes are those of the world.                                     *)
LEMMA VolumeNumbers ==
  ASSUME PlaceInv
  PROVE  DOMAIN world.vols = Vols
<1>1. world.vols \in Seq(Seq(Bytes) \cup {NoFile})
  BY WorldFacts DEF WorldForm
<1> QED
  BY <1>1 DEF Vols

(* What is known of the call a helper is at.                               *)
LEMMA CallFacts ==
  ASSUME PlaceInv, Running
  PROVE  /\ ~Returned /\ step \in 1..CallCount(helper) /\ Len(program) = CallCount(helper)
         /\ LastCall <=> step = CallCount(helper)
         /\ SetForm(helper, Taken(helper, step), Left(helper, step), Now) /\ DoForm(helper, step, Now)
<1>1. Len(program) = CallCount(helper) /\ program = Program(helper)
  BY Counts DEF PlaceInv
<1>2. ~Returned /\ step \in 1..CallCount(helper)
  BY <1>1 DEF Running, Returned, PlaceInv
<1>3. CallForm(helper, step)
  BY <1>2, AllCalls DEF PlaceInv
<1> QED
  BY <1>1, <1>2, <1>3 DEF CallForm, Now, LastCall

(* The ways a call that succeeds goes on.                                  *)
Called ==
  /\ Running /\ Possible /\ Now.do # "delete"
  /\ disk' = [disk EXCEPT ![vol] = Effect(Now.do, @)]
  /\ UNCHANGED <<world, helper, program, handleBuffer, missed, entry>>
After == (held \cup Now.acquires) \ Now.after
Buffer == [vol |-> vol, data |-> disk[vol]]
GoesOn ==
  /\ Called /\ (~LastCall \/ helper = "dir")
  /\ held' = After /\ step' = step + 1 /\ UNCHANGED <<status, result, vol>>
FindsSecond ==
  /\ Called /\ LastCall /\ helper = "scan" /\ result.vol # 0
  /\ held' = After \ {"TempBuffer", "Buffer"} /\ status' = "no_mapping" /\ step' = step + 1
  /\ result' = Nothing /\ UNCHANGED vol
FindsFirst ==
  /\ Called /\ LastCall /\ helper = "scan" /\ result.vol = 0
  /\ held' = (After \ {"TempBuffer"}) \cup {"Buffer"} /\ result' = Buffer /\ Continue
ReadReturns ==
  /\ Called /\ LastCall /\ helper \in {"read", "shell_read"}
  /\ held' = (After \ {"TempBuffer"}) \cup {"Buffer"} /\ result' = Buffer
  /\ status' = "success" /\ step' = step + 1 /\ UNCHANGED vol
WriteReturns ==
  /\ Called /\ LastCall /\ helper \in {"write", "shell_write"}
  /\ held' = After /\ status' = "success" /\ step' = step + 1 /\ UNCHANGED <<result, vol>>

(* A call that succeeds goes on in one of these ways.                      *)
LEMMA CallOkSplit ==
  ASSUME PlaceInv, CallOk
  PROVE  GoesOn \/ FindsSecond \/ FindsFirst \/ ReadReturns \/ WriteReturns
<1>1. Called
  BY DEF CallOk, Called
<1>2. helper \in Helpers
  BY DEF PlaceInv
<1>3. CASE ~LastCall
  BY <1>1, <1>3 DEF CallOk, GoesOn, After
<1>4. CASE LastCall /\ helper = "scan" /\ result.vol # 0
  BY <1>1, <1>4 DEF CallOk, FindsSecond, After
<1>5. CASE LastCall /\ helper = "scan" /\ result.vol = 0
  BY <1>1, <1>5 DEF CallOk, FindsFirst, After, Buffer
<1>6. CASE LastCall /\ helper \in {"read", "shell_read"}
  BY <1>1, <1>6 DEF CallOk, ReadReturns, After, Buffer
<1>7. CASE LastCall /\ helper \in {"write", "shell_write"}
  BY <1>1, <1>7 DEF CallOk, WriteReturns, After
<1>8. CASE LastCall /\ helper = "dir"
  BY <1>1, <1>8 DEF CallOk, GoesOn, After
<1> QED
  BY <1>2, <1>3, <1>4, <1>5, <1>6, <1>7, <1>8 DEF Helpers

(* Where a helper is.                                                      *)
LEMMA PlaceKeeps ==
  ASSUME PlaceInv, [FileNext]_fileVars
  PROVE  PlaceInv'
<1>1. ASSUME Called, UNCHANGED vol, step' = step + 1, status' # "running" \/ ~LastCall \/ helper = "dir" PROVE PlaceInv'
  <2>1. Running /\ UNCHANGED <<world, helper, program, handleBuffer, missed>> /\ disk' = [disk EXCEPT ![vol] = Effect(Now.do, @)]
    BY <1>1 DEF Called
  <2>2. step \in 1..CallCount(helper) /\ (LastCall <=> step = CallCount(helper)) /\ CallCount(helper) \in {4, 5, 6}
    BY <2>1, CallFacts, WorldFacts
  <2>3. Vols' = Vols /\ disk' = [v \in Vols |-> disk'[v]]
    BY <2>1 DEF PlaceInv, Vols
  <2>4. /\ step' \in 0..CallCount(helper) + 1 /\ step' # 0 /\ step # 0
        /\ status' = "running" /\ step' > CallCount(helper) => helper = "dir"
    BY <1>1, <2>2
  <2>5. handleBuffer' = handleBuffer /\ status = "running" /\ (helper = "scan" => handleBuffer) /\ (handleBuffer => helper = "scan")
    BY <2>1, <2>4 DEF Running, PlaceInv
  <2>6. CallCount(helper)' = CallCount(helper)
    BY <2>1 DEF CallCount
  <2>7. /\ world' \in Worlds /\ helper' \in Helpers /\ program' = Program(helper')
        /\ vol' \in Vols' /\ (helper' # "scan" => vol' = 1) /\ missed' \subseteq Vols'
    BY <1>1, <2>1, <2>3 DEF PlaceInv
  <2> QED
    BY <2>1, <2>3, <2>4, <2>5, <2>6, <2>7 DEF PlaceInv, Returned
<1>2. CASE GoesOn
  BY <1>1, <1>2 DEF GoesOn
<1>3. CASE FindsSecond
  BY <1>1, <1>3 DEF FindsSecond
<1>4. CASE ReadReturns
  BY <1>1, <1>4 DEF ReadReturns
<1>5. CASE WriteReturns
  BY <1>1, <1>5 DEF WriteReturns
<1>6. ASSUME Continue, helper = "scan", Running, UNCHANGED <<world, helper, program, handleBuffer>>, missed' \subseteq Vols, disk' = [v \in Vols |-> disk'[v]]
      PROVE  PlaceInv'
  <2>1. Len(program) = CallCount(helper) /\ CallCount(helper) \in {4, 5, 6} /\ handleBuffer
    <3>1. Len(program) = CallCount(helper) /\ CallCount(helper) \in {4, 5, 6} /\ step # 0 /\ status = "running"
      BY <1>6, CallFacts, WorldFacts DEF Running
    <3> QED
      BY <1>6, <3>1 DEF PlaceInv
  <2>2. Vols' = Vols
    BY <1>6 DEF Vols
  <2>3. CASE NextVol
    <3>1. vol' = vol + 1 /\ step' = 1 /\ vol' \in Vols
      BY <1>6, <2>3, WorldFacts DEF Continue, NextVol, Vols
    <3>2. step' \in 0..CallCount(helper) + 1 /\ ~(step' > CallCount(helper)) /\ step' # 0
      BY <2>1, <3>1
    <3> QED
      BY <1>6, <2>1, <2>2, <3>1, <3>2 DEF PlaceInv
  <2>4. CASE ~NextVol
    <3>1. vol' = vol /\ step' = CallCount(helper) + 1 /\ status' # "running"
      BY <1>6, <2>1, <2>4 DEF Continue
    <3>2. step' \in 0..CallCount(helper) + 1 /\ step' # 0
      BY <2>1, <3>1
    <3> QED
      BY <1>6, <2>1, <2>2, <3>1, <3>2 DEF PlaceInv, Returned
  <2> QED
    BY <2>3, <2>4
<1>7. CASE FindsFirst
  <2>1. UNCHANGED <<world, helper, program, handleBuffer, missed>> /\ Running /\ disk' = [disk EXCEPT ![vol] = Effect(Now.do, @)]
    BY <1>7 DEF FindsFirst, Called
  <2>2. disk' = [v \in Vols |-> disk'[v]] /\ missed' \subseteq Vols
    BY <2>1 DEF PlaceInv
  <2> QED
    BY <1>6, <1>7, <2>1, <2>2 DEF FindsFirst
<1>8. ASSUME NEW warned \in BOOLEAN, Deleted(warned) PROVE PlaceInv'
  <2>1. Running /\ Now.do = "delete" /\ UNCHANGED <<world, helper, program, handleBuffer, vol, status>> /\ step' = step + 1
    BY <1>8 DEF Deleted
  <2>2. step = 3 /\ helper = "write" /\ step \in 1..CallCount(helper) /\ CallCount(helper) = 5
    BY <2>1, CallFacts DEF DoForm, CallCount
  <2>3. Vols' = Vols /\ disk' = [v \in Vols |-> disk'[v]] /\ missed' \subseteq Vols
    BY <1>8, <2>1 DEF PlaceInv, Deleted, Vols
  <2>4. step' \in 0..CallCount(helper) + 1 /\ ~(step' > CallCount(helper)) /\ step' # 0
    BY <2>1, <2>2
  <2> QED
    BY <2>1, <2>2, <2>3, <2>4 DEF PlaceInv
<1>9. CASE CallFails
  <2>1. Running /\ UNCHANGED <<world, helper, program, handleBuffer, disk>> /\ missed' = missed \cup {vol}
    BY <1>9 DEF CallFails
  <2>2. missed' \subseteq Vols /\ disk' = [v \in Vols |-> disk'[v]] /\ Vols' = Vols
    BY <2>1 DEF PlaceInv, Vols
  <2>3. CASE helper = "scan" /\ Now.status # "success"
    BY <1>6, <1>9, <2>1, <2>2, <2>3 DEF CallFails
  <2>4. CASE ~(helper = "scan" /\ Now.status # "success")
    <3>1. step' = CallCount(helper) + 1 /\ vol' = vol /\ status' = IF helper = "scan" THEN "undefined" ELSE Now.status
      BY <1>9, <2>1, <2>4, CallFacts DEF CallFails
    <3>2. status' # "running"
      BY <2>1, <3>1, CallFacts DEF DoForm
    <3>3. step' \in 0..CallCount(helper) + 1 /\ step' # 0
      BY <3>1, WorldFacts
    <3>4. helper = "scan" => status' \notin {"running", "success", "no_mapping"}
      BY <3>1
    <3> QED
      BY <2>1, <2>2, <3>1, <3>2, <3>3, <3>4 DEF PlaceInv, Returned
  <2> QED
    BY <2>3, <2>4
<1>10. CASE DirNext
  BY <1>10 DEF DirNext, Listing, PlaceInv, Returned, Vols
<1>11. CASE DirEnd
  BY <1>11 DEF DirEnd, Listing, PlaceInv, Returned, Vols
<1>12. CASE UNCHANGED fileVars
  BY <1>12 DEF fileVars, PlaceInv, Returned, Vols
<1>13. CASE LocateVolumes
  <2>1. step = 0 /\ helper = "scan" /\ ~Returned
    BY <1>13 DEF LocateVolumes, PlaceInv
  <2>2. UNCHANGED <<world, helper, program, vol, disk>> /\ Vols' = Vols
    BY <1>13 DEF LocateVolumes, Vols
  <2>3. Len(program) = CallCount(helper) /\ CallCount(helper) = 6
    BY <2>1, Counts DEF PlaceInv, CallCount
  <2>4. CASE step' = 1 /\ handleBuffer' = TRUE /\ UNCHANGED <<status, missed>>
    BY <2>1, <2>2, <2>3, <2>4 DEF PlaceInv, CallCount, Returned
  <2>5. CASE step' = Len(program) + 1 /\ status' = "not_found" /\ missed' = DOMAIN world.vols /\ UNCHANGED handleBuffer
    <3>1. missed' = Vols
      BY <2>5, VolumeNumbers
    <3>2. CallCount(helper)' = CallCount(helper) /\ step' = 7 /\ 7 \in 0..6 + 1
      BY <2>2, <2>3, <2>5 DEF CallCount
    <3> QED
      BY <2>1, <2>2, <2>3, <2>5, <3>1, <3>2 DEF PlaceInv, Returned
  <2> QED
    BY <1>13, <2>4, <2>5 DEF LocateVolumes
<1>14. CASE DirFails
  BY <1>14 DEF DirFails, Listing, PlaceInv, Returned, Vols
<1> QED
  BY <1>2, <1>3, <1>4, <1>5, <1>7, <1>8, <1>9, <1>10, <1>11, <1>12, <1>13, <1>14, CallOkSplit DEF FileNext

(* What a helper that goes on holds, and what one that returns.            *)
Buffered(r) == IF r.vol # 0 THEN {"Buffer"} ELSE {}
(* What is held now, and what will be held when the call has returned.     *)
LEMMA HeldNow ==
  ASSUME PlaceInv, HeldInv, Running
  PROVE  /\ held = Taken(helper, step) \cup Buffered(result)
         /\ After = Left(helper, step) \cup Buffered(result)
         /\ Now.do # "delete" => (held \ Now.undo) \cap {"RootDir", "Handle"} = {}
         /\ helper \in {"read", "scan", "write", "dir"} /\ Now.do # "delete" => held \ Now.undo = Buffered(result)
<1>1. /\ SetForm(helper, Taken(helper, step), Left(helper, step), Now) /\ ~Returned /\ step \in 1..CallCount(helper)
      /\ CallCount(helper) \in {4, 5, 6}
  BY CallFacts, WorldFacts
<1>2. held = Taken(helper, step) \cup Buffered(result)
  BY <1>1 DEF HeldInv, Buffered
<1>3. PICK t, next, b, c : t = Taken(helper, step) /\ next = Left(helper, step) /\ b = Buffered(result) /\ c = Now
  OBVIOUS
<1>4. b \subseteq {"Buffer"} /\ held = t \cup b
  BY <1>2, <1>3 DEF Buffered
<1>5. SetForm(helper, t, next, c)
  BY <1>1, <1>3
<1>6. (held \cup c.acquires) \ c.after = next \cup b
  BY <1>4, <1>5 DEF SetForm
<1>7. c.do # "delete" => (held \ c.undo) \cap {"RootDir", "Handle"} = {}
  BY <1>4, <1>5 DEF SetForm
<1>8. helper \in {"read", "scan", "write", "dir"} /\ c.do # "delete" => held \ c.undo = b
  <2>1. SUFFICES ASSUME helper \in {"read", "scan", "write", "dir"}, c.do # "delete" PROVE held \ c.undo = b
    OBVIOUS
  <2>2. t \ c.undo = {} /\ "Buffer" \notin c.undo
    BY <1>5, <2>1 DEF SetForm
  <2> QED
    BY <1>4, <2>2
<1> QED
  BY <1>2, <1>3, <1>6, <1>7, <1>8 DEF After

(* A helper that goes on holds what its next call counts on.               *)
LEMMA GoesOnHeld ==
  ASSUME PlaceInv, HeldInv, Running, held' = After, UNCHANGED <<helper, status, result>>, step' = step + 1,
         step # CallCount(helper) \/ helper = "dir"
  PROVE  HeldInv'
<1>1. held' = Left(helper, step) \cup Buffered(result) /\ ~Returned /\ step \in 1..CallCount(helper) /\ CallCount(helper) \in {4, 5, 6}
  BY HeldNow, CallFacts, WorldFacts
<1>2. CallCount(helper)' = CallCount(helper) /\ Passed(helper)' = Passed(helper)
  BY DEF CallCount, Passed
<1>3. Left(helper, step) = IF step' > CallCount(helper) THEN Passed(helper) ELSE Taken(helper, step')
  BY <1>1 DEF Left
<1>4. Taken(helper, step)' = Taken(helper, step')
  BY DEF Taken
<1> QED
  BY <1>1, <1>2, <1>3, <1>4 DEF HeldInv, Buffered, Returned

(* HeldInv is kept by every step.                                          *)
LEMMA HeldKeeps ==
  ASSUME PlaceInv, HeldInv, [FileNext]_fileVars
  PROVE  HeldInv'
<1>1. CASE GoesOn
  BY <1>1, CallFacts, GoesOnHeld DEF GoesOn, Called
<1>2. CASE FindsSecond
  <2>1. After = {"TempBuffer"} \cup Buffered(result) /\ helper = "scan"
    BY <1>2, HeldNow, CallFacts DEF FindsSecond, Called, Left, Passed
  <2>2. held' = {} /\ result' = Nothing /\ Returned'
    BY <1>2, <2>1 DEF FindsSecond, Buffered, Returned
  <2> QED
    BY <2>2 DEF HeldInv, HandlesClosed, BuffersFreed, Nothing
<1>3. CASE FindsFirst
  <2>1. After = {"TempBuffer"} /\ helper = "scan" /\ helper' = helper
    BY <1>3, HeldNow, CallFacts DEF FindsFirst, Called, Left, Passed, Buffered
  <2>2. held' = {"Buffer"} /\ result'.vol # 0
    BY <1>3, <2>1, WorldFacts DEF FindsFirst, Buffer
  <2>3. CASE NextVol
    <3>1. step' = 1 /\ status' = "running" /\ Taken(helper, step)' = {}
      BY <1>3, <2>3 DEF FindsFirst, Continue, Taken
    <3>2. ~(step' > CallCount(helper)')
      BY <3>1 DEF CallCount
    <3> QED
      BY <2>1, <2>2, <3>1, <3>2 DEF HeldInv, Returned
  <2>4. CASE ~NextVol
    <3>1. status' = "success"
      BY <1>3, <2>2, <2>4 DEF FindsFirst, Continue
    <3> QED
      BY <2>1, <2>2, <3>1 DEF HeldInv, HandlesClosed, BuffersFreed, Returned
  <2> QED
    BY <2>3, <2>4
<1>4. CASE ReadReturns
  <2>1. helper \in {"read", "shell_read"} /\ ~Returned /\ result = Nothing
    BY <1>4, CallFacts DEF ReadReturns, Called, HeldInv
  <2>2. After = {"TempBuffer"}
    BY <1>4, <2>1, HeldNow, CallFacts DEF ReadReturns, Called, Left, Passed, Buffered, Nothing
  <2>3. held' = {"Buffer"} /\ result'.vol # 0 /\ status' = "success" /\ helper' = helper
    BY <1>4, <2>2, WorldFacts DEF ReadReturns, Buffer, Called
  <2> QED
    BY <2>1, <2>3 DEF HeldInv, HandlesClosed, BuffersFreed, Returned
<1>5. CASE WriteReturns
  <2>1. helper \in {"write", "shell_write"} /\ ~Returned /\ result = Nothing
    BY <1>5, CallFacts DEF WriteReturns, Called, HeldInv
  <2>2. After = {}
    BY <1>5, <2>1, HeldNow, CallFacts DEF WriteReturns, Called, Left, Passed, Buffered, Nothing
  <2>3. held' = {} /\ status' = "success" /\ helper' = helper /\ result' = Nothing
    BY <1>5, <2>1, <2>2 DEF WriteReturns, Called
  <2> QED
    BY <2>1, <2>3 DEF HeldInv, HandlesClosed, BuffersFreed, Returned, Nothing
<1>6. ASSUME NEW warned \in BOOLEAN, Deleted(warned) PROVE HeldInv'
  <2>1. Running /\ Now.do = "delete" /\ UNCHANGED <<helper, status, result>> /\ step' = step + 1 /\ held' = held \ Now.after
    BY <1>6 DEF Deleted
  <2>2. step = 3 /\ helper = "write"
    BY <2>1, CallFacts DEF DoForm
  <2>3. Now = Call("delete", {}, {}, {"Handle"}, "error")
    <3>1. program = WriteFileFromBuffer
      BY <2>2 DEF PlaceInv, Program
    <3>2. WriteFileFromBuffer[3] = Call("delete", {}, {}, {"Handle"}, "error")
      BY DEF WriteFileFromBuffer
    <3> QED
      BY <2>2, <3>1, <3>2 DEF Now
  <2>4. held' = After
    <3>1. Now.acquires = {}
      BY <2>3 DEF Call
    <3> QED
      BY <2>1, <3>1 DEF After
  <2>5. step # CallCount(helper)
    BY <2>2 DEF CallCount
  <2> QED
    BY <2>1, <2>4, <2>5, GoesOnHeld
<1>7. CASE CallFails
  <2>1. Running /\ Now.do # "delete" /\ helper' = helper /\ held' = held \ Now.undo
    BY <1>7 DEF CallFails
  <2>2. (held \ Now.undo) \cap {"RootDir", "Handle"} = {}
        /\ (helper \in {"read", "scan", "write", "dir"} => held \ Now.undo = Buffered(result))
        /\ ~Returned /\ (helper # "scan" => result = Nothing)
    BY <2>1, HeldNow, CallFacts DEF HeldInv
  <2>3. CASE helper = "scan" /\ Now.status # "success"
    <3>1. held' = Buffered(result) /\ result' = result /\ Continue
      BY <1>7, <2>1, <2>2, <2>3 DEF CallFails
    <3>2. CASE NextVol
      <4>1. step' = 1 /\ status' = "running" /\ Taken(helper, step)' = {}
        BY <3>1, <3>2 DEF Continue, Taken
      <4>2. ~(step' > CallCount(helper)')
        BY <4>1 DEF CallCount
      <4> QED
        BY <2>1, <2>3, <3>1, <4>1, <4>2 DEF HeldInv, Returned, Buffered
    <3>3. CASE ~NextVol
      <4>1. status' \in {"success", "not_found"}
        BY <3>1, <3>3 DEF Continue
      <4> QED
        BY <2>1, <2>3, <3>1, <4>1 DEF HeldInv, HandlesClosed, BuffersFreed, Returned, Buffered
    <3> QED
      BY <3>2, <3>3
  <2>4. CASE ~(helper = "scan" /\ Now.status # "success")
    <3>1. result' = result /\ status' = (IF helper = "scan" THEN "undefined" ELSE Now.status)
      BY <1>7, <2>4 DEF CallFails
    <3>2. Returned'
      BY <2>1, <3>1, CallFacts DEF DoForm, Returned
    <3>3. HandlesClosed'
      BY <2>1, <2>2 DEF HandlesClosed
    <3>4. BuffersFreed'
      BY <2>1, <2>2, <3>1 DEF BuffersFreed, Buffered, Nothing
    <3> QED
      BY <3>2, <3>3, <3>4 DEF HeldInv
  <2> QED
    BY <2>3, <2>4
<1>8. CASE DirNext
  BY <1>8 DEF DirNext, Listing, HeldInv, Returned, Taken, CallCount, Passed
<1>9. CASE DirEnd
  <2>1. helper = "dir" /\ ~Returned /\ step > Len(program) /\ helper' = helper
    BY <1>9 DEF DirEnd, Listing, Returned
  <2>2. step > CallCount(helper) /\ result = Nothing
    BY <2>1, Counts DEF PlaceInv, HeldInv
  <2>3. held = {"Handle", "FileInfo"}
    BY <2>1, <2>2 DEF HeldInv, Passed, Nothing
  <2>4. held' = {} /\ status' \in {"success", "no_name", "not_found"}
    BY <1>9, <2>3 DEF DirEnd
  <2> QED
    BY <2>1, <2>4 DEF HeldInv, HandlesClosed, BuffersFreed, Returned
<1>10. CASE UNCHANGED fileVars
  BY <1>10 DEF fileVars, HeldInv, HandlesClosed, BuffersFreed, Returned, Taken, CallCount, Passed
<1>11. CASE LocateVolumes
  <2>1. step = 0 /\ ~Returned /\ helper = "scan" /\ UNCHANGED <<helper, held, result>> /\ CallCount(helper) = 6
    BY <1>11 DEF LocateVolumes, PlaceInv, CallCount
  <2>2. held = Buffered(result)
    BY <2>1 DEF HeldInv, Taken, Buffered
  <2>3. CASE step' = 1 /\ UNCHANGED status
    BY <2>1, <2>2, <2>3 DEF HeldInv, Taken, CallCount, Buffered, Returned
  <2>4. CASE status' = "not_found"
    BY <2>1, <2>2, <2>4 DEF HeldInv, HandlesClosed, BuffersFreed, Buffered, Returned
  <2> QED
    BY <1>11, <2>3, <2>4 DEF LocateVolumes
<1>12. CASE DirFails
  <2>1. helper = "dir" /\ ~Returned /\ step > Len(program) /\ helper' = helper /\ result' = result
    BY <1>12 DEF DirFails, Listing, Returned
  <2>2. step > CallCount(helper) /\ result = Nothing
    BY <2>1, Counts DEF PlaceInv, HeldInv
  <2>3. held = {"Handle", "FileInfo"}
    BY <2>1, <2>2 DEF HeldInv, Passed, Nothing
  <2>4. held' = {} /\ status' = "not_found"
    BY <1>12, <2>3 DEF DirFails
  <2> QED
    BY <2>1, <2>4 DEF HeldInv, HandlesClosed, BuffersFreed, Returned
<1> QED
  BY <1>1, <1>2, <1>3, <1>4, <1>5, <1>6, <1>7, <1>8, <1>9, <1>10, <1>11, <1>12, CallOkSplit DEF FileNext

(* A scan changes no disk.                                                 *)
LEMMA ScanReads ==
  ASSUME PlaceInv, ScanInv, Called, helper = "scan"
  PROVE  /\ disk = world.vols /\ disk' = disk /\ ~Returned /\ missed \subseteq 1..vol - 1
         /\ step = CallCount(helper) => world.vols[vol] # NoFile
<1>1. Running /\ disk' = [disk EXCEPT ![vol] = Effect(Now.do, @)] /\ disk = world.vols /\ ~Returned
  BY CallFacts DEF Called, ScanInv
<1>2. Now.do \notin {"delete", "create", "empty", "write"}
  BY <1>1, CallFacts DEF DoForm
<1>3. Effect(Now.do, disk[vol]) = disk[vol]
  BY <1>2 DEF Effect
<1>4. disk' = disk
  BY <1>1, <1>3 DEF PlaceInv
<1>5. step = CallCount(helper) => Now.do = "read"
  BY <1>1, CallFacts DEF DoForm, CallCount
<1> QED
  BY <1>1, <1>4, <1>5 DEF ScanInv, Called, Possible

(* What a scan counts does not change behind it.                           *)
LEMMA GotNow ==
  ASSUME PlaceInv
  PROVE  /\ missed \subseteq 1..vol - 1 => Got(vol) = Got(vol - 1) \cup (IF world.vols[vol] # NoFile THEN {vol} ELSE {})
         /\ vol - 1 \in Nat /\ (vol = Len(world.vols) \/ vol < Len(world.vols))
         /\ missed \subseteq 1..vol - 1 => vol \notin missed
<1>1. vol \in Nat \ {0} /\ vol \in 1..Len(world.vols) /\ Len(world.vols) \in Nat
  BY WorldFacts DEF PlaceInv, Vols
<1>2. 1..vol = (1..vol - 1) \cup {vol}
  BY <1>1
<1>3. vol \notin 1..vol - 1
  BY <1>1
<1> QED
  BY <1>1, <1>2, <1>3 DEF Got

(* What a scan has found at its end, and what it has to answer.            *)
Ends(with, vols, res, st) ==
  IF res.vol = 0 THEN with = {} /\ st = "not_found"
  ELSE with = {res.vol} /\ res.data = vols[res.vol] /\ st = "success"
Answered(with, vols, res, st) ==
  CASE with = {} -> st = "not_found"
    [] Cardinality(with) = 1 -> st = "success" /\ res.vol \in with /\ res.data = vols[res.vol]
    [] Cardinality(with) > 1 -> st = "no_mapping"

(* A scan that ends with what it has found ends with the right answer.     *)
LEMMA ScanAnswers ==
  ASSUME NEW with, NEW vols, NEW res, NEW st,
         Ends(with, vols, res, st)
  PROVE  Answered(with, vols, res, st)
<1>1. Cardinality({res.vol}) = 1 /\ {res.vol} # {} /\ Cardinality({}) = 0
  BY FS_Singleton, FS_EmptySet
<1>2. CASE res.vol = 0
  <2>1. with = {} /\ st = "not_found" /\ Cardinality(with) = 0
    BY <1>1, <1>2 DEF Ends
  <2>2. ~(Cardinality(with) = 1) /\ ~(Cardinality(with) > 1)
    BY <2>1, CallNumbers, Zenon
  <2> QED
    BY <2>1, <2>2 DEF Answered
<1>3. CASE res.vol # 0
  <2>1. with # {} /\ Cardinality(with) = 1 /\ st = "success" /\ res.vol \in with /\ res.data = vols[res.vol]
    BY <1>1, <1>3 DEF Ends
  <2>2. ~(Cardinality(with) > 1)
    BY <2>1
  <2> QED
    BY <2>1, <2>2 DEF Answered
<1> QED
  BY <1>2, <1>3

(* Two volumes with the file are more than one.                            *)
LEMMA ScanDoubts ==
  ASSUME NEW with, IsFiniteSet(with), NEW a \in with, NEW b \in with, a # b, NEW vols, NEW res, NEW st, st = "no_mapping"
  PROVE  Answered(with, vols, res, st)
<1>1. with # {} /\ Cardinality(with) \in Nat
  BY FS_CardinalityType
<1>2. Cardinality(with) # 1
  <2>1. SUFFICES ASSUME Cardinality(with) = 1 PROVE FALSE
    OBVIOUS
  <2>2. PICK x : with = {x}
    BY <2>1, FS_Singleton
  <2> QED
    BY <2>2
<1>3. Cardinality(with) # 0
  BY <1>1, FS_EmptySet
<1>4. PICK n \in Nat : n = Cardinality(with)
  BY <1>1
<1>5. n > 1
  <2>1. n # 0 /\ n # 1
    BY <1>2, <1>3, <1>4
  <2> QED
    BY <2>1, CallNumbers, Zenon
<1>6. Cardinality(with) > 1
  BY <1>4, <1>5
<1> QED
  BY <1>1, <1>2, <1>6, Zenon DEF Answered

(* ScanInv is kept by every step.                                          *)
LEMMA ScanKeeps ==
  ASSUME PlaceInv, ScanInv, [FileNext]_fileVars
  PROVE  ScanInv'
<1>1. SUFFICES ASSUME helper = "scan", helper' = helper, world' = world, program' = program PROVE ScanInv'
  BY DEF ScanInv, FileNext, LocateVolumes, CallOk, CallFails, Deleted, DirNext, DirFails, DirEnd, fileVars
<1>2. Vols = 1..Len(world.vols) /\ vol \in Vols /\ Len(world.vols) \in Nat \ {0}
  BY WorldFacts DEF Vols, PlaceInv
<1> DEFINE Has(k, gone) == {v \in 1..k : world.vols[v] # NoFile} \ gone
           Found(k, gone, r) == IF r.vol = 0 THEN r = Nothing /\ Has(k, gone) = {}
                                ELSE Has(k, gone) = {r.vol} /\ r.data = world.vols[r.vol]
<1>3. /\ ~Returned => missed \subseteq 1..vol - 1 /\ Found(vol - 1, missed, result)
      /\ missed \subseteq 1..vol - 1 => vol \notin missed /\ Has(vol, missed) = Has(vol - 1, missed) \cup (IF world.vols[vol] # NoFile THEN {vol} ELSE {})
      /\ vol - 1 \in Nat /\ (vol = Len(world.vols) \/ vol < Len(world.vols))
  BY <1>1, GotNow DEF ScanInv, Got
<1>4. ASSUME Continue, missed' \subseteq 1..vol, disk' = world.vols, Found(vol, missed', result') PROVE ScanInv'
  <2>1. CASE NextVol
    <3>1. vol' = vol + 1 /\ status' = "running" /\ vol' - 1 = vol
      BY <1>3, <1>4, <2>1, WorldFacts DEF Continue
    <3>2. Found(vol' - 1, missed', result')
      BY <1>4, <3>1
    <3> QED
      BY <1>1, <1>4, <3>1, <3>2 DEF ScanInv, Returned, Got
  <2>2. CASE ~NextVol
    <3>1. vol = Len(world.vols) /\ status' = IF result'.vol = 0 THEN "not_found" ELSE "success"
      BY <1>1, <1>3, <1>4, <2>2 DEF Continue, NextVol
    <3>2. PICK with, st, res, gone, vols : with = Has(vol, gone) /\ st = status' /\ res = result' /\ gone = missed' /\ vols = world.vols
      OBVIOUS
    <3>3. Ends(with, vols, res, st)
      BY <1>4, <3>1, <3>2 DEF Ends
    <3>4. Answered(with, vols, res, st)
      BY <3>3, ScanAnswers, Zenon
    <3> QED
      BY <1>1, <1>4, <3>1, <3>2, <3>4 DEF ScanInv, ScanRight, Answered, Returned
  <2> QED
    BY <2>1, <2>2
<1>5. CASE FindsFirst
  <2>1. Called /\ LastCall /\ result.vol = 0 /\ result' = Buffer /\ Continue /\ missed' = missed /\ Running
    BY <1>5 DEF FindsFirst, Called
  <2>2. disk = world.vols /\ disk' = disk /\ missed \subseteq 1..vol - 1 /\ world.vols[vol] # NoFile /\ ~Returned
    BY <1>1, <2>1, ScanReads, CallFacts
  <2>3. result'.vol = vol /\ result'.data = world.vols[vol] /\ vol # 0
    BY <2>1, <2>2, WorldFacts DEF Buffer
  <2>4. Has(vol, missed) = {vol}
    <3>1. Has(vol - 1, missed) = {}
      BY <1>3, <2>1, <2>2
    <3> QED
      BY <1>3, <2>2, <3>1
  <2>5. missed' \subseteq 1..vol
    BY <1>3, <2>1, <2>2, WorldFacts
  <2> QED
    BY <1>4, <2>1, <2>2, <2>3, <2>4, <2>5
<1>6. CASE FindsSecond
  <2>1. Called /\ LastCall /\ result.vol # 0 /\ UNCHANGED <<vol, missed>> /\ status' = "no_mapping" /\ Running
    BY <1>6 DEF FindsSecond, Called
  <2>2. disk = world.vols /\ disk' = disk /\ missed \subseteq 1..vol - 1 /\ world.vols[vol] # NoFile /\ ~Returned
    BY <1>1, <2>1, ScanReads, CallFacts
  <2>3. Has(vol - 1, missed) = {result.vol}
    BY <1>3, <2>1, <2>2
  <2>4. PICK with, n, res, st : with = Has(n, missed) /\ n = Len(world.vols) /\ res = result' /\ st = status'
    OBVIOUS
  <2>5. IsFiniteSet(with)
    <3>1. with \subseteq 1..n
      BY <2>4 DEF Has
    <3>2. n \in Nat
      BY <1>2, <2>4
    <3>3. IsFiniteSet(1..n)
      BY <3>2, FS_Interval
    <3> QED
      BY <3>1, <3>3, FS_Subset
  <2>6. vol \in with /\ result.vol \in with /\ vol # result.vol
    <3>1. vol \in 1..n /\ vol \notin missed
      BY <1>2, <1>3, <2>2, <2>4
    <3>2. result.vol \in 1..vol - 1 /\ world.vols[result.vol] # NoFile /\ result.vol \notin missed
      BY <2>3
    <3>3. result.vol \in 1..n /\ result.vol # vol
      BY <1>2, <1>3, <2>4, <3>1, <3>2
    <3> QED
      BY <2>2, <2>4, <3>1, <3>2, <3>3
  <2>7. Answered(with, world.vols, res, st)
    BY <2>1, <2>4, <2>5, <2>6, ScanDoubts
  <2> QED
    BY <1>1, <2>1, <2>2, <2>4, <2>7 DEF ScanInv, ScanRight, Answered, Returned
<1>7. CASE GoesOn
  <2>1. Called /\ UNCHANGED <<vol, missed, result, status>>
    BY <1>7 DEF GoesOn, Called
  <2>2. disk = world.vols /\ disk' = disk /\ ~Returned
    BY <1>1, <2>1, ScanReads
  <2> QED
    BY <1>1, <2>1, <2>2 DEF ScanInv, Got, Returned
<1>8. CASE CallFails
  <2>1. Running /\ missed' = missed \cup {vol} /\ disk' = disk
    BY <1>8 DEF CallFails
  <2>2. ~Returned /\ disk = world.vols
    BY <1>1, <2>1, CallFacts DEF ScanInv
  <2>3. CASE Now.status # "success"
    <3>1. result' = result /\ Continue
      BY <1>1, <1>8, <2>3 DEF CallFails
    <3>2. missed' \subseteq 1..vol
      BY <1>3, <2>1, <2>2, WorldFacts
    <3>3. Has(vol, missed') = Has(vol - 1, missed)
      <4>1. Has(vol, missed') = Has(vol, missed) \ {vol}
        BY <2>1
      <4>2. vol \notin Has(vol - 1, missed)
        BY <1>3
      <4> QED
        BY <1>3, <2>2, <4>1, <4>2
    <3>4. Found(vol, missed', result')
      BY <1>3, <2>2, <3>1, <3>3
    <3> QED
      BY <1>4, <2>1, <2>2, <3>1, <3>2, <3>4
  <2>4. CASE Now.status = "success"
    <3>1. status' = "undefined"
      BY <1>1, <1>8, <2>4 DEF CallFails
    <3> QED
      BY <1>1, <2>1, <2>2, <3>1 DEF ScanInv, ScanRight, Returned
  <2> QED
    BY <2>3, <2>4
<1>9. CASE UNCHANGED fileVars
  BY <1>9 DEF fileVars, ScanInv, ScanRight, Got, Returned
<1>10. ~ReadReturns /\ ~WriteReturns /\ ~DirNext /\ ~DirFails /\ ~DirEnd /\ \A warned \in BOOLEAN : ~Deleted(warned)
  <2>1. Running => Now.do # "delete"
    BY <1>1, CallFacts DEF DoForm
  <2> QED
    BY <1>1, <2>1 DEF ReadReturns, WriteReturns, DirNext, DirFails, DirEnd, Listing, Deleted
<1>11. CASE LocateVolumes
  <2>1. ~Returned /\ UNCHANGED <<vol, disk, result>> /\ disk = world.vols
    BY <1>1, <1>11 DEF LocateVolumes, PlaceInv, ScanInv
  <2>2. CASE UNCHANGED <<status, missed>>
    BY <1>1, <2>1, <2>2 DEF ScanInv, Got, Returned
  <2>3. CASE status' = "not_found" /\ missed' = DOMAIN world.vols
    <3>1. DOMAIN world.vols = 1..Len(world.vols)
      BY VolumeNumbers DEF Vols
    <3>2. PICK with, st, res, vols :
            /\ with = {v \in 1..Len(world.vols) : world.vols[v] # NoFile} \ missed'
            /\ st = status' /\ res = result' /\ vols = world.vols
      OBVIOUS
    <3>3. with = {} /\ st = "not_found"
      BY <2>3, <3>1, <3>2
    <3>4. Answered(with, vols, res, st)
      <4>1. Cardinality(with) = 0
        BY <3>3, FS_EmptySet
      <4>2. Cardinality(with) # 1 /\ ~(Cardinality(with) > 1)
        BY <4>1, CallNumbers, Zenon
      <4> QED
        BY <3>3, <4>2, Zenon DEF Answered
    <3> QED
      BY <1>1, <2>1, <2>3, <3>2, <3>4 DEF ScanInv, ScanRight, Answered, Returned
  <2> QED
    BY <1>11, <2>2, <2>3 DEF LocateVolumes
<1> QED
  BY <1>5, <1>6, <1>7, <1>8, <1>9, <1>10, <1>11, CallOkSplit DEF FileNext

-----------------------------------------------------------------------------
(* A write over the start of a file: nothing stays of a file that is not   *)
(* longer.                                                                 *)
LEMMA NothingBeyond ==
  ASSUME NEW T, NEW s \in Seq(T), NEW n \in Nat, Len(s) <= n
  PROVE  SubSeq(s, n + 1, Len(s)) = <<>>
<1>1. Len(s) \in Nat /\ n + 1 > Len(s)
  OBVIOUS
<1> QED
  BY <1>1, SubSeqProperties

(* The mark of a missing file is not an empty file.                        *)
LEMMA NotEmpty == <<>> # NoFile
<1>1. Len(<<>>) = 0 /\ Len(NoFile) = 1
  BY DEF NoFile
<1> QED
  BY <1>1, CallNumbers, Zenon

(* What a write makes of old contents.                                     *)
LEMMA WrittenIs ==
  ASSUME NEW old \in Seq(Bytes) \cup {NoFile}, NEW new \in Seq(Bytes)
  PROVE  /\ Written(<<>>, new) = new
         /\ Written(NoFile, new) = new
         /\ Written(old, new) = new \o (IF old = NoFile \/ Len(old) <= Len(new) THEN <<>> ELSE SubSeq(old, Len(new) + 1, Len(old)))
<1>1. <<>> # NoFile /\ <<>> \in Seq(Bytes) /\ Len(<<>>) = 0 /\ Len(new) \in Nat /\ 0 <= Len(new)
  <2>1. <<>> \in Seq(Bytes) /\ Len(<<>>) = 0 /\ Len(new) \in Nat
    OBVIOUS
  <2>2. 0 <= Len(new)
    BY <2>1
  <2>3. <<>> # NoFile
    BY NotEmpty
  <2> QED
    BY <2>1, <2>2, <2>3
<1>2. new \o <<>> = new
  OBVIOUS
<1>3. SubSeq(<<>>, Len(new) + 1, Len(<<>>)) = <<>>
  BY <1>1, NothingBeyond
<1>4. CASE old = NoFile
  BY <1>1, <1>2, <1>3, <1>4 DEF Written
<1>5. CASE old # NoFile /\ Len(old) <= Len(new)
  <2>1. SubSeq(old, Len(new) + 1, Len(old)) = <<>>
    BY <1>1, <1>5, NothingBeyond
  <2> QED
    BY <1>1, <1>2, <1>3, <1>5, <2>1 DEF Written
<1>6. CASE old # NoFile /\ ~(Len(old) <= Len(new))
  BY <1>1, <1>2, <1>3, <1>6 DEF Written
<1> QED
  BY <1>4, <1>5, <1>6

(* What the shell's helper has made of the file.                           *)
ShellState == missed = {} /\ disk[vol] = IF step = 1 THEN Old ELSE IF step < 4 THEN Made ELSE <<>>
(* What ShellWriteFileFromBuffer leaves on the disk, step by step.         *)
LEMMA ShellWrites ==
  ASSUME helper = "shell_write", helper' = helper, ~Returned, ~Returned'
  PROVE  (WriteInv => ShellState) /\ (ShellState' => WriteInv')
<1>1. helper # "write" /\ helper' # "write" /\ helper \in {"write", "shell_write"}
  BY Names
<1>2. WriteInv => ShellState
  BY <1>1 DEF WriteInv, ShellState
<1>3. ShellState' => WriteInv'
  BY <1>1 DEF WriteInv, ShellState
<1> QED
  BY <1>2, <1>3

(* What a call makes of the file.                                          *)
LEMMA WriteKeeps ==
  ASSUME PlaceInv, WriteInv, [FileNext]_fileVars
  PROVE  WriteInv'
<1>1. SUFFICES ASSUME helper \in {"write", "shell_write"}, UNCHANGED <<helper, world, program>> PROVE WriteInv'
  BY DEF WriteInv, FileNext, LocateVolumes, CallOk, CallFails, Deleted, DirNext, DirFails, DirEnd, fileVars
<1>2. /\ vol = 1 /\ vol \in Vols /\ disk = [v \in Vols |-> disk[v]] /\ helper # "scan" /\ helper # "dir"
      /\ Old \in Seq(Bytes) \cup {NoFile} /\ world.data \in Seq(Bytes)
  <2>1. helper # "scan" /\ helper # "dir"
    BY <1>1
  <2>2. vol = 1 /\ vol \in 1..Len(world.vols) /\ disk = [v \in Vols |-> disk[v]]
    BY <2>1 DEF PlaceInv, Vols
  <2>3. world.vols \in Seq(Seq(Bytes) \cup {NoFile}) /\ world.data \in Seq(Bytes)
    BY WorldFacts DEF WorldForm
  <2>4. world.vols[vol] \in Seq(Bytes) \cup {NoFile}
    BY <2>2, <2>3
  <2> QED
    BY <2>1, <2>2, <2>3, <2>4 DEF Vols, Old
<1>3. ASSUME Running PROVE ~Returned /\ step \in 1..CallCount(helper) /\ DoForm(helper, step, Now)
                           /\ CallCount(helper) = (IF helper = "write" THEN 5 ELSE 4) /\ (LastCall <=> step = CallCount(helper))
  BY <1>1, <1>3, CallFacts DEF CallCount
<1>4. ASSUME Called PROVE disk'[vol] = Effect(Now.do, disk[vol]) /\ missed' = missed /\ ~Returned /\ Running
  BY <1>2, <1>3, <1>4 DEF Called
<1>5. CASE GoesOn
  <2>1. Called /\ UNCHANGED <<vol, status>> /\ step' = step + 1 /\ ~LastCall
    BY <1>2, <1>5 DEF GoesOn
  <2>2. /\ step \in 1..CallCount(helper) - 1 /\ ~Returned /\ ~Returned'
        /\ CallCount(helper) = (IF helper = "write" THEN 5 ELSE 4)
    BY <1>3, <1>4, <2>1 DEF Returned
  <2>3. UNCHANGED <<Old, Made>>
    BY <1>1, <2>1 DEF Old, Made
  <2>4. CASE helper = "write"
    <3>1. step \in {1, 2, 4}
      BY <1>3, <1>4, <2>1, <2>2, <2>4 DEF DoForm, Called
    <3>2. CASE step = 1
      <4>1. disk'[vol] = disk[vol]
        BY <1>3, <1>4, <2>1, <2>4, <3>2 DEF DoForm, Effect
      <4> QED
        BY <1>1, <1>4, <2>1, <2>2, <2>3, <2>4, <3>2, <4>1 DEF WriteInv
    <3>3. CASE step = 2
      <4>1. disk'[vol] = IF disk[vol] = NoFile THEN <<>> ELSE disk[vol]
        BY <1>3, <1>4, <2>1, <2>4, <3>3 DEF DoForm, Effect
      <4>2. disk[vol] = Old /\ missed = {}
        BY <1>1, <2>2, <2>4, <3>3 DEF WriteInv
      <4> QED
        BY <1>1, <1>4, <2>1, <2>2, <2>3, <2>4, <3>3, <4>1, <4>2 DEF WriteInv, Made
    <3>4. CASE step = 4
      <4>1. disk'[vol] = IF disk[vol] = NoFile THEN <<>> ELSE disk[vol]
        BY <1>3, <1>4, <2>1, <2>4, <3>4 DEF DoForm, Effect
      <4>2. disk[vol] = (IF vol \in missed THEN Made ELSE NoFile) /\ missed \subseteq {vol}
        BY <1>1, <2>2, <2>4, <3>4 DEF WriteInv
      <4>3. Made # NoFile
        BY NotEmpty DEF Made
      <4> QED
        BY <1>1, <1>4, <2>1, <2>2, <2>3, <2>4, <3>4, <4>1, <4>2, <4>3 DEF WriteInv
    <3> QED
      BY <3>1, <3>2, <3>3, <3>4
  <2>5. CASE helper = "shell_write"
    <3>1. ShellState /\ step \in {1, 2, 3} /\ helper # "write"
      <4>1. helper # "write"
        BY <2>5, Names
      <4>2. ShellState
        BY <1>1, <2>2, <2>5, ShellWrites
      <4>3. step \in {1, 2, 3}
        BY <2>2, <4>1
      <4> QED
        BY <4>1, <4>2, <4>3
    <3>2. missed' = {} /\ step' = step + 1 /\ vol' = vol
      BY <1>4, <2>1, <3>1 DEF ShellState
    <3>3. CASE step = 1
      <4>1. disk'[vol] = IF disk[vol] = NoFile THEN <<>> ELSE disk[vol]
        BY <1>3, <1>4, <2>1, <2>5, <3>3 DEF DoForm, Effect
      <4>2. disk[vol] = Old
        BY <3>1, <3>3 DEF ShellState
      <4>3. disk'[vol'] = Made' /\ step' = 2
        BY <2>3, <3>2, <3>3, <4>1, <4>2 DEF Made
      <4>4. ShellState'
        BY <3>2, <4>3 DEF ShellState
      <4> QED
        BY <1>1, <2>2, <2>5, <4>4, ShellWrites
    <3>4. CASE step = 2
      <4>1. disk'[vol] = disk[vol]
        BY <1>3, <1>4, <2>1, <2>5, <3>4 DEF DoForm, Effect
      <4>2. disk'[vol'] = Made' /\ step' = 3
        BY <2>3, <3>1, <3>2, <3>4, <4>1 DEF ShellState
      <4>3. ShellState'
        BY <3>2, <4>2 DEF ShellState
      <4> QED
        BY <1>1, <2>2, <2>5, <4>3, ShellWrites
    <3>5. CASE step = 3
      <4>0. Now.do = "empty"
        BY <1>3, <1>4, <2>5, <2>1, <3>5 DEF DoForm
      <4>1. disk'[vol'] = <<>> /\ step' = 4
        BY <1>4, <2>1, <3>2, <3>5, <4>0 DEF Effect
      <4>2. ShellState'
        BY <3>2, <4>1 DEF ShellState
      <4> QED
        BY <1>1, <2>2, <2>5, <4>2, ShellWrites
    <3> QED
      BY <3>1, <3>3, <3>4, <3>5
  <2> QED
    BY <1>1, <2>4, <2>5
<1>6. CASE WriteReturns
  <2>1. Called /\ LastCall /\ status' = "success" /\ UNCHANGED vol
    BY <1>6 DEF WriteReturns
  <2>2. step = (IF helper = "write" THEN 5 ELSE 4) /\ ~Returned /\ Now.do = "write"
    BY <1>1, <1>3, <1>4, <2>1 DEF DoForm
  <2>3. disk'[vol] = Written(disk[vol], world.data) /\ missed' = missed
    BY <1>4, <2>1, <2>2 DEF Effect
  <2>4. missed \subseteq {vol} /\ disk[vol] = IF vol \in missed THEN Made ELSE <<>>
    <3>1. CASE helper = "write"
      BY <2>2, <3>1 DEF WriteInv
    <3>2. CASE helper = "shell_write"
      <4>1. helper # "write" /\ step = 4
        BY <2>2, <3>2, Names
      <4>2. missed = {} /\ disk[vol] = IF step = 1 THEN Old ELSE IF step < 4 THEN Made ELSE <<>>
        BY <1>1, <2>2, <3>2, <4>1 DEF WriteInv
      <4> QED
        BY <4>1, <4>2
    <3> QED
      BY <1>1, <3>1, <3>2
  <2>5. Written(<<>>, world.data) = world.data /\ Written(NoFile, world.data) = world.data
        /\ Written(Old, world.data) = world.data \o (IF Old = NoFile \/ Len(Old) <= Len(world.data) THEN <<>> ELSE SubSeq(Old, Len(world.data) + 1, Len(Old)))
    BY <1>2, WrittenIs
  <2>6. FileReplaced'
    <3>1. CASE vol \notin missed
      BY <1>1, <2>1, <2>3, <2>4, <2>5, <3>1 DEF FileReplaced
    <3>2. CASE vol \in missed
      <4>1. Written(Made, world.data) = world.data \o (IF Old = NoFile \/ Len(Old) <= Len(world.data) THEN <<>> ELSE SubSeq(Old, Len(world.data) + 1, Len(Old)))
        BY <2>5 DEF Made
      <4> QED
        BY <1>1, <2>1, <2>3, <2>4, <3>2, <4>1 DEF FileReplaced, Old
    <3> QED
      BY <3>1, <3>2
  <2> QED
    BY <1>1, <2>1, <2>6 DEF WriteInv, Returned
<1>7. ASSUME NEW warned \in BOOLEAN, Deleted(warned) PROVE WriteInv'
  <2>1. /\ Running /\ Now.do = "delete" /\ UNCHANGED <<vol, status>> /\ step' = step + 1
        /\ disk' = [disk EXCEPT ![vol] = IF warned THEN @ ELSE NoFile]
        /\ missed' = IF warned THEN missed \cup {vol} ELSE missed
    BY <1>7 DEF Deleted
  <2>2. step = 3 /\ helper = "write" /\ ~Returned /\ ~Returned' /\ step' = 4
    BY <1>3, <2>1 DEF DoForm, Returned
  <2>3. missed = {} /\ disk[vol] = Made /\ UNCHANGED <<Old, Made>>
    BY <1>1, <2>1, <2>2 DEF WriteInv, Old, Made
  <2>4. disk'[vol] = IF warned THEN Made ELSE NoFile
    BY <1>2, <2>1, <2>3
  <2> QED
    BY <1>1, <2>1, <2>2, <2>3, <2>4 DEF WriteInv
<1>8. CASE CallFails
  <2>1. Running /\ status' = Now.status
    BY <1>2, <1>8 DEF CallFails
  <2>2. status' = "error"
    BY <1>1, <1>3, <2>1 DEF DoForm
  <2> QED
    BY <2>2 DEF WriteInv, FileReplaced, Returned
<1>9. CASE UNCHANGED fileVars
  BY <1>9 DEF fileVars, WriteInv, FileReplaced, Returned, Old, Made
<1>10. ~FindsFirst /\ ~FindsSecond /\ ~ReadReturns /\ ~DirNext /\ ~DirFails /\ ~DirEnd /\ ~LocateVolumes
  BY <1>1, <1>2 DEF FindsFirst, FindsSecond, ReadReturns, DirNext, DirFails, DirEnd, Listing, LocateVolumes, PlaceInv
<1> QED
  BY <1>5, <1>6, <1>7, <1>8, <1>9, <1>10, CallOkSplit DEF FileNext

-----------------------------------------------------------------------------
(* The directory: one entry more is behind the loop.                       *)
LEMMA BeforeNext ==
  ASSUME WorldForm(world), NEW k \in 1..Len(world.dir)
  PROVE  /\ IsFiniteSet(Before(k)) /\ Cardinality(Before(k)) \in Nat
         /\ Before(k + 1) = IF k \in Hits THEN Before(k) \cup {k} ELSE Before(k)
         /\ Cardinality(Before(k + 1)) = IF k \in Hits THEN Cardinality(Before(k)) + 1 ELSE Cardinality(Before(k))
<1>1. Len(world.dir) \in Nat /\ IsFiniteSet(1..Len(world.dir))
  <2>1. Len(world.dir) \in Nat
    BY DEF WorldForm
  <2> QED
    BY <2>1, FS_Interval
<1>2. Hits \subseteq 1..Len(world.dir) /\ Before(k) \subseteq 1..Len(world.dir) /\ k \notin Before(k)
  BY <1>1 DEF Hits, Before
<1>3. IsFiniteSet(Before(k)) /\ Cardinality(Before(k)) \in Nat
  BY <1>1, <1>2, FS_Subset, FS_CardinalityType
<1>4. Before(k + 1) = IF k \in Hits THEN Before(k) \cup {k} ELSE Before(k)
  <2>1. \A j \in 1..Len(world.dir) : j < k + 1 <=> (j < k \/ j = k)
    BY <1>1
  <2> QED
    BY <1>2, <2>1 DEF Before
<1>5. Cardinality(Before(k) \cup {k}) = Cardinality(Before(k)) + 1
  BY <1>2, <1>3, FS_AddElement
<1> QED
  BY <1>3, <1>4, <1>5

(* DirInv is kept by every step.                                           *)
LEMMA DirKeeps ==
  ASSUME PlaceInv, DirInv, [FileNext]_fileVars
  PROVE  DirInv'
<1>1. SUFFICES ASSUME helper = "dir", UNCHANGED <<helper, world, program>> PROVE DirInv'
  BY DEF DirInv, FileNext, LocateVolumes, CallOk, CallFails, Deleted, DirNext, DirFails, DirEnd, fileVars
<1>2. /\ WorldForm(world) /\ Hits' = Hits /\ Len(world.dir) \in Nat /\ world.index \in Nat
      /\ \A i \in 1..Len(world.dir) : DirMatches(world.dir[i]) <=> i \in Hits
  BY <1>1, WorldFacts DEF Hits, WorldForm, DirMatches
<1>3. CASE GoesOn
  <2>1. Running /\ UNCHANGED <<status, entry>>
    BY <1>3 DEF GoesOn, Called
  <2> QED
    BY <1>1, <1>2, <2>1, CallFacts DEF DirInv, Before, Returned
<1>4. CASE CallFails
  <2>1. Running /\ status' = Now.status
    BY <1>1, <1>4 DEF CallFails
  <2>2. status' = "error"
    BY <1>1, <2>1, CallFacts DEF DoForm
  <2> QED
    BY <2>2 DEF DirInv, IndexedFile, Returned
<1>5. CASE DirNext
  <2>1. /\ ~Returned /\ InDir /\ ~DirFound /\ status' = status
        /\ entry' = [at |-> entry.at + 1, passed |-> IF DirMatches(world.dir[entry.at]) THEN entry.passed + 1 ELSE entry.passed]
    BY <1>5 DEF DirNext, Listing, Returned
  <2>2. PICK k, n : k = entry.at /\ n = entry.passed
    OBVIOUS
  <2>3. k \in 1..Len(world.dir) /\ n = Cardinality(Before(k)) /\ n <= world.index
    BY <1>1, <1>2, <2>1, <2>2 DEF DirInv, InDir
  <2>4. entry'.at = k + 1 /\ entry'.passed = IF k \in Hits THEN n + 1 ELSE n
    BY <1>2, <2>1, <2>2, <2>3
  <2>5. entry'.passed = Cardinality(Before(k + 1)) /\ n \in Nat
    BY <1>2, <2>3, <2>4, BeforeNext
  <2>6. k \in Hits => n # world.index
    BY <1>2, <2>1, <2>2, <2>3 DEF DirFound
  <2>7. entry'.at \in 1..Len(world.dir) + 1 /\ entry'.passed <= world.index
    BY <1>2, <2>3, <2>4, <2>5, <2>6
  <2>8. Before(entry.at)' = Before(k + 1)
    BY <1>2, <2>4 DEF Before
  <2>9. ~Returned'
    BY <2>1 DEF Returned
  <2> QED
    BY <1>1, <2>5, <2>7, <2>8, <2>9 DEF DirInv
<1>6. CASE DirEnd
  <2>1. ~Returned
    BY <1>6 DEF DirEnd, Listing, Returned
  <2>2. PICK k, n : k = entry.at /\ n = entry.passed
    OBVIOUS
  <2>3. k \in 1..Len(world.dir) + 1 /\ n = Cardinality(Before(k)) /\ n <= world.index
    BY <1>1, <2>1, <2>2 DEF DirInv
  <2>4. CASE DirFound /\ status' = "success" /\ result' = [vol |-> entry.at, data |-> <<>>]
    <3>1. k <= Len(world.dir) /\ DirMatches(world.dir[k]) /\ n = world.index /\ result'.vol = k
      BY <2>2, <2>4 DEF DirFound, InDir
    <3>2. k \in Hits
      BY <1>2, <2>3, <3>1
    <3>3. Cardinality({j \in Hits : j < k}) = world.index
      BY <2>3, <3>1 DEF Before
    <3>4. /\ result'.vol \in Hits /\ Cardinality({j \in Hits : j < result'.vol}) = world.index
          /\ status' = "success" /\ UNCHANGED world
      BY <1>1, <2>4, <3>1, <3>2, <3>3
    <3>5. IndexedFile'
      BY <3>4 DEF IndexedFile, Hits
    <3> QED
      BY <2>4, <3>5 DEF DirInv, Returned
  <2>5. CASE ~InDir /\ status' = "not_found"
    <3>1. k = Len(world.dir) + 1
      <4>1. ~(k <= Len(world.dir))
        BY <2>2, <2>5 DEF InDir
      <4> QED
        BY <1>2, <2>3, <4>1
    <3>2. Before(k) = Hits
      BY <1>2, <3>1 DEF Before, Hits
    <3>3. Cardinality(Hits) <= world.index
      BY <2>3, <3>2
    <3>4. IndexedFile'
      BY <1>1, <2>5, <3>3 DEF IndexedFile, Hits
    <3> QED
      BY <2>5, <3>4 DEF DirInv, Returned
  <2>6. CASE DirFound /\ status' = "no_name"
    BY <2>6 DEF DirInv, IndexedFile, Returned
  <2>7. UNCHANGED world /\ (\/ DirFound /\ status' = "success" /\ result' = [vol |-> entry.at, data |-> <<>>]
                            \/ DirFound /\ status' = "no_name"
                            \/ ~InDir /\ status' = "not_found")
    BY <1>6 DEF DirEnd
  <2> QED
    BY <2>4, <2>5, <2>6, <2>7
<1>7. CASE UNCHANGED fileVars
  BY <1>7 DEF fileVars, DirInv, IndexedFile, Hits, Before, Returned
<1>8. ~FindsFirst /\ ~FindsSecond /\ ~ReadReturns /\ ~WriteReturns /\ ~LocateVolumes /\ \A warned \in BOOLEAN : ~Deleted(warned)
  <2>1. Running => Now.do # "delete"
    BY <1>1, CallFacts DEF DoForm
  <2> QED
    BY <1>1, <2>1 DEF FindsFirst, FindsSecond, ReadReturns, WriteReturns, Deleted, LocateVolumes, PlaceInv
<1>9. CASE DirFails
  <2>1. status' = "not_found" /\ missed' = missed \cup {vol}
    BY <1>9 DEF DirFails
  <2> QED
    BY <2>1 DEF DirInv, IndexedFile, Returned
<1> QED
  BY <1>3, <1>4, <1>5, <1>6, <1>7, <1>8, <1>9, CallOkSplit DEF FileNext

-----------------------------------------------------------------------------
(* FilesInv holds initially.                                               *)
LEMMA InitHolds == FileInit => FilesInv
<1> SUFFICES ASSUME FileInit PROVE FilesInv
  OBVIOUS
<1>1. WorldForm(world) /\ world \in Worlds /\ helper \in Helpers
  BY WorldsAssumption DEF FileInit
<1>2. /\ vol = 1 /\ step = (IF helper = "scan" THEN 0 ELSE 1) /\ handleBuffer = FALSE /\ status = "running" /\ disk = world.vols /\ missed = {} /\ held = {} /\ result = Nothing
      /\ program = Program(helper) /\ entry = [at |-> 1, passed |-> 0] /\ ~Returned
  BY DEF FileInit, Returned
<1>3. Len(world.vols) \in Nat \ {0} /\ Len(world.dir) \in Nat /\ world.vols = [v \in 1..Len(world.vols) |-> world.vols[v]]
  <2>1. world.vols \in Seq(Seq(Bytes) \cup {NoFile}) /\ world.vols # <<>> /\ world.dir \in Seq([isDir : BOOLEAN, suffix : BOOLEAN])
    BY <1>1 DEF WorldForm
  <2> QED
    BY <2>1
<1>4. CallCount(helper) \in {4, 5, 6}
  BY DEF CallCount
<1>5. PlaceInv
  BY <1>1, <1>2, <1>3, <1>4 DEF PlaceInv, Vols
<1>6. HeldInv
  BY <1>2, <1>4 DEF HeldInv, Taken, Nothing
<1>7. ScanInv
  <2>1. Got(vol - 1) = {}
    BY <1>2 DEF Got
  <2> QED
    BY <1>2, <2>1 DEF ScanInv, Nothing
<1>8. WriteInv
  <2> SUFFICES ASSUME helper \in {"write", "shell_write"} PROVE WriteInv
    BY DEF WriteInv
  <2>0. step = 1
    <3>1. helper # "scan"
      BY Names
    <3> QED
      BY <1>2, <3>1
  <2>1. disk[vol] = Old /\ step < 3 /\ step = 1 /\ missed = {} /\ ~Returned
    BY <1>2, <2>0 DEF Old
  <2> QED
    BY <2>1 DEF WriteInv
<1>9. DirInv
  <2>1. Before(1) = {} /\ world.index \in Nat
    BY <1>1, <1>3 DEF Before, Hits, WorldForm
  <2>2. entry.at = 1 /\ entry.passed = Cardinality(Before(entry.at)) /\ entry.passed <= world.index
    BY <1>2, <2>1, FS_EmptySet
  <2> QED
    BY <1>2, <1>3, <2>2 DEF DirInv
<1> QED
  BY <1>5, <1>6, <1>7, <1>8, <1>9 DEF FilesInv

(* For all volumes, contents, data and directories and whichever calls     *)
(* fail, the one that finds the volumes and the reading of the directory   *)
(* among them: what a helper holds before each of its calls, what it has found   *)
(* on the volumes behind it, what is in the file it writes and which files *)
(* of the directory it has passed.                                         *)
THEOREM FilesInvariant == FileSpec => []FilesInv
<1>1. FileInit => FilesInv
  BY InitHolds
<1>2. FilesInv /\ [FileNext]_fileVars => FilesInv'
  BY PlaceKeeps, HeldKeeps, ScanKeeps, WriteKeeps, DirKeeps DEF FilesInv
<1> QED
  BY <1>1, <1>2, PTL DEF FileSpec

(* A file helper releases what it took whatever call fails, but for the    *)
(* array of handles of a scan, reads the one file of that name, writes     *)
(* files whole and finds the file of an index.                             *)
THEOREM FilesAreRight == FileSpec => []FilesRight
<1>1. FilesInv => FilesRight
  <2> SUFFICES ASSUME FilesInv PROVE FilesRight
    OBVIOUS
  <2>1. CASE Returned
    <3>1. HandlesClosed /\ BuffersFreed
      BY <2>1 DEF FilesInv, HeldInv
    <3>0. ArrayLeft
      BY <2>1 DEF FilesInv, PlaceInv, ArrayLeft
    <3>2. ScanRight
      BY <2>1 DEF FilesInv, ScanInv, ScanRight
    <3>3. FileReplaced
      BY <2>1 DEF FilesInv, WriteInv, FileReplaced
    <3>4. IndexedFile
      BY <2>1 DEF FilesInv, DirInv, IndexedFile
    <3> QED
      BY <3>0, <3>1, <3>2, <3>3, <3>4 DEF FilesRight
  <2>2. CASE ~Returned
    <3>1. status \notin {"success", "no_mapping"} /\ (handleBuffer => helper = "scan")
      BY <2>2 DEF Returned, FilesInv, PlaceInv
    <3> QED
      BY <2>2, <3>1 DEF FilesRight, ArrayLeft, HandlesClosed, BuffersFreed, ScanRight, FileReplaced, IndexedFile
  <2> QED
    BY <2>1, <2>2
<1> QED
  BY <1>1, FilesInvariant, PTL

-----------------------------------------------------------------------------
(* PatchMicrocode.                                                         *)
(* Sum adds the words one after the other.                                 *)
IsTotal(f, words, m) == f = [n \in 0..m |-> IF n = 0 THEN 0 ELSE f[n - 1] + words[n]]

(* The recursion of Totals has a solution, by induction on the length.     *)
LEMMA TotalsExist ==
  ASSUME NEW words \in Seq(Int), NEW m \in Nat
  PROVE  \E f : IsTotal(f, words, m)
<1> DEFINE S == {k \in Nat : \E f : IsTotal(f, words, k)}
<1>1. 0 \in S
  <2>1. IsTotal([n \in 0..0 |-> 0], words, 0)
    BY DEF IsTotal
  <2> QED
    BY <2>1
<1>2. ASSUME NEW k \in Nat, k \in S PROVE k + 1 \in S
  <2>1. PICK f : IsTotal(f, words, k)
    BY <1>2
  <2> DEFINE g == [n \in 0..k + 1 |-> IF n = k + 1 THEN f[k] + words[k + 1] ELSE f[n]]
  <2>3. f = [n \in 0..k |-> IF n = 0 THEN 0 ELSE f[n - 1] + words[n]]
    BY <2>1 DEF IsTotal
  <2>2. \A n \in 0..k + 1 : g[n] = IF n = 0 THEN 0 ELSE g[n - 1] + words[n]
    <3>1. ASSUME NEW n \in 0..k + 1 PROVE g[n] = IF n = 0 THEN 0 ELSE g[n - 1] + words[n]
      <4>1. CASE n = k + 1
        <5>1. n - 1 = k /\ k \in 0..k+1 /\ k # k+1 /\ n # 0
          BY <4>1
        <5> QED
          BY <4>1, <5>1
      <4>2. CASE n # k + 1
        <5>1. n \in 0..k /\ (n # 0 => n - 1 \in 0..k + 1 /\ n - 1 # k + 1)
          BY <4>2
        <5>2. g[n] = f[n] /\ (n # 0 => g[n - 1] = f[n - 1])
          BY <4>2, <5>1
        <5>3. f[n] = IF n = 0 THEN 0 ELSE f[n - 1] + words[n]
          BY <2>3, <5>1
        <5> QED
          BY <5>2, <5>3
      <4> QED
        BY <4>1, <4>2
    <3> QED
      BY <3>1
  <2>4. IsTotal(g, words, k + 1)
    <3>1. g = [n \in 0..k + 1 |-> g[n]]
      OBVIOUS
    <3> HIDE DEF g
    <3> QED
      BY <2>2, <3>1 DEF IsTotal
  <2> QED
    BY <2>4
<1> HIDE DEF S
<1>3. Nat \subseteq S
  BY <1>1, <1>2, Induction
<1> QED
  BY <1>3 DEF S

(* So Totals holds the sums of the words that it says.                     *)
LEMMA TotalsAre ==
  ASSUME NEW words \in Seq(Int)
  PROVE  Totals(words)[0] = 0 /\ \A n \in 1..Len(words) : Totals(words)[n] = Totals(words)[n - 1] + words[n]
<1>1. Totals(words) = CHOOSE f : f = [n \in 0..Len(words) |-> IF n = 0 THEN 0 ELSE f[n - 1] + words[n]]
  BY DEF Totals
<1>2. Len(words) \in Nat
  OBVIOUS
<1>3. IsTotal(Totals(words), words, Len(words))
  BY <1>1, <1>2, TotalsExist DEF IsTotal
<1> DEFINE t == Totals(words)
<1>4. t = [n \in 0..Len(words) |-> IF n = 0 THEN 0 ELSE t[n - 1] + words[n]]
  BY <1>3 DEF IsTotal
<1> HIDE DEF t
<1>5. t[0] = 0 /\ \A n \in 1..Len(words) : t[n] = t[n - 1] + words[n]
  BY <1>2, <1>4
<1> QED
  BY <1>5 DEF t

-----------------------------------------------------------------------------
(* Remainders that differ by a multiple of the modulus are the same.       *)
LEMMA ModUnique ==
  ASSUME NEW W \in Nat \ {0}, NEW r \in 0..W-1, NEW s \in 0..W-1, NEW q \in Int, r - s = W * q
  PROVE  r = s
<1>1. CASE q >= 1
  <2>1. W * q >= W
    BY <1>1
  <2> QED BY <2>1
<1>2. CASE q <= -1
  <2>1. W * q <= -W
    BY <1>2
  <2> QED BY <2>1
<1>3. CASE q = 0
  BY <1>3
<1> QED BY <1>1, <1>2, <1>3

(* A number is a multiple of the modulus and its remainder.                *)
LEMMA DivMod ==
  ASSUME NEW W \in Nat \ {0}, NEW a \in Int
  PROVE  a % W \in 0..W-1 /\ \E q \in Int : a = W * q + (a % W)
<1>1. a % W \in 0..W-1
  OBVIOUS
<1>2. a \div W \in Int /\ a = W * (a \div W) + (a % W)
  OBVIOUS
<1> QED BY <1>1, <1>2

(* A sum that is reduced between two additions.                            *)
LEMMA ModShift ==
  ASSUME NEW W \in Nat \ {0}, NEW a \in Int, NEW b \in Int
  PROVE  ((a % W) + b) % W = (a + b) % W
<1>1. PICK p \in Int : a = W * p + (a % W)
  BY DivMod
<1>0. (a % W) + b \in Int /\ a + b \in Int
  OBVIOUS
<1>2. PICK q \in Int : (a % W) + b = W * q + (((a % W) + b) % W)
  BY <1>0, DivMod
<1>3. PICK r \in Int : a + b = W * r + ((a + b) % W)
  BY <1>0, DivMod
<1>4. ((a % W) + b) % W \in 0..W-1 /\ (a + b) % W \in 0..W-1 /\ a % W \in Int
  BY DivMod
<1> DEFINE x == ((a % W) + b) % W  y == (a + b) % W  z == a % W
<1>5. x \in 0..W-1 /\ y \in 0..W-1 /\ z \in Int /\ a = W * p + z /\ z + b = W * q + x /\ a + b = W * r + y
  BY <1>1, <1>2, <1>3, <1>4
<1> HIDE DEF x, y, z
<1>6. x - y = W * r - W * p - W * q
  BY <1>5
<1>7. W * r - W * p - W * q = W * (r - p - q)
  OBVIOUS
<1>8. r - p - q \in Int
  OBVIOUS
<1>9. x = y
  BY <1>5, <1>6, <1>7, <1>8, ModUnique
<1> QED BY <1>9 DEF x, y

-----------------------------------------------------------------------------
(* The sums are integers.                                                  *)
LEMMA TotalsInt ==
  ASSUME NEW words \in Seq(Int)
  PROVE  \A n \in 0..Len(words) : Totals(words)[n] \in Int
<1> DEFINE S == {n \in Nat : n <= Len(words) => Totals(words)[n] \in Int}
<1>1. 0 \in S
  BY TotalsAre
<1>2. ASSUME NEW n \in Nat, n \in S PROVE n + 1 \in S
  <2>1. SUFFICES ASSUME n + 1 <= Len(words) PROVE Totals(words)[n + 1] \in Int
    OBVIOUS
  <2>2. n + 1 \in 1..Len(words) /\ n <= Len(words) /\ (n + 1) - 1 = n /\ words[n + 1] \in Int
    BY <2>1
  <2>3. Totals(words)[n + 1] = Totals(words)[n] + words[n + 1]
    BY <2>2, TotalsAre
  <2> QED
    BY <1>2, <2>2, <2>3
<1> HIDE DEF S
<1>3. Nat \subseteq S
  BY <1>1, <1>2, Induction
<1> QED
  BY <1>3 DEF S

(* A sum is an integer.                                                    *)
LEMMA SumInt == ASSUME NEW words \in Seq(Int) PROVE Sum(words) \in Int
BY TotalsInt DEF Sum

(* The sum of three words.                                                 *)
LEMMA SumOfThree ==
  ASSUME NEW a \in Int, NEW b \in Int, NEW c \in Int
  PROVE  Sum(<<a, b, c>>) = a + b + c
<1> DEFINE w == <<a, b, c>>
<1>1. w \in Seq(Int) /\ Len(w) = 3 /\ w[1] = a /\ w[2] = b /\ w[3] = c
  OBVIOUS
<1> HIDE DEF w
<1> DEFINE t == Totals(w)
<1>3. t[0] = 0 /\ \A n \in 1..3 : t[n] = t[n - 1] + w[n]
  BY <1>1, TotalsAre
<1> HIDE DEF t
<1>4. t[1] = t[0] + a /\ t[2] = t[1] + b /\ t[3] = t[2] + c
  BY <1>1, <1>3
<1>5. t[3] = a + b + c
  BY <1>3, <1>4
<1>6. Sum(w) = a + b + c
  BY <1>1, <1>5 DEF Sum, t
<1> QED
  BY <1>6 DEF w

(* Four words before others.                                               *)
LEMMA SumOfFour ==
  ASSUME NEW a \in Int, NEW b \in Int, NEW c \in Int, NEW d \in Int, NEW words \in Seq(Int)
  PROVE  Sum(<<a, b, c, d>> \o words) = a + b + c + d + Sum(words)
<1> DEFINE w == <<a, b, c, d>> \o words
<1>1. /\ w \in Seq(Int) /\ Len(w) = 4 + Len(words) /\ Len(words) \in Nat
      /\ w[1] = a /\ w[2] = b /\ w[3] = c /\ w[4] = d
      /\ \A n \in 1..Len(words) : w[4 + n] = words[n]
  OBVIOUS
<1> HIDE DEF w
<1> DEFINE t == Totals(w)  u == Totals(words)  k == Len(words)
<1>0. \A n \in 1..k : n - 1 \in 0..k
  BY <1>1
<1>2. t[0] = 0 /\ (\A n \in 1..4 + k : t[n] = t[n - 1] + w[n]) /\ u[0] = 0 /\ (\A n \in 1..k : u[n] = u[n - 1] + words[n] /\ u[n - 1] \in Int)
  <2>1. t[0] = 0 /\ \A n \in 1..4 + k : t[n] = t[n - 1] + w[n]
    BY <1>1, TotalsAre
  <2>2. u[0] = 0 /\ \A n \in 1..k : u[n] = u[n - 1] + words[n]
    BY TotalsAre
  <2>3. \A n \in 0..k : u[n] \in Int
    BY TotalsInt
  <2> HIDE DEF t, u, k
  <2> QED
    BY <1>0, <2>1, <2>2, <2>3
<1>7. k \in Nat /\ \A n \in 1..k : w[4 + n] = words[n] /\ words[n] \in Int
  BY <1>1
<1> HIDE DEF t, u, k
<1>8. t[4] = a + b + c + d
  <2>1. \A n \in 1..4 : n \in 1..4 + k /\ t[n] = t[n - 1] + w[n]
    BY <1>2, <1>7
  <2>2. t[1] = t[0] + w[1] /\ t[2] = t[1] + w[2] /\ t[3] = t[2] + w[3] /\ t[4] = t[3] + w[4]
    BY <2>1
  <2>3. w[1] = a /\ w[2] = b /\ w[3] = c /\ w[4] = d
    BY <1>1
  <2> QED
    BY <1>2, <2>2, <2>3
<1> DEFINE S == {n \in Nat : n <= k => t[4 + n] = a + b + c + d + u[n]}
<1>3. 0 \in S
  BY <1>2, <1>8
<1>4. ASSUME NEW n \in Nat, n \in S PROVE n + 1 \in S
  <2>1. SUFFICES ASSUME n + 1 <= k PROVE t[4 + (n + 1)] = a + b + c + d + u[n + 1]
    OBVIOUS
  <2>2. n + 1 \in 1..k /\ (n + 1) - 1 = n /\ 4 + (n + 1) \in 1..4 + k /\ (4 + (n + 1)) - 1 = 4 + n /\ n <= k
    BY <1>7, <2>1
  <2>3. u[n + 1] = u[n] + words[n + 1] /\ u[n] \in Int
    BY <1>2, <2>2
  <2>4. t[4 + (n + 1)] = t[4 + n] + w[4 + (n + 1)]
    BY <1>2, <2>2
  <2>5. w[4 + (n + 1)] = words[n + 1] /\ words[n + 1] \in Int
    BY <1>7, <2>2
  <2>6. t[4 + n] = a + b + c + d + u[n]
    BY <1>4, <2>2
  <2> QED
    BY <2>3, <2>4, <2>5, <2>6
<1> HIDE DEF S
<1>5. Nat \subseteq S
  BY <1>3, <1>4, Induction
<1>6. Sum(w) = a + b + c + d + Sum(words)
  <2>1. t[4 + k] = a + b + c + d + u[k]
    BY <1>5, <1>7 DEF S
  <2> QED
    BY <1>1, <2>1 DEF Sum, t, u, k
<1> QED
  BY <1>6 DEF w

-----------------------------------------------------------------------------
McuTypeOK ==
  /\ machine \in Machines /\ update \in Updates /\ request \in Requests
  /\ cpc \in {"start", "locate", "cpus", "header", "table", "done", "asserted", "undefined"}
  /\ numberOfCpus \in Nat /\ cpuIndex \in Nat
  /\ shownInfo \in Seq(Int) /\ patched \in Seq(Nat) /\ checkSums = [k \in 1..Len(checkSums) |-> checkSums[k]] /\ Len(checkSums) \in Nat
  /\ told \in BOOLEAN /\ startFailed \in BOOLEAN

(* The processors up to cpuIndex have been asked, or patched in order.     *)
CpusInv ==
  /\ cpc \in {"start", "locate"} => ~told /\ cpuIndex = 0 /\ shownInfo = <<>> /\ patched = <<>>
  /\ cpc \in {"header", "table"} => request = "-D file"
  /\ cpc \in {"locate", "cpus"} \/ told => request \in {"-D", "-P file"}
  /\ shownInfo # <<>> => request = "-D" /\ Len(shownInfo) = cpuIndex
  /\ request = "-D" => Len(shownInfo) = cpuIndex
  /\ request # "-P file" => patched = <<>>
  /\ told => numberOfCpus = Len(machine.enabled) /\ bspIndex = machine.bsp
  /\ told /\ cpc = "done" => cpuIndex >= numberOfCpus
  /\ told => /\ \A k \in 1..Len(patched) : patched[k] < cpuIndex /\ patched[k] \in Cpus /\ Enabled(patched[k])
             /\ request = "-P file" /\ ~startFailed =>
                  \A c \in Cpus : c < cpuIndex /\ Enabled(c) => \E k \in 1..Len(patched) : patched[k] = c

(* The checksums that have been printed belong to the update.              *)
SumsInv ==
  /\ cpc \notin {"table", "done"} => checkSums = <<>>
  /\ cpc = "table" => Len(checkSums) >= 2 /\ incomplete = InCompleteCheckSum32
  /\ Len(checkSums) - 2 <= Len(update.extended)

McuInv == McuTypeOK /\ CpusInv /\ SumsInv /\ ProcessorsRight

(* What is assumed of a machine and of an update.                          *)
LEMMA MachineIs ==
  ASSUME machine \in Machines
  PROVE  /\ machine.enabled \in Seq(BOOLEAN) /\ Len(machine.enabled) \in Nat /\ machine.bsp \in Cpus /\ Enabled(machine.bsp)
         /\ \A c \in Cpus : c \in Nat /\ Enabled(c) \in BOOLEAN
BY McuAssumption DEF Cpus, Enabled

(* What is assumed of an update: its words are integers.                   *)
LEMMA UpdateIs ==
  ASSUME update \in Updates
  PROVE  /\ update.signature \in Int /\ update.flags \in Int /\ update.checksum \in Int /\ update.rest \in Int
         /\ update.data \in Seq(Int) /\ Len(update.extended) \in Nat
         /\ \A k \in 1..Len(update.extended) :
              \E a, b, c \in Int : update.extended[k] = <<a, b, c>> /\ update.extended[k] \in Seq(Int)
<1>1. update \in UpdateForm /\ Dwords \subseteq Int
  BY McuAssumption DEF Dwords
<1>2. /\ update.signature \in Dwords /\ update.flags \in Dwords /\ update.checksum \in Dwords /\ update.rest \in Dwords
      /\ update.data \in Seq(Dwords) /\ update.extended \in Seq(Dwords \X Dwords \X Dwords)
  BY <1>1 DEF UpdateForm
<1>3. update.data \in Seq(Int)
  <2>1. Len(update.data) \in Nat /\ update.data \in [1..Len(update.data) -> Dwords]
    BY <1>2
  <2>2. update.data \in [1..Len(update.data) -> Int]
    BY <1>1, <2>1
  <2> QED
    BY <2>1, <2>2
<1>4. ASSUME NEW k \in 1..Len(update.extended)
      PROVE  \E a, b, c \in Int : update.extended[k] = <<a, b, c>> /\ update.extended[k] \in Seq(Int)
  <2>1. update.extended[k] \in Dwords \X Dwords \X Dwords
    BY <1>2
  <2>2. PICK a, b, c \in Dwords : update.extended[k] = <<a, b, c>>
    BY <2>1
  <2>3. a \in Int /\ b \in Int /\ c \in Int
    BY <1>1
  <2> QED
    BY <2>2, <2>3
<1>5. update.signature \in Int /\ update.flags \in Int /\ update.checksum \in Int /\ update.rest \in Int
  BY <1>1, <1>2
<1>6. Len(update.extended) \in Nat
  BY <1>2
<1> QED
  BY <1>3, <1>4, <1>5, <1>6

-----------------------------------------------------------------------------
(* InCompleteCheckSum32 is the sum of the words that no entry replaces.    *)
LEMMA IncompleteIs ==
  ASSUME update \in Updates
  PROVE  /\ update.rest + Sum(update.data) \in Int
         /\ InCompleteCheckSum32 = (update.rest + Sum(update.data)) % Word
<1> DEFINE g == update.signature  f == update.flags  c == update.checksum  r == update.rest  d == Sum(update.data)
           h == g + f + c + r + d
<1>1. g \in Int /\ f \in Int /\ c \in Int /\ r \in Int /\ d \in Int /\ Word \in Nat \ {0}
  BY UpdateIs, SumInt, McuAssumption
<1>2. Sum(HeaderWords \o update.data) = h
  <2>1. update.data \in Seq(Int)
    BY UpdateIs
  <2>2. HeaderWords \o update.data = <<g, f, c, r>> \o update.data
    BY DEF HeaderWords
  <2> HIDE DEF g, f, c, r
  <2>3. Sum(<<g, f, c, r>> \o update.data) = g + f + c + r + d
    BY <1>1, <2>1, SumOfFour
  <2>4. g + f + c + r + d = h
    OBVIOUS
  <2> QED
    BY <2>2, <2>3, <2>4
<1>3. InCompleteCheckSum32 = ((h % Word) - g - f - c) % Word
  BY <1>2 DEF InCompleteCheckSum32, CalculateSum32
<1> DEFINE b == 0 - g - f - c
<1> HIDE DEF g, f, c, r, d
<1>4. h \in Int /\ b \in Int /\ h % Word \in Int
  BY <1>1
<1>5. ((h % Word) + b) % Word = (h + b) % Word
  <2> HIDE DEF h, b
  <2> QED
    BY <1>1, <1>4, ModShift
<1>6. (h % Word) - g - f - c = (h % Word) + b
  <2> HIDE DEF h
  <2> QED
    BY <1>1, <1>4
<1>7. h + b = r + d
  BY <1>1
<1>8. InCompleteCheckSum32 = (r + d) % Word /\ r + d \in Int
  BY <1>1, <1>3, <1>5, <1>6, <1>7
<1> QED
  BY <1>8 DEF r, d

(* The checksum with three words of an entry, or of the header.            *)
LEMMA CompletedSum ==
  ASSUME update \in Updates, NEW three \in Seq(Int)
  PROVE  (InCompleteCheckSum32 + Sum(three)) % Word = SumWith(three)
<1> DEFINE s == update.rest + Sum(update.data)  t == Sum(three)
<1>1. s \in Int /\ t \in Int /\ Word \in Nat \ {0} /\ InCompleteCheckSum32 = s % Word
  BY IncompleteIs, SumInt, McuAssumption
<1>2. update.rest \in Int /\ Sum(update.data) \in Int
  BY UpdateIs, SumInt
<1>3. SumWith(three) = (s + t) % Word
  <2>1. t + update.rest + Sum(update.data) = s + t
    BY <1>1, <1>2
  <2> QED
    BY <2>1 DEF SumWith
<1> HIDE DEF s, t
<1>4. ((s % Word) + t) % Word = (s + t) % Word
  BY <1>1, ModShift
<1> QED
  BY <1>1, <1>3, <1>4 DEF t

-----------------------------------------------------------------------------
(* The initial states satisfy McuInv.                                         *)
LEMMA McuInitInv == McuInit => McuInv
<1> SUFFICES ASSUME McuInit PROVE McuInv
  OBVIOUS
<1>1. Len(update.extended) \in Nat
  BY UpdateIs DEF McuInit
<1>2. /\ machine \in Machines /\ update \in Updates /\ request \in Requests /\ cpc = "start" /\ numberOfCpus = 1 /\ cpuIndex = 0
      /\ shownInfo = <<>> /\ patched = <<>> /\ checkSums = <<>> /\ told = FALSE /\ startFailed = FALSE
  BY DEF McuInit
<1>3. McuTypeOK
  <2>1. checkSums = [k \in 1..Len(checkSums) |-> checkSums[k]] /\ Len(checkSums) \in Nat /\ shownInfo \in Seq(Int) /\ patched \in Seq(Nat)
    BY <1>2
  <2> QED
    BY <1>2, <2>1 DEF McuTypeOK
<1>4. CpusInv
  BY <1>2 DEF CpusInv
<1>5. SumsInv
  BY <1>1, <1>2 DEF SumsInv
<1>6. ProcessorsRight
  BY <1>2 DEF ProcessorsRight, OwnInfo, PatchedOnce, ChecksumsRight
<1> QED
  BY <1>3, <1>4, <1>5, <1>6 DEF McuInv

(* Nothing has been asked, patched or printed: nothing can be wrong.       *)
LEMMA NothingDone ==
  ASSUME shownInfo' = <<>>, patched' = <<>>, checkSums' = <<>>, ~told' \/ cpc' # "done"
  PROVE  OwnInfo' /\ PatchedOnce' /\ ChecksumsRight'
<1>1. 1..Len(shownInfo') = {} /\ 1..Len(patched') = {} /\ 1..Len(checkSums') = {}
  OBVIOUS
<1>2. OwnInfo'
  BY <1>1 DEF OwnInfo
<1>3. PatchedOnce'
  BY <1>1 DEF PatchedOnce
<1>4. ChecksumsRight'
  BY <1>1 DEF ChecksumsRight
<1> QED
  BY <1>2, <1>3, <1>4

(* PatchMicrocodeEntrypoint keeps McuInv.                                     *)
LEMMA PatchMicrocodeEntrypointKeeps == ASSUME McuInv, PatchMicrocodeEntrypoint PROVE McuInv'
<1>1. /\ cpc = "start" /\ cpc' \in {"locate", "undefined", "header", "done"} /\ (cpc' = "header" => request = "-D file") /\ ~told
      /\ cpc' = "locate" => request \in {"-D", "-P file"}
      /\ UNCHANGED <<machine, update, request, mpServices, numberOfCpus, bspIndex, cpuIndex, shownInfo, patched, checkSums, incomplete, told, startFailed>>
  BY DEF PatchMicrocodeEntrypoint, McuInv, CpusInv
<1>2. McuTypeOK' /\ CpusInv' /\ SumsInv'
  BY <1>1 DEF McuInv, McuTypeOK, CpusInv, SumsInv, Cpus, Enabled
<1>3. checkSums = <<>>
  BY <1>1 DEF McuInv, SumsInv
<1>4. OwnInfo' /\ PatchedOnce' /\ ChecksumsRight'
  BY <1>1, <1>3, NothingDone DEF McuInv, CpusInv
<1> QED
  BY <1>2, <1>4 DEF McuInv, ProcessorsRight

(* LocateMpServices keeps McuInv.                                             *)
LEMMA LocateMpServicesKeeps == ASSUME McuInv, LocateMpServices PROVE McuInv'
<1>1. /\ cpc = "locate" /\ cpc' \in {"cpus", "asserted"} /\ told' \in BOOLEAN
      /\ told' => numberOfCpus' = Len(machine.enabled) /\ bspIndex' = machine.bsp
      /\ UNCHANGED <<machine, update, request, cpuIndex, shownInfo, patched, checkSums, incomplete, startFailed>>
  BY DEF LocateMpServices
<1>2. numberOfCpus' \in Nat
  BY MachineIs DEF LocateMpServices, McuInv, McuTypeOK
<1>3. cpuIndex = 0 /\ shownInfo = <<>> /\ patched = <<>> /\ checkSums = <<>>
  BY <1>1 DEF McuInv, CpusInv, SumsInv
<1>4. \A c \in Cpus : ~(c < 0)
  BY MachineIs DEF McuInv, McuTypeOK
<1>5. McuTypeOK'
  BY <1>1, <1>2 DEF McuInv, McuTypeOK
<1>6. CpusInv'
  <2>1. 1..Len(patched') = {} /\ Len(shownInfo') = 0
    BY <1>1, <1>3
  <2>2. \A c \in Cpus' : ~(c < cpuIndex')
    BY <1>1, <1>3, <1>4 DEF Cpus
  <2> QED
    BY <1>1, <1>3, <2>1, <2>2 DEF McuInv, CpusInv
<1>7. SumsInv'
  BY <1>1, <1>3 DEF McuInv, SumsInv
<1>8. OwnInfo' /\ PatchedOnce' /\ ChecksumsRight'
  BY <1>1, <1>3, NothingDone
<1> QED
  BY <1>5, <1>6, <1>7, <1>8 DEF McuInv, ProcessorsRight

-----------------------------------------------------------------------------
(* StartupThisAP, or the processor itself, for an index.                   *)
LEMMA RunsOnIs ==
  ASSUME McuTypeOK, CpusInv, NEW i \in Nat, i < numberOfCpus, NEW on \in RunsOn(i, i = bspIndex)
  PROVE  /\ on \in Nat \cup {NoInfo}
         /\ told => i \in Cpus /\ on \in {i, NoInfo} /\ (on = i => Enabled(i)) /\ (i = machine.bsp => on = i)
<1>1. machine.bsp \in Cpus /\ machine.bsp \in Nat /\ Enabled(machine.bsp) /\ Len(machine.enabled) \in Nat
  BY MachineIs DEF McuTypeOK
<1>2. on \in {machine.bsp, i, NoInfo}
  BY DEF RunsOn
<1>3. ASSUME told PROVE i \in Cpus /\ on \in {i, NoInfo} /\ (on = i => Enabled(i)) /\ (i = machine.bsp => on = i)
  <2>1. numberOfCpus = Len(machine.enabled) /\ bspIndex = machine.bsp
    BY <1>3 DEF CpusInv
  <2>2. i \in Cpus /\ i # NoInfo
    BY <1>1, <2>1 DEF Cpus, NoInfo
  <2>3. CASE i = machine.bsp
    BY <1>1, <2>1, <2>2, <2>3 DEF RunsOn
  <2>4. CASE i # machine.bsp
    BY <1>1, <2>1, <2>2, <2>4 DEF RunsOn
  <2> QED
    BY <2>3, <2>4
<1> QED
  BY <1>1, <1>2, <1>3

(* DumpCpuInfo keeps McuInv.                                                  *)
LEMMA DumpCpuInfoKeeps == ASSUME McuInv, DumpCpuInfo PROVE McuInv'
<1>1. /\ cpc = "cpus" /\ request = "-D" /\ cpuIndex < numberOfCpus /\ cpuIndex' = cpuIndex + 1 /\ cpuIndex \in Nat
      /\ UNCHANGED <<machine, update, request, cpc, numberOfCpus, bspIndex, patched, checkSums, incomplete, told>>
  BY DEF DumpCpuInfo, McuInv, McuTypeOK
<1>2. PICK on \in RunsOn(cpuIndex, cpuIndex = bspIndex) :
        /\ shownInfo' = Append(shownInfo, on)
        /\ startFailed' = (startFailed \/ (on = NoInfo /\ Enabled(cpuIndex) /\ cpuIndex # machine.bsp))
  BY DEF DumpCpuInfo, IsBsp, GetCpuInfoForThis, ClearedCpuInfo
<1>3. /\ on \in Nat \cup {NoInfo} /\ on \in Int
      /\ told => cpuIndex \in Cpus /\ on \in {cpuIndex, NoInfo} /\ (cpuIndex = machine.bsp => on = cpuIndex)
  BY <1>1, RunsOnIs DEF McuInv, NoInfo
<1>4. shownInfo \in Seq(Int) /\ Len(shownInfo) = cpuIndex
  BY <1>1 DEF McuInv, McuTypeOK, CpusInv
<1>5. /\ shownInfo' \in Seq(Int) /\ Len(shownInfo') = cpuIndex + 1 /\ shownInfo'[cpuIndex + 1] = on
      /\ \A k \in 1..cpuIndex : shownInfo'[k] = shownInfo[k]
  BY <1>2, <1>3, <1>4
<1>6. patched = <<>>
  BY <1>1 DEF McuInv, CpusInv
<1>7. McuTypeOK'
  BY <1>1, <1>2, <1>5 DEF McuInv, McuTypeOK
<1>8. CpusInv'
  BY <1>1, <1>5, <1>6 DEF McuInv, CpusInv, Cpus, Enabled
<1>9. SumsInv'
  BY <1>1 DEF McuInv, SumsInv
<1>10. OwnInfo'
  <2>1. ASSUME told, NEW k \in 1..cpuIndex + 1
        PROVE  shownInfo'[k] \in {NoInfo, k - 1} /\ (shownInfo'[k] = NoInfo => ~Enabled(k - 1) \/ startFailed')
    <3>1. CASE k = cpuIndex + 1
      <4>1. k - 1 = cpuIndex /\ shownInfo'[k] = on /\ on \in {cpuIndex, NoInfo}
        BY <1>1, <1>3, <1>5, <2>1, <3>1
      <4>2. on = NoInfo => cpuIndex # machine.bsp
        BY <1>1, <1>3, <2>1 DEF NoInfo
      <4> QED
        BY <1>2, <4>1, <4>2
    <3>2. CASE k # cpuIndex + 1
      <4>1. k \in 1..Len(shownInfo) /\ shownInfo'[k] = shownInfo[k]
        BY <1>1, <1>4, <1>5, <3>2
      <4> QED
        BY <1>2, <2>1, <4>1 DEF McuInv, ProcessorsRight, OwnInfo
    <3> QED
      BY <3>1, <3>2
  <2> QED
    BY <1>1, <1>5, <2>1 DEF OwnInfo, Enabled
<1>11. PatchedOnce'
  BY <1>1, <1>6 DEF PatchedOnce
<1>12. ChecksumsRight'
  BY <1>1 DEF McuInv, ProcessorsRight, ChecksumsRight, SumWith
<1> QED
  BY <1>7, <1>8, <1>9, <1>10, <1>11, <1>12 DEF McuInv, ProcessorsRight

(* TriggerMicrocodeUpdate keeps McuInv.                                       *)
LEMMA TriggerMicrocodeUpdateKeeps == ASSUME McuInv, TriggerMicrocodeUpdate PROVE McuInv'
<1>1. /\ cpc = "cpus" /\ request = "-P file" /\ cpuIndex < numberOfCpus /\ cpuIndex' = cpuIndex + 1 /\ cpuIndex \in Nat
      /\ UNCHANGED <<machine, update, request, cpc, numberOfCpus, bspIndex, shownInfo, checkSums, incomplete, told>>
  BY DEF TriggerMicrocodeUpdate, McuInv, McuTypeOK
<1>0. cpuIndex \in Nat /\ cpuIndex' = cpuIndex + 1 /\ cpuIndex' \in Nat /\ \A c \in Nat : c < cpuIndex' => c = cpuIndex \/ c < cpuIndex
  <2>1. cpuIndex \in Nat /\ cpuIndex' = cpuIndex + 1
    BY <1>1
  <2> QED
    BY <2>1
<1>2. PICK on \in RunsOn(cpuIndex, cpuIndex = bspIndex) :
        /\ patched' = IF on = NoInfo THEN patched ELSE Append(patched, on)
        /\ startFailed' = (startFailed \/ (on = NoInfo /\ Enabled(cpuIndex) /\ cpuIndex # machine.bsp))
  BY DEF TriggerMicrocodeUpdate, IsBspToPatch
<1>3. /\ on \in Nat \cup {NoInfo}
      /\ told => cpuIndex \in Cpus /\ on \in {cpuIndex, NoInfo} /\ (on = cpuIndex => Enabled(cpuIndex)) /\ (cpuIndex = machine.bsp => on = cpuIndex)
  BY <1>1, RunsOnIs DEF McuInv
<1>4. patched \in Seq(Nat) /\ Len(patched) \in Nat /\ NoInfo \notin Nat
  BY DEF McuInv, McuTypeOK, NoInfo
<1>7. startFailed' \in BOOLEAN /\ (~startFailed' => ~startFailed /\ ~(on = NoInfo /\ Enabled(cpuIndex) /\ cpuIndex # machine.bsp))
  <2> QED BY <1>2, Zenon
<1>8. shownInfo = <<>> /\ 1..Len(shownInfo') = {}
  <2>1. shownInfo = <<>> /\ shownInfo' = <<>>
    BY <1>1 DEF McuInv, CpusInv
  <2> QED
    BY <2>1
<1>9. OwnInfo'
  BY <1>8 DEF OwnInfo
<1>10. told => \A k \in 1..Len(patched) : patched[k] < cpuIndex /\ patched[k] \in Cpus /\ Enabled(patched[k])
  BY DEF McuInv, CpusInv
<1>11. ASSUME told, ~startFailed, NEW c \in Cpus, c < cpuIndex, Enabled(c) PROVE \E k \in 1..Len(patched) : patched[k] = c
  BY <1>1, <1>11 DEF McuInv, CpusInv
<1>12. \A c \in Cpus : c \in Nat
  BY MachineIs DEF McuInv, McuTypeOK
<1> DEFINE n == Len(patched)
<1>5. CASE on = NoInfo
  <2>1. patched' = patched
    BY <1>2, <1>5
  <2>2. McuTypeOK'
    BY <1>0, <1>1, <1>4, <1>7, <2>1 DEF McuInv, McuTypeOK
  <2>3. told => \A k \in 1..Len(patched) : patched[k] < cpuIndex' /\ patched[k] \in Cpus /\ Enabled(patched[k])
    <3>1. \A k \in 1..Len(patched) : patched[k] \in Nat
      BY <1>4
    <3> QED
      BY <1>0, <1>10, <3>1
  <2>4. ASSUME told, ~startFailed', NEW c \in Cpus, c < cpuIndex', Enabled(c)
        PROVE  \E k \in 1..Len(patched) : patched[k] = c
    <3>1. c \in Nat
      BY <1>12
    <3>2. c # cpuIndex
      BY <1>1, <1>3, <1>4, <1>5, <1>7, <2>4
    <3>3. ~startFailed
      BY <1>7, <2>4
    <3>4. c < cpuIndex
      BY <1>0, <2>4, <3>1, <3>2
    <3> QED
      BY <1>11, <2>4, <3>3, <3>4
  <2>5. CpusInv'
    BY <1>1, <2>1, <2>3, <2>4 DEF McuInv, CpusInv, Cpus, Enabled
  <2>6. SumsInv'
    BY <1>1 DEF McuInv, SumsInv
  <2>7. OwnInfo' /\ PatchedOnce' /\ ChecksumsRight'
    <3>3. PatchedOnce'
      BY <1>1, <2>1 DEF McuInv, ProcessorsRight, PatchedOnce
    <3>4. ChecksumsRight'
      BY <1>1 DEF McuInv, ProcessorsRight, ChecksumsRight, SumWith
    <3> QED
      BY <1>9, <3>3, <3>4
  <2> QED
    BY <2>2, <2>5, <2>6, <2>7 DEF McuInv, ProcessorsRight
<1>6. CASE on # NoInfo
  <2>1. patched' = Append(patched, on) /\ on \in Nat
    BY <1>2, <1>3, <1>6
  <2>2. patched' \in Seq(Nat) /\ Len(patched') = n + 1 /\ patched'[n + 1] = on /\ \A k \in 1..n : patched'[k] = patched[k]
    BY <1>4, <2>1
  <2>3. startFailed' = startFailed
    BY <1>2, <1>6 DEF McuInv, McuTypeOK
  <2> HIDE DEF n
  <2>4. n \in Nat /\ Len(patched) = n
    BY <1>4 DEF n
  <2>5. told => on = cpuIndex /\ cpuIndex \in Cpus /\ Enabled(cpuIndex)
    BY <1>3, <1>6
  <2>6. McuTypeOK'
    BY <1>0, <1>1, <1>4, <1>7, <2>2 DEF McuInv, McuTypeOK
  <2>7. ASSUME told, NEW k \in 1..n + 1
        PROVE  patched'[k] < cpuIndex' /\ patched'[k] \in Cpus /\ Enabled(patched'[k])
    <3>1. CASE k = n + 1
      BY <1>0, <2>2, <2>5, <2>7, <3>1
    <3>2. CASE k # n + 1
      <4>1. k \in 1..n
        BY <2>4, <3>2
      <4>2. patched[k] \in Nat /\ patched[k] < cpuIndex /\ patched[k] \in Cpus /\ Enabled(patched[k])
        BY <1>4, <1>10, <2>4, <2>7, <4>1
      <4>3. patched'[k] = patched[k]
        BY <2>2, <4>1
      <4> QED
        BY <1>0, <4>2, <4>3
    <3> QED
      BY <3>1, <3>2
  <2>8. ASSUME told, ~startFailed, NEW c \in Cpus, c < cpuIndex', Enabled(c)
        PROVE  \E k \in 1..n + 1 : patched'[k] = c
    <3>1. c \in Nat
      BY <1>12
    <3>2. CASE c = cpuIndex
      BY <2>2, <2>4, <2>5, <2>8, <3>2
    <3>3. CASE c # cpuIndex
      <4>1. c < cpuIndex
        BY <1>0, <2>8, <3>1, <3>3
      <4>2. PICK k \in 1..n : patched[k] = c
        BY <1>11, <2>4, <2>8, <4>1
      <4> QED
        BY <2>2, <2>4, <4>2
    <3> QED
      BY <3>2, <3>3
  <2>9. CpusInv'
    BY <1>1, <2>2, <2>3, <2>7, <2>8 DEF McuInv, CpusInv, Cpus, Enabled
  <2>10. SumsInv'
    BY <1>1 DEF McuInv, SumsInv
  <2>11. OwnInfo'
    BY <1>9
  <2>12. PatchedOnce'
    <3>1. ASSUME told, NEW i \in 1..n + 1, NEW j \in 1..n + 1, i < j PROVE patched'[i] < patched'[j]
      <4>1. i \in 1..n /\ patched'[i] = patched[i]
        BY <2>2, <2>4, <3>1
      <4>2. CASE j = n + 1
        BY <2>2, <2>4, <2>5, <3>1, <4>1, <4>2 DEF McuInv, CpusInv
      <4>3. CASE j # n + 1
        <5>1. j \in 1..n
          BY <2>4, <4>3
        <5> QED
          BY <2>2, <2>4, <3>1, <4>1, <5>1 DEF McuInv, ProcessorsRight, PatchedOnce
      <4> QED
        BY <4>2, <4>3
    <3> QED
      BY <1>1, <2>2, <3>1 DEF PatchedOnce
  <2>13. ChecksumsRight'
    BY <1>1 DEF McuInv, ProcessorsRight, ChecksumsRight, SumWith
  <2> QED
    BY <2>6, <2>9, <2>10, <2>11, <2>12, <2>13 DEF McuInv, ProcessorsRight
<1> QED
  BY <1>5, <1>6

(* CpusEnd keeps McuInv.                                                      *)
LEMMA CpusEndKeeps == ASSUME McuInv, CpusEnd PROVE McuInv'
<1>1. /\ cpc = "cpus" /\ cpuIndex >= numberOfCpus /\ cpc' = "done"
      /\ UNCHANGED <<machine, update, request, numberOfCpus, bspIndex, cpuIndex, shownInfo, patched, checkSums, incomplete, told, startFailed>>
  BY DEF CpusEnd
<1>2. McuTypeOK' /\ SumsInv'
  BY <1>1 DEF McuInv, McuTypeOK, SumsInv
<1>3. CpusInv'
  BY <1>1 DEF McuInv, CpusInv, Cpus, Enabled
<1>4. OwnInfo' /\ ChecksumsRight'
  BY <1>1 DEF McuInv, ProcessorsRight, OwnInfo, ChecksumsRight, Enabled, SumWith
<1>5. ASSUME request = "-P file", told, ~startFailed
      PROVE  {patched[i] : i \in 1..Len(patched)} = {c \in Cpus : Enabled(c)}
  <2>0. numberOfCpus = Len(machine.enabled) /\ Len(machine.enabled) \in Nat /\ cpuIndex \in Nat /\ numberOfCpus \in Nat
    BY <1>5, MachineIs DEF McuInv, McuTypeOK, CpusInv
  <2>1. \A c \in Cpus : c < cpuIndex
    BY <1>1, <2>0 DEF Cpus
  <2> QED
    BY <1>1, <1>5, <2>1 DEF McuInv, CpusInv
<1>6. PatchedOnce'
  BY <1>1, <1>5 DEF McuInv, ProcessorsRight, PatchedOnce, Cpus, Enabled
<1> QED
  BY <1>2, <1>3, <1>4, <1>6 DEF McuInv, ProcessorsRight

-----------------------------------------------------------------------------
(* Steps of the dump of an update ask and patch no processor.              *)
LEMMA DumpKeeps ==
  ASSUME McuInv, cpc \in {"header", "table"}, cpc' \in {"table", "done"},
         UNCHANGED <<machine, update, request, numberOfCpus, bspIndex, cpuIndex, shownInfo, patched, told, startFailed>>,
         checkSums' = [k \in 1..Len(checkSums') |-> checkSums'[k]], Len(checkSums') \in Nat, SumsInv', ChecksumsRight'
  PROVE  McuInv'
<1>1. request = "-D file" /\ request' = "-D file" /\ ~told /\ ~told'
  BY DEF McuInv, CpusInv
<1>2. shownInfo = <<>> /\ patched = <<>>
  BY <1>1 DEF McuInv, CpusInv
<1>6. 1..Len(patched') = {}
  BY <1>2
<1>3. McuTypeOK'
  BY DEF McuInv, McuTypeOK
<1>4. CpusInv'
  BY <1>1, <1>2 DEF McuInv, CpusInv, Cpus, Enabled
<1>5. OwnInfo' /\ PatchedOnce'
  BY <1>1, <1>6 DEF OwnInfo, PatchedOnce
<1> QED
  BY <1>3, <1>4, <1>5 DEF McuInv, ProcessorsRight

(* DumpMicrocodeHeader keeps McuInv.                                          *)
LEMMA DumpMicrocodeHeaderKeeps == ASSUME McuInv, DumpMicrocodeHeader PROVE McuInv'
<1> DEFINE three == <<update.signature, update.flags, update.checksum>>
           own == (InCompleteCheckSum32 + update.signature + update.flags + update.checksum) % Word
<1>1. /\ cpc = "header" /\ cpc' \in {"table", "done"} /\ incomplete' = InCompleteCheckSum32
      /\ UNCHANGED <<machine, update, request, numberOfCpus, bspIndex, cpuIndex, shownInfo, patched, told, startFailed>>
  BY DEF DumpMicrocodeHeader
<1>2. \/ checkSums' = <<own>> /\ cpc' = "done"
      \/ (\E x : checkSums' = <<own, x>>) /\ cpc' = "table" /\ update.extended # <<>>
  BY DEF DumpMicrocodeHeader
<1>3. update \in Updates
  BY DEF McuInv, McuTypeOK
<1>4. update.signature \in Int /\ update.flags \in Int /\ update.checksum \in Int /\ Len(update.extended) \in Nat
  BY <1>3, UpdateIs
<1>5. own = SumWith(three)
  <2>1. InCompleteCheckSum32 \in Int
    BY <1>3, UpdateIs, IncompleteIs, SumInt, McuAssumption
  <2>2. three \in Seq(Int) /\ Sum(three) = update.signature + update.flags + update.checksum
    BY <1>4, SumOfThree
  <2>3. InCompleteCheckSum32 + update.signature + update.flags + update.checksum = InCompleteCheckSum32 + Sum(three)
    BY <1>4, <2>1, <2>2
  <2> QED
    BY <1>3, <2>2, <2>3, CompletedSum
<1> HIDE DEF own
<1>6. /\ checkSums' = [k \in 1..Len(checkSums') |-> checkSums'[k]] /\ Len(checkSums') \in {1, 2} /\ checkSums'[1] = own
      /\ (cpc' = "table" => Len(checkSums') = 2)
  BY <1>2
<1>7. SumsInv'
  <2>1. cpc' = "table" => Len(checkSums') >= 2 /\ incomplete' = InCompleteCheckSum32'
    BY <1>1, <1>6 DEF InCompleteCheckSum32, HeaderWords
  <2>2. Len(checkSums') - 2 <= Len(update'.extended)
    BY <1>1, <1>4, <1>6
  <2> QED
    BY <1>1, <2>1, <2>2 DEF SumsInv
<1>8. ChecksumsRight'
  <2>1. \A k \in 1..Len(checkSums') : k # 2 => k = 1
    BY <1>6
  <2>2. checkSums'[1] = SumWith(three)'
    BY <1>1, <1>5, <1>6 DEF SumWith
  <2> QED
    BY <2>1, <2>2 DEF ChecksumsRight
<1> QED
  BY <1>1, <1>6, <1>7, <1>8, DumpKeeps

(* DumpMicrocodeEntry keeps McuInv.                                           *)
LEMMA DumpMicrocodeEntryKeeps == ASSUME McuInv, DumpMicrocodeEntry PROVE McuInv'
<1> DEFINE n == Len(checkSums)  words == update.extended[n - 1]
           s == (incomplete + Sum(words)) % Word
<1>1. /\ cpc = "table" /\ cpc' = "table" /\ n - 2 < Len(update.extended) /\ checkSums' = Append(checkSums, s) /\ incomplete' = incomplete
      /\ UNCHANGED <<machine, update, request, numberOfCpus, bspIndex, cpuIndex, shownInfo, patched, told, startFailed>>
  BY DEF DumpMicrocodeEntry
<1>2. /\ update \in Updates /\ n \in Nat /\ n >= 2 /\ checkSums = [k \in 1..n |-> checkSums[k]] /\ incomplete = InCompleteCheckSum32
  BY <1>1 DEF McuInv, McuTypeOK, SumsInv
<1>3. Len(update.extended) \in Nat
  BY <1>2, UpdateIs
<1>4. s = SumWith(words)
  <2>1. n - 1 \in 1..Len(update.extended)
    BY <1>1, <1>2, <1>3
  <2>2. words \in Seq(Int)
    BY <1>2, <2>1, UpdateIs
  <2> QED
    BY <1>2, <2>2, CompletedSum
<1> HIDE DEF s
<1>5. /\ checkSums' = [k \in 1..Len(checkSums') |-> checkSums'[k]] /\ Len(checkSums') = n + 1 /\ checkSums'[n + 1] = s
      /\ \A k \in 1..n : checkSums'[k] = checkSums[k]
  <2> HIDE DEF n
  <2>1. n \in Nat /\ checkSums = [k \in 1..n |-> checkSums[k]] /\ Len(checkSums) = n
    BY <1>2 DEF n
  <2>2. checkSums \in Seq({checkSums[k] : k \in 1..n} \cup {s})
    BY <2>1
  <2> QED
    BY <1>1, <2>1, <2>2
<1> HIDE DEF n, words
<1>6. SumsInv'
  <2>1. Len(checkSums') >= 2 /\ incomplete' = InCompleteCheckSum32'
    BY <1>1, <1>2, <1>5 DEF InCompleteCheckSum32, HeaderWords
  <2>2. Len(checkSums') - 2 <= Len(update'.extended)
    BY <1>1, <1>2, <1>3, <1>5
  <2> QED
    BY <1>1, <2>1, <2>2 DEF SumsInv
<1>7. ChecksumsRight'
  <2>1. ASSUME NEW k \in 1..n + 1, k # 2
        PROVE  checkSums'[k] = SumWith(IF k = 1 THEN <<update.signature, update.flags, update.checksum>> ELSE update.extended[k - 2])
    <3>1. CASE k = n + 1
      <4>1. k # 1 /\ k - 2 = n - 1
        BY <1>2, <3>1
      <4> QED
        BY <1>4, <1>5, <3>1, <4>1 DEF words
    <3>2. CASE k # n + 1
      <4>1. k \in 1..n
        BY <1>2, <3>2
      <4> QED
        BY <1>5, <2>1, <4>1 DEF McuInv, ProcessorsRight, ChecksumsRight, n
    <3> QED
      BY <3>1, <3>2
  <2>2. \A x : SumWith(x)' = SumWith(x')
    BY <1>1 DEF SumWith
  <2> QED
    BY <1>1, <1>5, <2>1 DEF ChecksumsRight, SumWith
<1> QED
  BY <1>1, <1>2, <1>5, <1>6, <1>7, DumpKeeps

(* TableEnds keeps McuInv.                                                    *)
LEMMA TableEndsKeeps == ASSUME McuInv, TableEnds PROVE McuInv'
<1>1. /\ cpc = "table" /\ cpc' = "done" /\ checkSums' = checkSums /\ incomplete' = incomplete
      /\ UNCHANGED <<machine, update, request, numberOfCpus, bspIndex, cpuIndex, shownInfo, patched, told, startFailed>>
  BY DEF TableEnds
<1>2. checkSums' = [k \in 1..Len(checkSums') |-> checkSums'[k]] /\ Len(checkSums') \in Nat
  BY <1>1 DEF McuInv, McuTypeOK
<1>3. SumsInv'
  BY <1>1 DEF McuInv, SumsInv
<1>4. ChecksumsRight'
  BY <1>1 DEF McuInv, ProcessorsRight, ChecksumsRight, SumWith
<1> QED
  BY <1>1, <1>2, <1>3, <1>4, DumpKeeps

-----------------------------------------------------------------------------
(* Every reachable state satisfies McuInv, by induction on its steps.         *)
THEOREM McuInvariant == McuSpec => []McuInv
<1>1. McuInv /\ [McuNext]_cpuVars => McuInv'
  <2>1. ASSUME McuInv, UNCHANGED cpuVars PROVE McuInv'
    <3>1. UNCHANGED <<machine, update, request, cpc, numberOfCpus, bspIndex, cpuIndex, shownInfo, patched, checkSums, incomplete, told, startFailed>>
      BY <2>1 DEF cpuVars
    <3>2. McuTypeOK'
      BY <2>1, <3>1 DEF McuInv, McuTypeOK
    <3>3. CpusInv'
      BY <2>1, <3>1 DEF McuInv, CpusInv, Cpus, Enabled
    <3>4. SumsInv'
      BY <2>1, <3>1 DEF McuInv, SumsInv, InCompleteCheckSum32, HeaderWords
    <3>5. OwnInfo'
      BY <2>1, <3>1 DEF McuInv, ProcessorsRight, OwnInfo, Enabled
    <3>6. PatchedOnce'
      BY <2>1, <3>1 DEF McuInv, ProcessorsRight, PatchedOnce, Cpus, Enabled
    <3>7. ChecksumsRight'
      BY <2>1, <3>1 DEF McuInv, ProcessorsRight, ChecksumsRight, SumWith
    <3> QED
      BY <3>2, <3>3, <3>4, <3>5, <3>6, <3>7 DEF McuInv, ProcessorsRight
  <2> QED
    BY <2>1, PatchMicrocodeEntrypointKeeps, LocateMpServicesKeeps, DumpCpuInfoKeeps, TriggerMicrocodeUpdateKeeps, CpusEndKeeps,
       DumpMicrocodeHeaderKeeps, DumpMicrocodeEntryKeeps, TableEndsKeeps DEF McuNext
<1> QED
  BY <1>1, McuInitInv, PTL DEF McuSpec

(* So ProcessorsRight (PatchMicrocode.tla) holds in every state.           *)
THEOREM ProcessorsAreRight == McuSpec => []ProcessorsRight
<1>1. McuInv => ProcessorsRight
  BY DEF McuInv
<1> QED
  BY <1>1, McuInvariant, PTL

-----------------------------------------------------------------------------
(* SmmProfileDump.                                                         *)
LoadedImages == [base : Nat, size : Nat, name : STRING]
ProfileEntries == [instruction : Int, address : Int]
Stages == {"images", "size", "allocate", "get", "variable", "entries", "done", "undefined"}

ProfileTypeOK ==
  /\ memory \in Seq(MapDescriptors) /\ recorded \in Seq(MapDescriptors)
  /\ loaded \in Seq(LoadedImages)
  /\ profile \in Seq(ProfileEntries)
  /\ spc \in Stages
  /\ mapSize \in Nat /\ memoryMap \in Nat /\ allocFailures \in Nat /\ header \in Nat
  /\ mapBuffers \in Seq(Nat)
  /\ shownEntries \in Seq([entry : ProfileEntries, image : STRING \cup {UnknownName}, type : mMemoryTypeShortName])
  /\ imageTable \in Seq(LoadedImages)

(* The buffer of an attempt is the last allocated; when another is asked   *)
(* for it has been freed, and so it has after an allocation that failed.   *)
BufferInv ==
  /\ memoryMap = Len(mapBuffers)
  /\ memory # <<>>
  /\ spc \in {"images", "size"} => memoryMap = 0
  /\ spc \in {"allocate", "get"} => mapSize > 0
  /\ spc \in {"get", "variable", "entries"} => memoryMap > 0
  /\ spc = "allocate" => \A b \in 1..Len(mapBuffers) : mapBuffers[b] = 0
  /\ spc = "get" => mapBuffers[memoryMap] = mapSize \/ (mapBuffers[memoryMap] = 0 /\ allocFailures > 0)

(* The map that is looked at is that of the system, and the images are     *)
(* among those that are loaded.                                            *)
TablesInv ==
  /\ spc \in {"variable", "entries"} => recorded = memory
  /\ spc \notin {"entries", "done"} => shownEntries = <<>> /\ header = 0
  /\ spc \in {"entries", "done"} => header <= Len(profile)
  /\ \A i \in 1..Len(imageTable) : \E j \in 1..Len(loaded) : imageTable[i] = loaded[j]

(* EntriesRight for one entry, as a fact about the tables.                 *)
TypesAt(map, address) == {map[i].type : i \in {j \in 1..Len(map) : Covers(map[j], address)}}
ShownRight(s, e, map, images) ==
  /\ s.entry = e
  /\ s.type \in (IF TypesAt(map, s.entry.address) = {} THEN {MMIO} ELSE TypesAt(map, s.entry.address))
  /\ s.image # UnknownName => \E i \in 1..Len(images) : images[i].name = s.image /\ s.entry.instruction - images[i].base \in 0..images[i].size - 1
AllRight(shown, entries, map, images) ==
  \A k \in 1..Len(shown) : k <= Len(entries) /\ ShownRight(shown[k], entries[k], map, images)

ProfileInv == ProfileTypeOK /\ BufferInv /\ TablesInv /\ ProfileRight

-----------------------------------------------------------------------------
(* The loops over the map and over the images stop at the first that holds *)
(* the address.                                                            *)
LEMMA FirstOf ==
  ASSUME NEW n \in Nat, NEW S \in SUBSET (1..n), S # {}
  PROVE  \E i \in S : \A j \in S : i <= j
<1> DEFINE R == OpToRel(<, Nat)
<1>1. IsWellFoundedOn(R, Nat)
  BY NatLessThanWellFounded
<1>0. S \subseteq Nat
  OBVIOUS
<1> HIDE DEF R
<1>2. PICK i \in S : \A j \in S : ~(<<j, i>> \in R)
  BY <1>0, <1>1, WFMin
<1>3. ASSUME NEW j \in S PROVE i <= j
  <2>1. i \in Nat /\ j \in Nat
    BY <1>0
  <2>2. ~(j < i)
    BY <1>2, <2>1 DEF OpToRel, R
  <2> QED
    BY <2>1, <2>2
<1> QED
  BY <1>3

(* The image shown is one of the table that holds the address.             *)
LEMMA ImageFound ==
  ASSUME ProfileTypeOK, TablesInv, NEW address \in Int
  PROVE  LET name == ImageNameOf(address)
         IN  /\ name \in STRING \cup {UnknownName}
             /\ name # UnknownName => \E i \in 1..Len(loaded) : loaded[i].name = name /\ address - loaded[i].base \in 0..loaded[i].size - 1
<1> DEFINE foundAt == {i \in 1..Len(imageTable) : address >= imageTable[i].base /\ address < imageTable[i].base + imageTable[i].size}
<1>1. CASE foundAt = {}
  <2>1. ImageNameOf(address) = UnknownName
    BY <1>1 DEF ImageNameOf
  <2> QED
    BY <2>1
<1>2. CASE foundAt # {}
  <2> DEFINE i == CHOOSE i \in foundAt : \A j \in foundAt : i <= j
  <2>1. Len(imageTable) \in Nat /\ foundAt \in SUBSET (1..Len(imageTable))
    BY DEF ProfileTypeOK
  <2>2. i \in foundAt
    <3> HIDE DEF foundAt
    <3> QED
      BY <1>2, <2>1, FirstOf
  <2>3. ImageNameOf(address) = imageTable[i].name
    BY <1>2 DEF ImageNameOf
  <2> HIDE DEF i
  <2>4. PICK j \in 1..Len(loaded) : imageTable[i] = loaded[j]
    BY <2>2 DEF TablesInv
  <2>5. loaded[j] \in LoadedImages
    BY DEF ProfileTypeOK
  <2>6. loaded[j].base \in Nat /\ loaded[j].size \in Nat /\ loaded[j].name \in STRING \cup {UnknownName}
    BY <2>5 DEF LoadedImages
  <2>7. address >= loaded[j].base /\ address < loaded[j].base + loaded[j].size
    BY <2>2, <2>4
  <2>8. address - loaded[j].base \in 0..loaded[j].size - 1
    BY <2>6, <2>7
  <2> QED
    BY <2>3, <2>4, <2>6, <2>8
<1> QED
  BY <1>1, <1>2

(* The type shown is that of a descriptor of the map of the system.        *)
LEMMA TypeFound ==
  ASSUME ProfileTypeOK, recorded = memory, mapSize = Len(recorded), NEW address \in Int
  PROVE  LET type == GetMemoryTypeFromAddress(address)
         IN  type \in mMemoryTypeShortName /\ type \in (IF TypeAt(address) = {} THEN {MMIO} ELSE TypeAt(address))
<1> DEFINE foundAt == {i \in 1..Len(memory) : HoldsAddress(memory[i], address)}
<1>0. \A i \in 1..Len(memory) : memory[i] \in MapDescriptors
  BY DEF ProfileTypeOK
<1>1. \A i \in 1..Len(memory) : memory[i].start \in Nat /\ memory[i].pages \in Nat /\ memory[i].type \in mMemoryTypeShortName
  BY <1>0 DEF MapDescriptors
<1>2. \A i \in 1..Len(memory) : HoldsAddress(memory[i], address) <=> Covers(memory[i], address)
  BY <1>1 DEF HoldsAddress, Covers, PageSize
<1>3. TypeAt(address) = {memory[i].type : i \in foundAt}
  BY <1>2 DEF TypeAt
<1>4. CASE foundAt = {}
  <2>1. GetMemoryTypeFromAddress(address) = MMIO
    BY <1>4 DEF GetMemoryTypeFromAddress
  <2>2. TypeAt(address) = {}
    BY <1>3, <1>4
  <2> QED
    BY <2>1, <2>2 DEF MMIO, mMemoryTypeShortName
<1>5. CASE foundAt # {}
  <2> DEFINE i == CHOOSE i \in foundAt : \A j \in foundAt : i <= j
  <2>1. Len(memory) \in Nat /\ foundAt \in SUBSET (1..Len(memory))
    BY DEF ProfileTypeOK
  <2>2. i \in foundAt
    <3> HIDE DEF foundAt
    <3> QED
      BY <1>5, <2>1, FirstOf
  <2>3. GetMemoryTypeFromAddress(address) = memory[i].type
    BY <1>5 DEF GetMemoryTypeFromAddress
  <2> HIDE DEF i
  <2> QED
    BY <1>1, <1>3, <2>2, <2>3
<1> QED
  BY <1>4, <1>5

-----------------------------------------------------------------------------
(* An allocation leaves the map well formed.                               *)
LEMMA SplitKeeps ==
  ASSUME ProfileTypeOK, NEW i \in 1..Len(memory), memory[i].pages > 1
  PROVE  SplitMemory(i) \in Seq(MapDescriptors) /\ SplitMemory(i) # <<>>
<1> DEFINE a == SubSeq(memory, 1, i - 1)
           b == SubSeq(memory, i + 1, Len(memory))
           x == [memory[i] EXCEPT !.pages = @ - 1]
           y == [start |-> memory[i].start + PageSize * (memory[i].pages - 1), pages |-> 1, type |-> "BS_Data"]
<1>1. memory[i] \in MapDescriptors
  BY DEF ProfileTypeOK
<1>2. x \in MapDescriptors /\ y \in MapDescriptors
  <2>1. memory[i].start \in Nat /\ memory[i].pages - 1 \in Nat
    BY <1>1 DEF MapDescriptors
  <2>2. x \in MapDescriptors
    BY <1>1, <2>1 DEF MapDescriptors
  <2>3. memory[i].start + PageSize * (memory[i].pages - 1) \in Nat
    BY <2>1 DEF PageSize
  <2> QED
    BY <2>2, <2>3 DEF MapDescriptors, mMemoryTypeShortName
<1>3. a \in Seq(MapDescriptors) /\ b \in Seq(MapDescriptors)
  BY DEF ProfileTypeOK
<1>4. SplitMemory(i) = a \o <<x, y>> \o b
  BY DEF SplitMemory
<1> HIDE DEF a, b, x, y
<1>5. <<x, y>> \in Seq(MapDescriptors) /\ Len(<<x, y>>) = 2
  BY <1>2
<1>6. a \o <<x, y>> \in Seq(MapDescriptors) /\ Len(a \o <<x, y>>) >= 2
  BY <1>3, <1>5
<1>7. a \o <<x, y>> \o b \in Seq(MapDescriptors) /\ Len(a \o <<x, y>> \o b) >= 2
  BY <1>3, <1>6
<1> QED
  BY <1>4, <1>7

(* Freeing the buffer of the last attempt.                                 *)
LEMMA Freed ==
  ASSUME ProfileTypeOK, BufferInv
  PROVE  /\ FreeMap(mapBuffers) \in Seq(Nat) /\ Len(FreeMap(mapBuffers)) = Len(mapBuffers)
         /\ \A b \in 1..Len(mapBuffers) : FreeMap(mapBuffers)[b] = IF b = memoryMap THEN 0 ELSE mapBuffers[b]
<1>1. mapBuffers \in Seq(Nat)
  BY DEF ProfileTypeOK
<1>2. PICK n \in Nat : mapBuffers \in [1..n -> Nat] /\ Len(mapBuffers) = n
  BY <1>1
<1> DEFINE f == [mapBuffers EXCEPT ![memoryMap] = 0]
<1>3. f \in [1..n -> Nat] /\ \A b \in 1..n : f[b] = IF b = memoryMap THEN 0 ELSE mapBuffers[b]
  BY <1>2
<1> HIDE DEF f
<1>4. f \in Seq(Nat) /\ Len(f) = n
  BY <1>3
<1> QED
  BY <1>2, <1>3, <1>4 DEF FreeMap, f

(* EntriesRight, as a fact about the tables.                               *)
LEMMA EntriesAre ==
  EntriesRight <=> AllRight(shownEntries, profile, memory, loaded) /\ (spc = "done" => Len(shownEntries) >= header)
BY DEF EntriesRight, AllRight, ShownRight, TypeAt, TypesAt

(* The same, after a step.                                                 *)
LEMMA EntriesStay ==
  ASSUME AllRight(shownEntries, profile, memory, loaded)', (spc = "done" => Len(shownEntries) >= header)'
  PROVE  EntriesRight'
BY DEF EntriesRight, AllRight, ShownRight, TypeAt, TypesAt

-----------------------------------------------------------------------------
(* The tool starts without a buffer.                                       *)
LEMMA ProfileInitInv == ProfileInit => ProfileInv
<1> SUFFICES ASSUME ProfileInit PROVE ProfileInv
  OBVIOUS
<1>1. /\ memory \in Seq(MapDescriptors) /\ memory # <<>> /\ loaded \in Seq(LoadedImages) /\ profile \in Seq(ProfileEntries)
      /\ spc = "images" /\ mapSize = 0 /\ memoryMap = 0 /\ mapBuffers = <<>> /\ recorded = <<>>
      /\ imageTable = <<>> /\ header = 0 /\ shownEntries = <<>> /\ allocFailures = 0
  BY ProfileAssumption DEF ProfileInit, LoadedImages, ProfileEntries
<1>2. ProfileTypeOK
  BY <1>1 DEF ProfileTypeOK, Stages
<1>3. BufferInv /\ TablesInv
  BY <1>1 DEF BufferInv, TablesInv
<1>4. MapBufferOwned /\ EntriesRight
  BY <1>1 DEF MapBufferOwned, EntriesRight
<1> QED
  BY <1>2, <1>3, <1>4 DEF ProfileInv, ProfileRight

(* GetLoadedImage keeps ProfileInv.                                               *)
LEMMA GetLoadedImageKeeps == ASSUME ProfileInv, GetLoadedImage PROVE ProfileInv'
<1>1. PICK n \in 0..Len(loaded) : \E kept \in [1..n -> 1..Len(loaded)] : imageTable' = KeptImages(kept)
  BY DEF GetLoadedImage
<1>2. PICK kept \in [1..n -> 1..Len(loaded)] : imageTable' = [i \in 1..n |-> loaded[kept[i]]]
  BY <1>1 DEF KeptImages
<1>3. imageTable' \in Seq(LoadedImages) /\ Len(imageTable') = n /\ \A i \in 1..n : \E j \in 1..Len(loaded) : imageTable'[i] = loaded[j]
  <2>1. n \in Nat /\ \A j \in 1..Len(loaded) : loaded[j] \in LoadedImages
    BY DEF ProfileInv, ProfileTypeOK
  <2>2. imageTable' \in [1..n -> LoadedImages]
    BY <1>2, <2>1
  <2>3. imageTable' \in Seq(LoadedImages) /\ Len(imageTable') = n
    BY <2>1, <2>2
  <2> QED
    BY <1>2, <2>3
<1>4. spc = "images" /\ spc' = "size"
      /\ UNCHANGED <<memory, loaded, profile, mapSize, memoryMap, mapBuffers, recorded, header, shownEntries, allocFailures>>
  BY DEF GetLoadedImage
<1>5. ProfileTypeOK'
  BY <1>3, <1>4 DEF ProfileInv, ProfileTypeOK, Stages
<1>6. BufferInv' /\ TablesInv'
  BY <1>3, <1>4 DEF ProfileInv, BufferInv, TablesInv
<1>7. ProfileRight'
  BY <1>4 DEF ProfileInv, ProfileRight, MapBufferOwned, EntriesRight, TypeAt, TablesInv
<1> QED
  BY <1>5, <1>6, <1>7 DEF ProfileInv

(* Before the entries nothing is shown, and ProfileRight is about the map. *)
LEMMA NothingShown ==
  ASSUME TablesInv', MapBufferOwned', spc' \notin {"entries", "done"}
  PROVE  ProfileRight'
BY DEF TablesInv, ProfileRight, EntriesRight

(* GetMemoryMapSize keeps ProfileInv.                                             *)
LEMMA GetMemoryMapSizeKeeps == ASSUME ProfileInv, GetMemoryMapSize PROVE ProfileInv'
<1>1. spc = "size" /\ spc' = "allocate" /\ mapSize' = Len(memory)
      /\ UNCHANGED <<memory, loaded, profile, memoryMap, mapBuffers, recorded, imageTable, header, shownEntries, allocFailures>>
  BY DEF GetMemoryMapSize
<1>2. Len(memory) \in Nat /\ Len(memory) > 0
  BY DEF ProfileInv, ProfileTypeOK, BufferInv
<1>3. ProfileTypeOK'
  BY <1>1, <1>2 DEF ProfileInv, ProfileTypeOK, Stages
<1>4. BufferInv' /\ TablesInv'
  BY <1>1, <1>2 DEF ProfileInv, BufferInv, TablesInv
<1>5. MapBufferOwned'
  BY <1>1 DEF ProfileInv, ProfileRight, MapBufferOwned
<1> QED
  BY <1>1, <1>3, <1>4, <1>5, NothingShown DEF ProfileInv

(* AllocateMap keeps ProfileInv.                                                  *)
LEMMA AllocateMapKeeps == ASSUME ProfileInv, AllocateMap PROVE ProfileInv'
<1>1. /\ spc = "allocate" /\ spc' = "get" /\ memoryMap' = Len(mapBuffers) + 1 /\ mapBuffers' = Append(mapBuffers, mapSize)
      /\ UNCHANGED <<loaded, profile, mapSize, recorded, imageTable, header, shownEntries, allocFailures>>
  BY DEF AllocateMap
<1>2. memory' \in Seq(MapDescriptors) /\ memory' # <<>>
  <2>1. CASE memory' = memory
    BY <2>1 DEF ProfileInv, ProfileTypeOK, BufferInv
  <2>2. CASE \E i \in 1..Len(memory) : memory[i].pages > 1 /\ memory' = SplitMemory(i)
    BY <2>2, SplitKeeps DEF ProfileInv
  <2> QED
    BY <2>1, <2>2 DEF AllocateMap
<1>3. /\ mapBuffers' \in Seq(Nat) /\ Len(mapBuffers') = Len(mapBuffers) + 1 /\ Len(mapBuffers) \in Nat
      /\ \A b \in 1..Len(mapBuffers) : mapBuffers'[b] = mapBuffers[b]
      /\ mapBuffers'[Len(mapBuffers) + 1] = mapSize
  BY <1>1 DEF ProfileInv, ProfileTypeOK
<1>4. ProfileTypeOK'
  BY <1>1, <1>2, <1>3 DEF ProfileInv, ProfileTypeOK, Stages
<1>5. BufferInv' /\ TablesInv'
  BY <1>1, <1>2, <1>3 DEF ProfileInv, BufferInv, TablesInv
<1>6. MapBufferOwned'
  BY <1>1, <1>3 DEF ProfileInv, BufferInv, MapBufferOwned
<1> QED
  BY <1>1, <1>4, <1>5, <1>6, NothingShown DEF ProfileInv

(* AllocateMapFails keeps ProfileInv.                                             *)
LEMMA AllocateMapFailsKeeps == ASSUME ProfileInv, AllocateMapFails PROVE ProfileInv'
<1>1. /\ spc = "allocate" /\ allocFailures' = allocFailures + 1 /\ spc' = IF memoryMap = 0 THEN "undefined" ELSE "get"
      /\ UNCHANGED <<memory, loaded, profile, mapSize, memoryMap, mapBuffers, recorded, imageTable, header, shownEntries>>
  BY DEF AllocateMapFails
<1>2. allocFailures' \in Nat /\ allocFailures' > 0
  BY <1>1 DEF ProfileInv, ProfileTypeOK
<1>3. ProfileTypeOK'
  BY <1>1, <1>2 DEF ProfileInv, ProfileTypeOK, Stages
<1>4. memoryMap # 0 => mapBuffers[memoryMap] = 0
  BY <1>1 DEF ProfileInv, ProfileTypeOK, BufferInv
<1>5. BufferInv' /\ TablesInv'
  BY <1>1, <1>2, <1>4 DEF ProfileInv, ProfileTypeOK, BufferInv, TablesInv
<1>6. MapBufferOwned'
  BY <1>1, <1>2 DEF ProfileInv, BufferInv, MapBufferOwned
<1> QED
  BY <1>1, <1>3, <1>5, <1>6, NothingShown DEF ProfileInv

(* GetMemoryMapTooSmall keeps ProfileInv.                                         *)
LEMMA GetMemoryMapTooSmallKeeps == ASSUME ProfileInv, GetMemoryMapTooSmall PROVE ProfileInv'
<1>1. /\ spc = "get" /\ mapSize' = Len(memory) /\ mapBuffers' = FreeMap(mapBuffers)
      /\ spc' = IF mapBuffers[memoryMap] = 0 THEN "undefined" ELSE "allocate"
      /\ UNCHANGED <<memory, loaded, profile, memoryMap, recorded, imageTable, header, shownEntries, allocFailures>>
  BY DEF GetMemoryMapTooSmall
<1>2. /\ mapBuffers' \in Seq(Nat) /\ Len(mapBuffers') = Len(mapBuffers)
      /\ \A b \in 1..Len(mapBuffers) : mapBuffers'[b] = IF b = memoryMap THEN 0 ELSE mapBuffers[b]
  BY <1>1, Freed DEF ProfileInv
<1>3. \A b \in 1..Len(mapBuffers) : mapBuffers'[b] = 0
  BY <1>1, <1>2 DEF ProfileInv, ProfileRight, MapBufferOwned
<1>4. Len(memory) \in Nat /\ Len(memory) > 0
  BY DEF ProfileInv, ProfileTypeOK, BufferInv
<1>5. ProfileTypeOK'
  BY <1>1, <1>2, <1>4 DEF ProfileInv, ProfileTypeOK, Stages
<1>6. BufferInv' /\ TablesInv'
  BY <1>1, <1>2, <1>3, <1>4 DEF ProfileInv, BufferInv, TablesInv
<1>7. MapBufferOwned'
  BY <1>1, <1>2, <1>3 DEF ProfileInv, BufferInv, MapBufferOwned
<1> QED
  BY <1>1, <1>5, <1>6, <1>7, NothingShown DEF ProfileInv

(* GetMemoryMap keeps ProfileInv.                                                 *)
LEMMA GetMemoryMapKeeps == ASSUME ProfileInv, GetMemoryMap PROVE ProfileInv'
<1>1. /\ spc = "get" /\ mapSize >= Len(memory) /\ mapSize' = Len(memory) /\ recorded' = memory
      /\ spc' = IF mapBuffers[memoryMap] = 0 THEN "undefined" ELSE "variable"
      /\ UNCHANGED <<memory, loaded, profile, memoryMap, mapBuffers, imageTable, header, shownEntries, allocFailures>>
  BY DEF GetMemoryMap, SizeWritten
<1>2. ProfileTypeOK'
  BY <1>1 DEF ProfileInv, ProfileTypeOK, Stages
<1>3. BufferInv' /\ TablesInv'
  BY <1>1 DEF ProfileInv, BufferInv, TablesInv
<1>4. MapBufferOwned'
  BY <1>1 DEF ProfileInv, ProfileTypeOK, BufferInv, ProfileRight, MapBufferOwned
<1> QED
  BY <1>1, <1>2, <1>3, <1>4, NothingShown DEF ProfileInv

-----------------------------------------------------------------------------
(* The run ends: the table is empty and no buffer is left.                 *)
LEMMA EndKeeps ==
  ASSUME ProfileInv, spc \in {"variable", "entries"}, spc' = "done", FreeBuffers, header <= Len(shownEntries), header <= Len(profile),
         UNCHANGED <<memory, loaded, profile, mapSize, memoryMap, recorded, header, shownEntries, allocFailures>>
  PROVE  ProfileInv'
<1>1. /\ mapBuffers' \in Seq(Nat) /\ Len(mapBuffers') = Len(mapBuffers)
      /\ \A b \in 1..Len(mapBuffers) : mapBuffers'[b] = IF b = memoryMap THEN 0 ELSE mapBuffers[b]
  BY Freed DEF ProfileInv, FreeBuffers
<1>2. \A b \in 1..Len(mapBuffers) : mapBuffers'[b] = 0
  BY <1>1 DEF ProfileInv, ProfileRight, MapBufferOwned
<1>3. imageTable' = <<>>
  BY DEF FreeBuffers
<1>4. ProfileTypeOK'
  BY <1>1, <1>3 DEF ProfileInv, ProfileTypeOK, Stages
<1>5. BufferInv' /\ TablesInv'
  BY <1>1, <1>2, <1>3 DEF ProfileInv, BufferInv, TablesInv
<1>6. MapBufferOwned'
  BY <1>1, <1>2 DEF ProfileInv, BufferInv, MapBufferOwned
<1>7. EntriesRight'
  <2>1. AllRight(shownEntries, profile, memory, loaded)
    BY EntriesAre DEF ProfileInv, ProfileRight
  <2>2. Len(shownEntries) >= header
    BY DEF ProfileInv, ProfileTypeOK
  <2> QED
    BY <2>1, <2>2, EntriesStay
<1> QED
  BY <1>4, <1>5, <1>6, <1>7 DEF ProfileInv, ProfileRight

(* GetVariable keeps ProfileInv.                                                  *)
LEMMA GetVariableKeeps == ASSUME ProfileInv, GetVariable PROVE ProfileInv'
<1>1. spc = "variable" /\ shownEntries = <<>> /\ header = 0
      /\ UNCHANGED <<memory, loaded, profile, mapSize, memoryMap, recorded, shownEntries, allocFailures>>
  BY DEF GetVariable, ProfileInv, TablesInv
<1>2. CASE spc' = "done" /\ FreeBuffers /\ UNCHANGED header
  BY <1>1, <1>2, EndKeeps DEF ProfileInv, ProfileTypeOK
<1>3. CASE spc' = "entries" /\ header' = Len(profile) /\ UNCHANGED <<mapBuffers, imageTable>>
  <2>1. ProfileTypeOK'
    BY <1>1, <1>3 DEF ProfileInv, ProfileTypeOK, Stages
  <2>2. BufferInv' /\ TablesInv'
    BY <1>1, <1>3 DEF ProfileInv, ProfileTypeOK, BufferInv, TablesInv
  <2>3. ProfileRight'
    BY <1>1, <1>3 DEF ProfileInv, ProfileRight, MapBufferOwned, EntriesRight
  <2> QED
    BY <2>1, <2>2, <2>3 DEF ProfileInv
<1> QED
  BY <1>2, <1>3 DEF GetVariable

(* DumpSmmProfileEntry keeps ProfileInv.                                          *)
LEMMA DumpSmmProfileEntryKeeps == ASSUME ProfileInv, DumpSmmProfileEntry PROVE ProfileInv'
<1> DEFINE k == Len(shownEntries) + 1
           e == profile[k]
           s == [entry |-> e, image |-> ImageNameOf(e.instruction), type |-> GetMemoryTypeFromAddress(e.address)]
<1>1. /\ spc = "entries" /\ Len(shownEntries) < Len(profile) /\ shownEntries' = Append(shownEntries, s)
      /\ UNCHANGED <<memory, loaded, profile, spc, mapSize, memoryMap, mapBuffers, recorded, imageTable, header, allocFailures>>
  BY DEF DumpSmmProfileEntry
<1>2. k \in 1..Len(profile) /\ e \in ProfileEntries
  BY <1>1 DEF ProfileInv, ProfileTypeOK
<1>3. e.instruction \in Int /\ e.address \in Int
  BY <1>2 DEF ProfileEntries
<1>4. recorded = memory /\ mapSize = Len(recorded)
  BY <1>1 DEF ProfileInv, TablesInv, ProfileRight, MapBufferOwned
<1> HIDE DEF e
<1>5. /\ s.entry = e /\ s \in [entry : ProfileEntries, image : STRING \cup {UnknownName}, type : mMemoryTypeShortName]
      /\ s.type \in (IF TypeAt(e.address) = {} THEN {MMIO} ELSE TypeAt(e.address))
      /\ s.image # UnknownName => \E i \in 1..Len(loaded) : loaded[i].name = s.image /\ e.instruction - loaded[i].base \in 0..loaded[i].size - 1
  BY <1>2, <1>3, <1>4, ImageFound, TypeFound DEF ProfileInv
<1> HIDE DEF s
<1>6. /\ shownEntries' \in Seq([entry : ProfileEntries, image : STRING \cup {UnknownName}, type : mMemoryTypeShortName]) /\ Len(shownEntries') = k
      /\ \A i \in 1..Len(shownEntries) : shownEntries'[i] = shownEntries[i]
      /\ shownEntries'[k] = s
  BY <1>1, <1>5 DEF ProfileInv, ProfileTypeOK
<1>7. ProfileTypeOK'
  BY <1>1, <1>6 DEF ProfileInv, ProfileTypeOK
<1>8. BufferInv' /\ TablesInv'
  BY <1>1 DEF ProfileInv, BufferInv, TablesInv
<1>9. MapBufferOwned'
  BY <1>1 DEF ProfileInv, ProfileRight, MapBufferOwned
<1>10. EntriesRight'
  <2>1. AllRight(shownEntries, profile, memory, loaded)
    BY EntriesAre DEF ProfileInv, ProfileRight
  <2>2. ShownRight(s, e, memory, loaded)
    BY <1>5 DEF ShownRight, TypeAt, TypesAt
  <2>3. ASSUME NEW i \in 1..k PROVE i <= Len(profile) /\ ShownRight(shownEntries'[i], profile[i], memory, loaded)
    <3>1. CASE i = k
      BY <1>2, <1>6, <2>2, <3>1 DEF e
    <3>2. CASE i # k
      <4>1. i \in 1..Len(shownEntries)
        BY <3>2 DEF ProfileInv, ProfileTypeOK
      <4> QED
        BY <1>6, <2>1, <4>1 DEF AllRight
    <3> QED
      BY <3>1, <3>2
  <2>4. AllRight(shownEntries', profile', memory', loaded')
    BY <1>1, <1>6, <2>3 DEF AllRight
  <2> QED
    BY <1>1, <2>4, EntriesStay
<1> QED
  BY <1>7, <1>8, <1>9, <1>10 DEF ProfileInv, ProfileRight

(* EntriesEnd keeps ProfileInv.                                                   *)
LEMMA EntriesEndKeeps == ASSUME ProfileInv, EntriesEnd PROVE ProfileInv'
<1>1. /\ spc = "entries" /\ Len(shownEntries) >= Len(profile) /\ spc' = "done" /\ FreeBuffers
      /\ UNCHANGED <<memory, loaded, profile, mapSize, memoryMap, recorded, header, shownEntries, allocFailures>>
  BY DEF EntriesEnd
<1>2. header <= Len(profile) /\ header <= Len(shownEntries)
  BY <1>1 DEF ProfileInv, ProfileTypeOK, TablesInv
<1> QED
  BY <1>1, <1>2, EndKeeps

(* SmiPageFault keeps ProfileInv.                                                 *)
LEMMA SmiPageFaultKeeps == ASSUME ProfileInv, SmiPageFault PROVE ProfileInv'
<1>1. profile' = Append(profile, AnEntry(Len(profile) + 1)) /\ spc # "done"
      /\ UNCHANGED <<memory, loaded, spc, mapSize, memoryMap, mapBuffers, recorded, imageTable, header, shownEntries, allocFailures>>
  BY DEF SmiPageFault
<1>2. AnEntry(Len(profile) + 1) \in ProfileEntries
  BY DEF ProfileInv, ProfileTypeOK, AnEntry, ProfileEntries
<1>3. /\ profile' \in Seq(ProfileEntries) /\ Len(profile') = Len(profile) + 1 /\ Len(profile) \in Nat
      /\ \A i \in 1..Len(profile) : profile'[i] = profile[i]
  BY <1>1, <1>2 DEF ProfileInv, ProfileTypeOK
<1>4. ProfileTypeOK'
  BY <1>1, <1>3 DEF ProfileInv, ProfileTypeOK
<1>5. BufferInv' /\ TablesInv'
  BY <1>1, <1>3 DEF ProfileInv, ProfileTypeOK, BufferInv, TablesInv
<1>6. MapBufferOwned'
  BY <1>1 DEF ProfileInv, ProfileRight, MapBufferOwned
<1>7. EntriesRight'
  <2>1. AllRight(shownEntries, profile, memory, loaded)
    BY EntriesAre DEF ProfileInv, ProfileRight
  <2>2. Len(shownEntries) \in Nat
    BY DEF ProfileInv, ProfileTypeOK
  <2>3. \A i \in 1..Len(shownEntries) : i <= Len(profile) => i <= Len(profile') /\ profile'[i] = profile[i]
    BY <1>3, <2>2
  <2>4. AllRight(shownEntries', profile', memory', loaded')
    BY <1>1, <2>1, <2>3 DEF AllRight
  <2> QED
    BY <1>1, <2>4, EntriesStay
<1> QED
  BY <1>4, <1>5, <1>6, <1>7 DEF ProfileInv, ProfileRight

-----------------------------------------------------------------------------
(* The invariant of the tool.                                              *)
THEOREM ProfileInvariant == ProfileSpec => []ProfileInv
<1>1. ASSUME ProfileInv, UNCHANGED profileVars PROVE ProfileInv'
  <2>1. ProfileTypeOK' /\ BufferInv' /\ TablesInv' /\ MapBufferOwned'
    BY <1>1 DEF profileVars, ProfileInv, ProfileTypeOK, BufferInv, TablesInv, ProfileRight, MapBufferOwned
  <2>2. EntriesRight'
    BY <1>1, EntriesAre, EntriesStay DEF profileVars, ProfileInv, ProfileRight
  <2> QED
    BY <2>1, <2>2 DEF ProfileInv, ProfileRight
<1>2. ProfileInv /\ [ProfileNext]_profileVars => ProfileInv'
  BY <1>1, GetLoadedImageKeeps, GetMemoryMapSizeKeeps, AllocateMapKeeps, AllocateMapFailsKeeps, GetMemoryMapTooSmallKeeps,
     GetMemoryMapKeeps, GetVariableKeeps, DumpSmmProfileEntryKeeps, EntriesEndKeeps, SmiPageFaultKeeps DEF ProfileNext, ProfileStep
<1> QED
  BY <1>2, ProfileInitInv, PTL DEF ProfileSpec

(* For every memory map, however often its allocation splits it, and       *)
(* however many page faults SMIs record meanwhile: the map is recorded in  *)
(* a buffer it fits and that is freed once (RecrodMemoryMap), and every    *)
(* entry is shown with an image and a memory type that hold its addresses  *)
(* (DumpSmmProfileInformation).                                            *)
THEOREM ProfileIsRight == ProfileSpec => []ProfileRight
<1>1. ProfileInv => ProfileRight
  BY DEF ProfileInv
<1> QED
  BY <1>1, ProfileInvariant, PTL

-----------------------------------------------------------------------------
(* GetPciOprom.  The images shown of a device are a run of its ROM, and    *)
(* the files hold what is saved of that run.                               *)
AllFile == "PciOpromAll.bin"
LegacyFile == "PciOpromLegacy.bin"
LayoutOf(d) == pciDevices[d].layout

(* The device has the numbers asked for.                                   *)
AskedFor(d) == Matches(Wanted.location, pciDevices[d].location) /\ Matches(Wanted.ids, pciDevices[d].ids)

(* The images shown of device d are its first k, from place a on.          *)
RunOf(shown, layout, d, a, k) ==
  /\ a + k <= Len(shown)
  /\ \A n \in 1..Len(shown) : shown[n][1] = d <=> n \in a + 1..a + k
  /\ \A j \in 1..k : shown[a + j][2] = StartOf(layout, j)
  /\ \A j \in 1..k - 1 : ~layout[j].last
CompleteRun(layout, k) == k = 0 \/ k = Len(layout) \/ layout[k].last

(* The walk has shown k images, the last of them at `shown', and stands    *)
(* behind it.                                                              *)
WalkAt(layout, block, shown, k) ==
  /\ k > 0 => ~layout[k].last
  /\ shown = IF k = 0 THEN NoBlock ELSE StartOf(layout, k)
  /\ ImageEnd(layout, k) <= block
  /\ k < Len(layout) => block <= StartOf(layout, k + 1)
  /\ k = Len(layout) => block = ImageEnd(layout, k)

(* What is saved of the first k images.                                    *)
HoldsFile(files, name, data) == name \in DOMAIN files /\ files[name] = data
SavedImages(files, layout, k) ==
  /\ HoldsFile(files, AllFile, [from |-> 0, blocks |-> BlocksOf(layout), unpacked |-> FALSE])
  /\ \A i \in 1..k : layout[i].code = "LEGACY" /\ (\A j \in i + 1..k : layout[j].code # "LEGACY") =>
       HoldsFile(files, LegacyFile, Content(layout, i))
  /\ \A i \in 1..k :
       layout[i].code = "EFI" /\ (\A j \in i + 1..k : layout[j].code # "EFI" \/ layout[j].machine # layout[i].machine) =>
         HoldsFile(files, OpromFileName(layout[i].machine), Content(layout, i))

(* Where the run is, and which device has its turn.                        *)
OpromPlaceInv ==
  /\ pciDevices \in PciPlatforms /\ command \in OpromCommands /\ romEntry \in Nat
  /\ rpc \in {"start", "devices", "images", "done", "undefined"} /\ device \in 1..Len(pciDevices) + 1
  /\ rpc \in {"images", "undefined"} => device <= Len(pciDevices)
  /\ oproms \in Seq(Nat \X Nat)
(* The device of a run with -f or -i is the first one asked for.           *)
OpromDeviceInv ==
  /\ found \in BOOLEAN /\ (rpc \notin {"start", "done"} \/ found => Accepted)
  /\ rpc \in {"start", "devices"} /\ ~DumpsAll => ~found
  /\ found /\ ~DumpsAll => device <= Len(pciDevices) /\ AskedFor(device)
  /\ ~DumpsAll => \A d \in 1..device - 1 : ~AskedFor(d)
(* Of every device a run is shown, and of those passed a complete one.     *)
OpromRunsInv ==
  /\ rpc = "start" => oproms = <<>> /\ device = 1
  /\ \A n \in 1..Len(oproms) : oproms[n][1] <= device /\ (rpc \in {"start", "devices"} => oproms[n][1] < device)
  /\ \A d \in 1..Len(pciDevices) : \E a \in 0..Len(oproms), k \in 0..Len(LayoutOf(d)) :
       /\ RunOf(oproms, LayoutOf(d), d, a, k)
       /\ d < device \/ rpc = "done" => CompleteRun(LayoutOf(d), k)
(* The run of the device at hand is the last one, and the walk behind it.  *)
OpromWalkInv ==
  rpc = "images" =>
    \E k \in 0..Len(Layout) :
      /\ k <= Len(oproms) /\ RunOf(oproms, Layout, device, Len(oproms) - k, k) /\ WalkAt(Layout, romEntry, pcir, k)
      /\ ~DumpsAll /\ ~romIoFailed => SavedImages(romFiles, Layout, k)
(* At the end the files hold what is saved of the chain.                   *)
OpromFilesInv ==
  /\ romIoFailed \in BOOLEAN /\ (DumpsAll => romFiles = <<>>)
  /\ rpc = "done" /\ found /\ ~DumpsAll /\ ~romIoFailed /\ Layout # <<>> =>
       \E k \in 0..Len(Layout) : ChainOf(Layout) = 1..k /\ SavedImages(romFiles, Layout, k)

OpromInv == OpromPlaceInv /\ OpromDeviceInv /\ OpromRunsInv /\ OpromWalkInv /\ OpromFilesInv

(* A recursion over 0..m, with the step from n - 1 to n as a function.      *)
IsRecursion(f, V, base, move, m) ==
  f \in [0..m -> V] /\ f[0] = base /\ \A n \in 1..m : f[n] = move[n][f[n - 1]]

(* A function defined by recursion on the natural numbers exists.          *)
LEMMA Recursion ==
  ASSUME NEW V, NEW base \in V, NEW m \in Nat, NEW move, \A n \in 1..m : move[n] \in [V -> V]
  PROVE  \E f : IsRecursion(f, V, base, move, m)
<1> DEFINE S == {k \in Nat : k <= m => \E f : IsRecursion(f, V, base, move, k)}
<1>1. 0 \in S
  <2>1. IsRecursion([n \in 0..0 |-> base], V, base, move, 0)
    BY DEF IsRecursion
  <2> QED
    BY <2>1
<1>2. ASSUME NEW k \in Nat, k \in S PROVE k + 1 \in S
  <2>1. SUFFICES ASSUME k + 1 <= m PROVE \E f : IsRecursion(f, V, base, move, k + 1)
    OBVIOUS
  <2>2. PICK f : IsRecursion(f, V, base, move, k)
    BY <1>2, <2>1
  <2>3. f \in [0..k -> V] /\ f[0] = base /\ \A n \in 1..k : f[n] = move[n][f[n - 1]]
    BY <2>2 DEF IsRecursion
  <2> DEFINE v == move[k + 1][f[k]]
             g == [n \in 0..k + 1 |-> IF n = k + 1 THEN v ELSE f[n]]
  <2>4. v \in V
    BY <2>1, <2>3
  <2> HIDE DEF v
  <2>5. g \in [0..k + 1 -> V] /\ g[0] = base /\ g[k + 1] = v /\ \A n \in 0..k : g[n] = f[n]
    BY <2>3, <2>4
  <2> HIDE DEF g
  <2>6. ASSUME NEW n \in 1..k + 1 PROVE g[n] = move[n][g[n - 1]]
    <3>1. CASE n = k + 1
      <4>1. n - 1 = k /\ k \in 0..k
        BY <3>1
      <4> QED
        BY <2>5, <3>1, <4>1 DEF v
    <3>2. CASE n # k + 1
      <4>1. n \in 1..k /\ n \in 0..k /\ n - 1 \in 0..k
        BY <3>2
      <4> QED
        BY <2>3, <2>5, <4>1
    <3> QED
      BY <3>1, <3>2
  <2>7. IsRecursion(g, V, base, move, k + 1)
    BY <2>5, <2>6 DEF IsRecursion
  <2> QED
    BY <2>7
<1> HIDE DEF S
<1>3. Nat \subseteq S
  BY <1>1, <1>2, Induction
<1> QED
  BY <1>3 DEF S

(* The end of an image is that of the one before it, and its own size on.  *)
LEMMA EndIs ==
  ASSUME NEW layout, RomForm(layout)
  PROVE  /\ ImageEnd(layout, 0) = 0
         /\ \A i \in 0..Len(layout) : ImageEnd(layout, i) \in Nat
         /\ \A i \in 1..Len(layout) : ImageEnd(layout, i) = StartOf(layout, i) + layout[i].len
<1> DEFINE m == Len(layout)
           words == Sizes(layout)
           move == [n \in 1..m |-> [x \in Nat |-> x + words[n]]]
           IsEnd(f) == f = [n \in 0..m |-> IF n = 0 THEN 0 ELSE f[n - 1] + words[n]]
           e == CHOOSE f : IsEnd(f)
<1>1. m \in Nat /\ \A n \in 1..m : words[n] = layout[n].gap + layout[n].len /\ words[n] \in Nat
  BY DEF RomForm, Sizes
<1> HIDE DEF m, words
<1>2. \A n \in 1..m : move[n] \in [Nat -> Nat]
  BY <1>1
<1> HIDE DEF move
<1>3. PICK f : IsRecursion(f, Nat, 0, move, m)
  BY <1>1, <1>2, Recursion
<1>4. f \in [0..m -> Nat] /\ f[0] = 0 /\ \A n \in 1..m : f[n] = move[n][f[n - 1]]
  BY <1>3 DEF IsRecursion
<1>5. \A n \in 1..m : f[n - 1] \in Nat /\ f[n] = f[n - 1] + words[n]
  <2> TAKE n \in 1..m
  <2>1. n - 1 \in 0..m /\ f[n - 1] \in Nat
    BY <1>1, <1>4
  <2> QED
    BY <1>4, <2>1 DEF move
<1>6. IsEnd(f)
  <2> DEFINE g == [n \in 0..m |-> IF n = 0 THEN 0 ELSE f[n - 1] + words[n]]
  <2>1. \A n \in 0..m : g[n] = f[n]
    BY <1>1, <1>4, <1>5
  <2>2. g \in [0..m -> Nat]
    <3> SUFFICES ASSUME NEW n \in 0..m PROVE g[n] \in Nat
      OBVIOUS
    <3> QED
      BY <1>4, <2>1
  <2> QED
    BY <1>4, <2>1, <2>2
<1>7. IsEnd(e)
  <2> HIDE DEF IsEnd
  <2> QED
    BY <1>6
<1>8. \A i : ImageEnd(layout, i) = e[i]
  BY DEF ImageEnd, e, IsEnd, m, words
<1> HIDE DEF e
<1>9. e[0] = 0 /\ \A n \in 1..m : e[n] = e[n - 1] + words[n]
  BY <1>1, <1>7
<1>10. \A n \in 0..m : e[n] \in Nat
  <2> DEFINE S == {n \in Nat : n <= m => e[n] \in Nat}
  <2>1. 0 \in S
    BY <1>9
  <2>2. ASSUME NEW n \in Nat, n \in S PROVE n + 1 \in S
    <3>1. SUFFICES ASSUME n + 1 <= m PROVE e[n + 1] \in Nat
      OBVIOUS
    <3>2. n + 1 \in 1..m /\ (n + 1) - 1 = n /\ n <= m
      BY <1>1, <3>1
    <3>3. e[n] \in Nat /\ e[n + 1] = e[n] + words[n + 1] /\ words[n + 1] \in Nat
      BY <1>1, <1>9, <2>2, <3>2
    <3> QED
      BY <3>3
  <2> HIDE DEF S
  <2>3. Nat \subseteq S
    BY <2>1, <2>2, Induction
  <2> QED
    BY <1>1, <2>3 DEF S
<1>11. ASSUME NEW i \in 1..m PROVE ImageEnd(layout, i) = StartOf(layout, i) + layout[i].len
  <2>1. i - 1 \in 0..m /\ e[i - 1] \in Nat
    BY <1>1, <1>10
  <2>2. layout[i].gap \in Nat /\ layout[i].len \in Nat
    BY DEF RomForm, m
  <2>3. StartOf(layout, i) = e[i - 1] + layout[i].gap
    BY <1>8 DEF StartOf
  <2> QED
    BY <1>1, <1>8, <1>9, <2>1, <2>2, <2>3
<1> QED
  BY <1>8, <1>9, <1>10, <1>11 DEF m

(* Images lie one behind the other.                                        *)
LEMMA ImagesAscend ==
  ASSUME NEW layout, RomForm(layout)
  PROVE  /\ \A i \in 1..Len(layout) :
              /\ StartOf(layout, i) \in Nat /\ ImageEnd(layout, i - 1) <= StartOf(layout, i)
              /\ StartOf(layout, i) < ImageEnd(layout, i) /\ ImageEnd(layout, i) <= BlocksOf(layout)
         /\ \A i, j \in 1..Len(layout) : i < j => ImageEnd(layout, i) <= StartOf(layout, j)
<1> DEFINE m == Len(layout)
           E(i) == ImageEnd(layout, i)
           F(i) == StartOf(layout, i)
<1>1. m \in Nat /\ \A i \in 0..m : E(i) \in Nat
  BY EndIs DEF RomForm
<1>2. ASSUME NEW i \in 1..m PROVE F(i) \in Nat /\ E(i - 1) \in Nat /\ E(i - 1) <= F(i) /\ F(i) < E(i) /\ E(i) \in Nat
  <2>1. layout[i].gap \in Nat /\ layout[i].len \in Nat \ {0}
    BY DEF RomForm
  <2>2. i - 1 \in 0..m /\ i \in 0..m
    BY <1>1
  <2>3. F(i) = E(i - 1) + layout[i].gap
    BY DEF StartOf
  <2>4. E(i) = F(i) + layout[i].len
    BY EndIs
  <2>5. E(i - 1) \in Nat /\ E(i) \in Nat
    BY <1>1, <2>2
  <2> HIDE DEF E, F
  <2> QED
    BY <2>1, <2>3, <2>4, <2>5
<1> HIDE DEF E, F, m
<1>3. ASSUME NEW i \in 0..m PROVE \A j \in 0..m : i <= j => E(i) <= E(j)
  <2> DEFINE S == {j \in Nat : j <= m /\ i <= j => E(i) <= E(j)}
  <2>1. 0 \in S
    <3>1. i <= 0 => i = 0 /\ E(0) \in Nat
      BY <1>1
    <3> QED
      BY <3>1
  <2>2. ASSUME NEW j \in Nat, j \in S PROVE j + 1 \in S
    <3>1. SUFFICES ASSUME j + 1 <= m, i <= j + 1 PROVE E(i) <= E(j + 1)
      OBVIOUS
    <3>2. j + 1 \in 1..m /\ (j + 1) - 1 = j /\ j \in 0..m
      BY <1>1, <3>1
    <3>3. E(j) \in Nat /\ E(j + 1) \in Nat /\ E(j) <= E(j + 1) /\ E(i) \in Nat
      <4>1. E(j) <= F(j + 1) /\ F(j + 1) < E(j + 1) /\ F(j + 1) \in Nat /\ E(j) \in Nat /\ E(j + 1) \in Nat
        BY <1>2, <3>2
      <4> QED
        BY <1>1, <4>1
    <3>4. CASE i <= j
      <4>1. E(i) <= E(j)
        BY <2>2, <3>2, <3>4
      <4> QED
        BY <3>3, <4>1
    <3>5. CASE i = j + 1
      BY <3>3, <3>5
    <3> QED
      BY <3>1, <3>4, <3>5
  <2> HIDE DEF S
  <2>3. Nat \subseteq S
    BY <2>1, <2>2, Induction
  <2> QED
    BY <1>1, <2>3 DEF S
<1>4. ASSUME NEW i \in 1..m PROVE F(i) \in Nat /\ E(i - 1) <= F(i) /\ F(i) < E(i) /\ E(i) <= E(m)
  <2>1. i \in 0..m /\ m \in 0..m /\ i <= m
    BY <1>1
  <2> QED
    BY <1>2, <1>3, <2>1
<1>5. ASSUME NEW i \in 1..m, NEW j \in 1..m, i < j PROVE E(i) <= F(j)
  <2>1. i \in 0..m /\ j - 1 \in 0..m /\ i <= j - 1
    BY <1>1, <1>5
  <2>2. E(i) <= E(j - 1) /\ E(j - 1) <= F(j) /\ E(i) \in Nat /\ E(j - 1) \in Nat /\ F(j) \in Nat
    BY <1>1, <1>2, <1>3, <2>1
  <2> QED
    BY <2>2
<1> QED
  BY <1>4, <1>5 DEF E, F, m, BlocksOf

(* No two images begin at the same place, and each is found at its start.  *)
LEMMA ImageAtIs ==
  ASSUME NEW layout, RomForm(layout), NEW i \in 1..Len(layout)
  PROVE  /\ \A j \in 1..Len(layout) : StartOf(layout, i) = StartOf(layout, j) => i = j
         /\ ImageAt(layout, StartOf(layout, i)) = layout[i] /\ HasRomSignature(layout, StartOf(layout, i))
<1>1. ASSUME NEW j \in 1..Len(layout), StartOf(layout, i) = StartOf(layout, j) PROVE i = j
  <2>1. \A x, y \in 1..Len(layout) : x < y => StartOf(layout, x) # StartOf(layout, y)
    <3> SUFFICES ASSUME NEW x \in 1..Len(layout), NEW y \in 1..Len(layout), x < y
                 PROVE  StartOf(layout, x) # StartOf(layout, y)
      OBVIOUS
    <3>1. StartOf(layout, x) < ImageEnd(layout, x) /\ ImageEnd(layout, x) <= StartOf(layout, y)
      BY ImagesAscend
    <3>2. StartOf(layout, x) \in Nat /\ StartOf(layout, y) \in Nat /\ ImageEnd(layout, x) \in Nat
      <4>1. x \in 0..Len(layout)
        BY DEF RomForm
      <4> QED
        BY <4>1, ImagesAscend, EndIs
    <3> QED
      BY <3>1, <3>2
  <2>2. Len(layout) \in Nat
    BY DEF RomForm
  <2> QED
    BY <1>1, <2>1, <2>2
<1>2. (CHOOSE j \in 1..Len(layout) : StartOf(layout, j) = StartOf(layout, i)) = i
  BY <1>1
<1> QED
  BY <1>1, <1>2 DEF ImageAt, HasRomSignature

(* Where the walk is between two images.                                   *)
LEMMA BetweenImages ==
  ASSUME NEW layout, RomForm(layout), NEW k \in 0..Len(layout), NEW b \in Nat, ImageEnd(layout, k) <= b,
         k < Len(layout) => b <= StartOf(layout, k + 1), k = Len(layout) => b = ImageEnd(layout, k)
  PROVE  /\ b < BlocksOf(layout) <=> k < Len(layout)
         /\ b < BlocksOf(layout) => (HasRomSignature(layout, b) <=> b = StartOf(layout, k + 1))
<1>1. Len(layout) \in Nat /\ ImageEnd(layout, k) \in Nat /\ BlocksOf(layout) \in Nat
  BY EndIs DEF RomForm, BlocksOf
<1>2. CASE k = Len(layout)
  BY <1>1, <1>2 DEF BlocksOf
<1>3. CASE k < Len(layout)
  <2> DEFINE n == k + 1
  <2>1. n \in 1..Len(layout) /\ k = n - 1
    BY <1>1, <1>3
  <2>2. StartOf(layout, n) < ImageEnd(layout, n) /\ ImageEnd(layout, n) <= BlocksOf(layout) /\ StartOf(layout, n) \in Nat
        /\ ImageEnd(layout, n) \in Nat
    <3>1. n \in 0..Len(layout)
      BY <2>1
    <3> QED
      BY <2>1, <3>1, ImagesAscend, EndIs
  <2>3. b < BlocksOf(layout)
    BY <1>1, <1>3, <2>2
  <2>4. ASSUME NEW i \in 1..Len(layout), StartOf(layout, i) = b PROVE i = n
    <3>1. CASE i < n
      <4>1. i \in 0..Len(layout) /\ i <= k /\ k <= Len(layout)
        BY <1>1, <2>1, <3>1
      <4>2. StartOf(layout, i) < ImageEnd(layout, i) /\ StartOf(layout, i) \in Nat /\ ImageEnd(layout, i) \in Nat
        BY <4>1, ImagesAscend, EndIs
      <4>3. CASE i = k
        BY <1>1, <2>4, <4>2, <4>3
      <4>4. CASE i < k
        <5>1. k \in 1..Len(layout)
          BY <1>1, <4>1, <4>4
        <5>2. ImageEnd(layout, i) <= StartOf(layout, k) /\ StartOf(layout, k) < ImageEnd(layout, k) /\ StartOf(layout, k) \in Nat
          BY <4>4, <5>1, ImagesAscend
        <5> QED
          BY <1>1, <2>4, <4>2, <5>2
      <4> QED
        BY <4>1, <4>3, <4>4
    <3>2. CASE n < i
      <4>1. ImageEnd(layout, n) <= StartOf(layout, i)
        BY <2>1, <3>2, ImagesAscend
      <4> QED
        BY <1>3, <2>2, <2>4, <4>1
    <3> QED
      BY <1>1, <2>1, <3>1, <3>2
  <2> HIDE DEF n
  <2>5. HasRomSignature(layout, b) <=> b = StartOf(layout, n)
    BY <2>1, <2>4 DEF HasRomSignature
  <2> QED
    BY <1>3, <2>3, <2>5 DEF n
<1> QED
  BY <1>1, <1>2, <1>3

(* The numbers of the command line are numbers.                            *)
LEMMA ToNumberIs ==
  ASSUME NEW digits \in Seq(0..15), NEW base \in {10, 16}, NEW n \in 0..Len(digits)
  PROVE  ToNumber(digits, n, base) \in Nat
<1> DEFINE m == Len(digits)
           move == [k \in 1..m |-> [x \in Nat |-> x * base + digits[k]]]
           IsValue(f) == f = [k \in 0..m |-> IF k = 0 THEN 0 ELSE f[k - 1] * base + digits[k]]
           e == CHOOSE f : IsValue(f)
<1>0. ASSUME NEW x \in Nat, NEW c \in 0..15 PROVE x * base + c \in Nat
  <2>1. CASE base = 10
    BY <2>1
  <2>2. CASE base = 16
    BY <2>2
  <2> QED
    BY <2>1, <2>2
<1>1. m \in Nat /\ \A k \in 1..m : digits[k] \in 0..15
  BY LenProperties
<1>2. \A k \in 1..m : move[k] \in [Nat -> Nat]
  <2>1. ASSUME NEW k \in 1..m, NEW x \in Nat PROVE x * base + digits[k] \in Nat
    BY <1>0, <1>1
  <2> HIDE DEF m
  <2> QED
    BY <2>1
<1> HIDE DEF move, m
<1>3. PICK f : IsRecursion(f, Nat, 0, move, m)
  BY <1>1, <1>2, Recursion
<1>4. f \in [0..m -> Nat] /\ f[0] = 0 /\ \A k \in 1..m : f[k] = move[k][f[k - 1]]
  BY <1>3 DEF IsRecursion
<1>5. \A k \in 1..m : f[k - 1] \in Nat /\ f[k] = f[k - 1] * base + digits[k]
  <2> TAKE k \in 1..m
  <2>1. k - 1 \in 0..m /\ f[k - 1] \in Nat
    BY <1>1, <1>4
  <2> QED
    BY <1>4, <2>1 DEF move
<1>6. IsValue(f)
  <2> DEFINE g == [k \in 0..m |-> IF k = 0 THEN 0 ELSE f[k - 1] * base + digits[k]]
  <2>1. \A k \in 0..m : g[k] = f[k]
    BY <1>1, <1>4, <1>5
  <2>2. g \in [0..m -> Nat]
    <3> SUFFICES ASSUME NEW k \in 0..m PROVE g[k] \in Nat
      OBVIOUS
    <3> QED
      BY <1>4, <2>1
  <2> QED
    BY <1>4, <2>1, <2>2
<1>7. IsValue(e)
  <2> HIDE DEF IsValue
  <2> QED
    BY <1>6
<1>8. ToNumber(digits, n, base) = e[n]
  BY DEF ToNumber, e, IsValue, m
<1> HIDE DEF e
<1>9. e[0] = 0 /\ \A k \in 1..m : e[k] = e[k - 1] * base + digits[k]
  BY <1>1, <1>7
<1>10. \A k \in 0..m : e[k] \in Nat
  <2> DEFINE S == {k \in Nat : k <= m => e[k] \in Nat}
  <2>1. 0 \in S
    BY <1>9
  <2>2. ASSUME NEW k \in Nat, k \in S PROVE k + 1 \in S
    <3>1. SUFFICES ASSUME k + 1 <= m PROVE e[k + 1] \in Nat
      OBVIOUS
    <3>2. k + 1 \in 1..m /\ (k + 1) - 1 = k /\ k <= m
      BY <1>1, <3>1
    <3>3. e[k] \in Nat /\ e[k + 1] = e[k] * base + digits[k + 1] /\ digits[k + 1] \in 0..15
      BY <1>1, <1>9, <2>2, <3>2
    <3>4. e[k] * base + digits[k + 1] \in Nat
      BY <1>0, <3>3
    <3> QED
      BY <3>3, <3>4
  <2> HIDE DEF S
  <2>3. Nat \subseteq S
    BY <2>1, <2>2, Induction
  <2> QED
    BY <1>1, <2>3 DEF S
<1> QED
  BY <1>8, <1>10 DEF m

(* StrDecimalToUintn stops somewhere.                                      *)
LEMMA ConvertedIs ==
  ASSUME NEW digits \in Seq(0..15)
  PROVE  StrHexToUintn(digits) \in Nat /\ StrDecimalToUintn(digits) \in Nat
<1>1. Len(digits) \in Nat /\ Len(digits) \in 0..Len(digits)
  BY LenProperties
<1>2. \E k \in Decimals(digits) : k + 1 \notin Decimals(digits)
  <2> SUFFICES ASSUME \A k \in Decimals(digits) : k + 1 \in Decimals(digits) PROVE FALSE
    OBVIOUS
  <2>1. 0 \in Decimals(digits)
    BY <1>1 DEF Decimals
  <2>2. Nat \subseteq Decimals(digits)
    BY <2>1, Induction
  <2>3. Len(digits) + 1 \in Decimals(digits)
    BY <1>1, <2>2
  <2> QED
    BY <1>1, <2>3 DEF Decimals
<1> DEFINE n == CHOOSE k \in Decimals(digits) : k + 1 \notin Decimals(digits)
<1>3. n \in 0..Len(digits)
  BY <1>2 DEF Decimals
<1>4. StrDecimalToUintn(digits) = ToNumber(digits, n, 10)
  BY DEF StrDecimalToUintn
<1> HIDE DEF n
<1> QED
  BY <1>1, <1>3, <1>4, ToNumberIs DEF StrHexToUintn

(* A device has the numbers asked for if it has those of the command line. *)
LEMMA AskedIsNamed ==
  ASSUME pciDevices \in PciPlatforms, command \in OpromCommands, Accepted, ~DumpsAll,
         command.flag = "f" => Unambiguous, NEW d \in 1..Len(pciDevices)
  PROVE  AskedFor(d) <=> Named(d)
<1> DEFINE args == command.args
           loc == pciDevices[d].location
           ids == pciDevices[d].ids
           any3 == <<AnyNumber, AnyNumber, AnyNumber>>
           any2 == <<AnyNumber, AnyNumber>>
<1>1. args \in Seq(Seq(0..15)) /\ loc \in Seq(Nat) /\ ids \in Seq(Nat) /\ Len(loc) = 3 /\ Len(ids) = 2
  BY OpromAssumption
<1>2. command.flag \in {"f", "i"}
  BY DEF DumpsAll
<1>3. Len(args) \in Nat /\ \A k \in 1..Len(args) : args[k] \in Seq(0..15)
  BY <1>1, LenProperties
<1>4. \A k \in 1..Len(args) : StrHexToUintn(args[k]) \in Nat /\ StrDecimalToUintn(args[k]) \in Nat
  BY <1>3, ConvertedIs
<1>5. Matches(any3, loc) /\ Matches(any2, ids)
  BY DEF Matches, AnyNumber
<1>6. CASE command.flag = "f"
  <2>1. Len(args) = 3
    BY <1>6 DEF Accepted, Limits
  <2>2. Wanted.location = [k \in 1..3 |-> StrDecimalToUintn(args[k])] /\ Wanted.ids = any2
    BY <1>6, <2>1 DEF Wanted, Numbers
  <2>3. \A k \in 1..3 : StrDecimalToUintn(args[k]) = StrHexToUintn(args[k]) /\ StrHexToUintn(args[k]) \in Nat
    BY <1>4, <1>6, <2>1 DEF Unambiguous
  <2> DEFINE w == [k \in 1..3 |-> StrDecimalToUintn(args[k])]
  <2>4. Len(w) = 3
    OBVIOUS
  <2>5. \A k \in 1..3 : w[k] \in Nat /\ w[k] = StrHexToUintn(args[k])
    BY <2>3
  <2> HIDE DEF w
  <2>6. Matches(w, loc) <=> \A k \in 1..3 : w[k] = loc[k]
    BY <2>4, <2>5 DEF Matches, AnyNumber
  <2>7. Named(d) <=> \A k \in 1..3 : w[k] = loc[k]
    BY <1>6, <2>5 DEF Named
  <2> QED
    BY <1>5, <2>2, <2>6, <2>7 DEF AskedFor, w
<1>7. CASE command.flag = "i"
  <2>1. Len(args) = 2
    BY <1>7 DEF Accepted, Limits
  <2>2. Wanted.ids = [k \in 1..2 |-> StrHexToUintn(args[k])] /\ Wanted.location = any3
    BY <1>7, <2>1 DEF Wanted, Numbers
  <2>3. \A k \in 1..2 : StrHexToUintn(args[k]) \in Nat
    BY <1>4, <2>1
  <2> DEFINE w == [k \in 1..2 |-> StrHexToUintn(args[k])]
  <2>4. Len(w) = 2
    OBVIOUS
  <2>5. \A k \in 1..2 : w[k] \in Nat /\ w[k] = StrHexToUintn(args[k])
    BY <2>3
  <2> HIDE DEF w
  <2>6. Matches(w, ids) <=> \A k \in 1..2 : w[k] = ids[k]
    BY <2>4, <2>5 DEF Matches, AnyNumber
  <2>7. Named(d) <=> \A k \in 1..2 : w[k] = ids[k]
    BY <1>7, <2>5 DEF Named
  <2> QED
    BY <1>5, <2>2, <2>6, <2>7 DEF AskedFor, w
<1> QED
  BY <1>2, <1>6, <1>7

(* Sequence r is s with x behind it.                                       *)
Longer(r, s, x) ==
  /\ Len(s) \in Nat /\ Len(r) = Len(s) + 1
  /\ \A n \in 1..Len(s) : r[n] = s[n]
  /\ r[Len(s) + 1] = x

(* Append makes a sequence longer.                                         *)
LEMMA AppendLonger ==
  ASSUME NEW T, NEW s \in Seq(T), NEW x \in T
  PROVE  Longer(Append(s, x), s, x)
<1>1. Len(s) \in Nat /\ Len(Append(s, x)) = Len(s) + 1 /\ \A n \in 1..Len(s) : Append(s, x)[n] = s[n]
  BY LenProperties, AppendProperties
<1>2. Append(s, x)[Len(s) + 1] = x
  BY AppendProperties
<1> QED
  BY <1>1, <1>2 DEF Longer

(* The images shown of a device, when one more of it is shown.             *)
LEMMA RunAppends ==
  ASSUME NEW s, NEW r, NEW layout, NEW d, NEW b, NEW k \in Nat, k <= Len(s), Longer(r, s, <<d, b>>),
         RunOf(s, layout, d, Len(s) - k, k), b = StartOf(layout, k + 1), k > 0 => ~layout[k].last
  PROVE  Len(r) - (k + 1) = Len(s) - k /\ RunOf(r, layout, d, Len(s) - k, k + 1)
<1> DEFINE a == Len(s) - k
           m == k + 1
<1>1. Len(s) \in Nat /\ a \in Nat /\ a + k = Len(s) /\ m \in Nat /\ m = k + 1 /\ a + m = Len(s) + 1
  BY DEF Longer
<1>2. Len(r) = Len(s) + 1 /\ (\A n \in 1..Len(s) : r[n] = s[n]) /\ r[Len(s) + 1][1] = d /\ r[Len(s) + 1][2] = b
  BY DEF Longer
<1>3. /\ \A n \in 1..Len(s) : s[n][1] = d <=> n \in a + 1..a + k
      /\ \A j \in 1..k : s[a + j][2] = StartOf(layout, j)
      /\ \A j \in 1..k - 1 : ~layout[j].last
  BY DEF RunOf
<1>0. b = StartOf(layout, m)
  OBVIOUS
<1> HIDE DEF a, m
<1>4. ASSUME NEW n \in 1..Len(r) PROVE r[n][1] = d <=> n \in a + 1..a + m
  <2>1. CASE n \in 1..Len(s)
    <3>1. n \in a + 1..a + k <=> n \in a + 1..a + m
      BY <1>1, <2>1
    <3>2. r[n][1] = d <=> n \in a + 1..a + k
      BY <1>2, <1>3, <2>1
    <3> QED
      BY <3>1, <3>2
  <2>2. CASE n = Len(s) + 1
    <3>1. n \in a + 1..a + m
      BY <1>1, <2>2
    <3> QED
      BY <1>2, <2>2, <3>1
  <2> QED
    BY <1>1, <1>2, <2>1, <2>2
<1>5. ASSUME NEW j \in 1..m PROVE r[a + j][2] = StartOf(layout, j)
  <2>1. CASE j \in 1..k
    <3>1. a + j \in 1..Len(s)
      BY <1>1, <2>1
    <3> QED
      BY <1>2, <1>3, <2>1, <3>1
  <2>2. CASE j = m
    <3>1. a + j = Len(s) + 1
      BY <1>1, <2>2
    <3> QED
      BY <1>0, <1>2, <2>2, <3>1
  <2> QED
    BY <1>1, <2>1, <2>2
<1>6. ASSUME NEW j \in 1..m - 1 PROVE ~layout[j].last
  <2>1. j \in 1..k - 1 \/ (j = k /\ k > 0)
    BY <1>1
  <2> QED
    BY <1>3, <2>1
<1>7. Len(r) - m = a /\ a + m <= Len(r)
  BY <1>1, <1>2
<1>8. RunOf(r, layout, d, a, m)
  BY <1>4, <1>5, <1>6, <1>7 DEF RunOf
<1> QED
  BY <1>7, <1>8 DEF a, m

(* The images shown of another device stay the same.                       *)
LEMMA RunElsewhere ==
  ASSUME NEW s, NEW r, NEW layout, NEW d, NEW b, NEW c, c # d, Longer(r, s, <<d, b>>),
         NEW a \in Nat, NEW k \in Nat, RunOf(s, layout, c, a, k)
  PROVE  RunOf(r, layout, c, a, k)
<1>1. Len(s) \in Nat /\ a + k <= Len(s)
  BY DEF RunOf, Longer
<1>2. Len(r) = Len(s) + 1 /\ (\A n \in 1..Len(s) : r[n] = s[n]) /\ r[Len(s) + 1][1] = d
  BY DEF Longer
<1>3. /\ \A n \in 1..Len(s) : s[n][1] = c <=> n \in a + 1..a + k
      /\ \A j \in 1..k : s[a + j][2] = StartOf(layout, j)
      /\ \A j \in 1..k - 1 : ~layout[j].last
  BY DEF RunOf
<1>4. ASSUME NEW n \in 1..Len(r) PROVE r[n][1] = c <=> n \in a + 1..a + k
  <2>1. CASE n \in 1..Len(s)
    BY <1>2, <1>3, <2>1
  <2>2. CASE n = Len(s) + 1
    <3>1. n \notin a + 1..a + k
      BY <1>1, <2>2
    <3> QED
      BY <1>2, <2>2, <3>1
  <2> QED
    BY <1>1, <1>2, <2>1, <2>2
<1>5. ASSUME NEW j \in 1..k PROVE r[a + j][2] = StartOf(layout, j)
  <2>1. a + j \in 1..Len(s)
    BY <1>1
  <2> QED
    BY <1>2, <1>3, <2>1
<1>6. a + k <= Len(r)
  BY <1>1, <1>2
<1> QED
  BY <1>3, <1>4, <1>5, <1>6 DEF RunOf

(* Nothing is shown of a device that no entry is about.                    *)
LEMMA RunEmpty ==
  ASSUME NEW s \in Seq(Nat \X Nat), NEW layout, NEW d, NEW a \in Nat, NEW k \in Nat, RunOf(s, layout, d, a, k),
         \A n \in 1..Len(s) : s[n][1] # d
  PROVE  k = 0
<1> SUFFICES ASSUME k # 0 PROVE FALSE
  OBVIOUS
<1>1. Len(s) \in Nat /\ a + k <= Len(s)
  BY LenProperties DEF RunOf
<1>2. a + 1 \in 1..Len(s) /\ a + 1 \in a + 1..a + k
  BY <1>1
<1> QED
  BY <1>2 DEF RunOf

(* The entries about a device, and those of one of its images.             *)
ShownOf(s, d) == {n \in 1..Len(s) : s[n][1] = d}
PlacesOf(s, layout, d, j) == {n \in ShownOf(s, d) : s[n][2] = StartOf(layout, j)}
InOrder(s, layout, d) ==
  \A n \in ShownOf(s, d) : \E j \in ChainOf(layout) :
    /\ PlacesOf(s, layout, d, j) = {n}
    /\ IF j = 1 THEN n - 1 \notin ShownOf(s, d) ELSE PlacesOf(s, layout, d, j - 1) = {n - 1}
AllShown(s, layout, d) == \A j \in ChainOf(layout) : PlacesOf(s, layout, d, j) # {}

(* A run of all images of the chain is what RomImagesExact asks for.       *)
LEMMA RunIsExact ==
  ASSUME NEW s, Len(s) \in Nat, NEW layout, RomForm(layout), NEW d, NEW a \in Nat, NEW k \in 0..Len(layout),
         RunOf(s, layout, d, a, k)
  PROVE  InOrder(s, layout, d) /\ (ShownOf(s, d) # {} /\ CompleteRun(layout, k) => AllShown(s, layout, d))
<1> DEFINE shown == ShownOf(s, d)
           places(j) == PlacesOf(s, layout, d, j)
<1>1. Len(s) \in Nat /\ a + k <= Len(s) /\ Len(layout) \in Nat /\ k \in Nat
  BY DEF RunOf, RomForm
<1>2. shown = a + 1..a + k
  <2>1. \A n \in 1..Len(s) : s[n][1] = d <=> n \in a + 1..a + k
    BY DEF RunOf
  <2>2. \A n \in a + 1..a + k : n \in 1..Len(s)
    BY <1>1
  <2> QED
    BY <2>1, <2>2 DEF ShownOf
<1>3. \A j \in 1..k : s[a + j][2] = StartOf(layout, j)
  BY DEF RunOf
<1> HIDE DEF shown
<1>4. ASSUME NEW j \in 1..k PROVE places(j) = {a + j}
  <2>0. places(j) = {n \in shown : s[n][2] = StartOf(layout, j)}
    BY DEF PlacesOf, shown
  <2>1. a + j \in shown /\ s[a + j][2] = StartOf(layout, j)
    BY <1>1, <1>2, <1>3
  <2>2. ASSUME NEW n \in shown, s[n][2] = StartOf(layout, j) PROVE n = a + j
    <3> DEFINE i == n - a
    <3>1. i \in 1..k /\ n = a + i
      BY <1>1, <1>2
    <3> HIDE DEF i
    <3>2. StartOf(layout, i) = StartOf(layout, j) /\ i \in 1..Len(layout) /\ j \in 1..Len(layout)
      BY <1>1, <1>3, <2>2, <3>1
    <3>3. i = j
      BY <3>2, ImageAtIs
    <3> QED
      BY <3>1, <3>3
  <2> QED
    BY <2>0, <2>1, <2>2
<1> HIDE DEF places
<1>5. ASSUME NEW n \in shown
      PROVE  \E j \in ChainOf(layout) : places(j) = {n} /\ (IF j = 1 THEN n - 1 \notin shown ELSE places(j - 1) = {n - 1})
  <2> DEFINE j == n - a
  <2>1. j \in 1..k /\ n = a + j /\ j \in 1..Len(layout)
    BY <1>1, <1>2
  <2> HIDE DEF j
  <2>2. j \in ChainOf(layout)
    <3>1. \A i \in 1..j - 1 : i \in 1..k - 1
      BY <1>1, <2>1
    <3> QED
      BY <2>1, <3>1 DEF ChainOf, RunOf
  <2>3. places(j) = {n}
    BY <1>4, <2>1
  <2>4. CASE j = 1
    <3>1. n - 1 \notin shown
      BY <1>1, <1>2, <2>1, <2>4
    <3> QED
      BY <2>2, <2>3, <2>4, <3>1
  <2>5. CASE j # 1
    <3>1. j - 1 \in 1..k /\ a + (j - 1) = n - 1
      BY <1>1, <2>1, <2>5
    <3>2. places(j - 1) = {n - 1}
      BY <1>4, <3>1
    <3> QED
      BY <2>2, <2>3, <2>5, <3>2
  <2> QED
    BY <2>4, <2>5
<1>6. ASSUME shown # {}, CompleteRun(layout, k), NEW j \in ChainOf(layout) PROVE places(j) # {}
  <2>1. k > 0
    BY <1>1, <1>2, <1>6
  <2>2. j \in 1..Len(layout) /\ \A i \in 1..j - 1 : ~layout[i].last
    BY DEF ChainOf
  <2>3. j <= k
    <3>1. CASE k = Len(layout)
      BY <2>2, <3>1
    <3>2. CASE layout[k].last
      <4>1. ~(k \in 1..j - 1)
        BY <2>2, <3>2
      <4> QED
        BY <1>1, <2>1, <2>2, <4>1
    <3> QED
      BY <1>6, <2>1, <3>1, <3>2 DEF CompleteRun
  <2>4. j \in 1..k
    BY <1>1, <2>2, <2>3
  <2> QED
    BY <1>4, <2>4
<1> QED
  BY <1>5, <1>6 DEF shown, places, InOrder, AllShown

(* A device of which no image is shown.                                    *)
LEMMA RunNone ==
  ASSUME NEW s, Len(s) \in Nat, NEW layout, NEW d, \A n \in 1..Len(s) : s[n][1] # d, NEW a \in 0..Len(s)
  PROVE  RunOf(s, layout, d, a, 0)
  BY DEF RunOf

(* No two machines share a file, and none has that of the whole ROM or of  *)
(* the legacy image.                                                       *)
LEMMA FileNamesDiffer ==
  ASSUME NEW m \in MachineNames, NEW n \in MachineNames
  PROVE  /\ OpromFileName(m) # AllFile /\ OpromFileName(m) # LegacyFile /\ AllFile # LegacyFile
         /\ OpromFileName(m) = OpromFileName(n) => m = n
<1>1. /\ OpromFileName("IA32") = "PciOpromIA32.ef" /\ OpromFileName("AARCH64") = "PciOpromAARCH64"
      /\ OpromFileName("X64") = "PciOpromX64.efi" /\ OpromFileName("EBC") = "PciOpromEBC.efi"
      /\ OpromFileName("ARM") = "PciOpromARM.efi" /\ OpromFileName("<Unknown>") = "PciOprom<Unknow"
  BY DEF OpromFileName
<1>2. \A x \in {m, n} : x = "IA32" \/ x = "AARCH64" \/ x = "X64" \/ x = "EBC" \/ x = "ARM" \/ x = "<Unknown>"
  BY DEF MachineNames
<1> QED
  BY <1>1, <1>2 DEF AllFile, LegacyFile

(* A file that is written holds what was written; the others do not change. *)
LEMMA SavePciOpromToFileIs ==
  ASSUME NEW name, NEW data, SavePciOpromToFile(name, data), romIoFailed' = FALSE
  PROVE  /\ romIoFailed = FALSE /\ HoldsFile(romFiles', name, data)
         /\ \A other, was : other # name /\ HoldsFile(romFiles, other, was) => HoldsFile(romFiles', other, was)
<1>1. romFiles' = [n \in DOMAIN romFiles \cup {name} |-> IF n = name THEN data ELSE romFiles[n]] /\ UNCHANGED romIoFailed
  BY DEF SavePciOpromToFile
<1> QED
  BY <1>1 DEF HoldsFile

(* SaveImage keeps the files right for one more image.                     *)
LEMMA SavedGrows ==
  ASSUME NEW layout, RomForm(layout), NEW k \in Nat, k < Len(layout), romEntry = StartOf(layout, k + 1),
         ~DumpsAll, romIoFailed' = FALSE, SaveImage(layout[k + 1]), romIoFailed = FALSE => SavedImages(romFiles, layout, k)
  PROVE  SavedImages(romFiles', layout, k + 1)
<1> DEFINE m == k + 1
           image == layout[m]
<1>0. SUFFICES SavedImages(romFiles', layout, m)
  OBVIOUS
<1>1. m \in 1..Len(layout) /\ m = k + 1 /\ m \in Nat /\ Len(layout) \in Nat
  BY DEF RomForm
<1>2. \A i \in 1..m : layout[i].machine \in MachineNames
  BY <1>1 DEF RomForm
<1>3. SaveImage(image) /\ romEntry = StartOf(layout, m)
  OBVIOUS
<1>4. \A i \in 1..m : i \in 1..k \/ i = m
  BY <1>1
<1>5. \A i \in 1..k : m \in i + 1..m /\ \A j \in i + 1..k : j \in i + 1..m
  BY <1>1
<1>6. ASSUME romIoFailed = FALSE
      PROVE  /\ HoldsFile(romFiles, AllFile, [from |-> 0, blocks |-> BlocksOf(layout), unpacked |-> FALSE])
             /\ \A i \in 1..k : layout[i].code = "LEGACY" /\ (\A j \in i + 1..m : layout[j].code # "LEGACY") =>
                  image.code # "LEGACY" /\ HoldsFile(romFiles, LegacyFile, Content(layout, i))
             /\ \A i \in 1..k :
                  layout[i].code = "EFI" /\ (\A j \in i + 1..m : layout[j].code # "EFI" \/ layout[j].machine # layout[i].machine) =>
                    /\ image.code # "EFI" \/ image.machine # layout[i].machine
                    /\ HoldsFile(romFiles, OpromFileName(layout[i].machine), Content(layout, i))
  <2>1. SavedImages(romFiles, layout, k)
    BY <1>6
  <2> HIDE DEF m
  <2> QED
    BY <1>5, <2>1 DEF SavedImages
<1> HIDE DEF m
<1>7. CASE image.code \notin {"LEGACY", "EFI"}
  <2>1. romFiles' = romFiles /\ romIoFailed = FALSE
    BY <1>3, <1>7 DEF SaveImage
  <2> QED
    BY <1>4, <1>6, <1>7, <2>1 DEF SavedImages
<1>8. CASE image.code = "LEGACY"
  <2>1. SavePciOpromToFile(LegacyFile, [from |-> romEntry, blocks |-> image.len, unpacked |-> FALSE])
    BY <1>3, <1>8 DEF SaveImage, LegacyFile
  <2>2. Content(layout, m) = [from |-> romEntry, blocks |-> image.len, unpacked |-> FALSE]
    BY <1>3, <1>8 DEF Content
  <2>3. romIoFailed = FALSE /\ HoldsFile(romFiles', LegacyFile, Content(layout, m))
        /\ \A other, was : other # LegacyFile /\ HoldsFile(romFiles, other, was) => HoldsFile(romFiles', other, was)
    BY <2>1, <2>2, SavePciOpromToFileIs
  <2>4. AllFile # LegacyFile /\ \A i \in 1..m : OpromFileName(layout[i].machine) # LegacyFile
    BY <1>1, <1>2, FileNamesDiffer
  <2>5. HoldsFile(romFiles', AllFile, [from |-> 0, blocks |-> BlocksOf(layout), unpacked |-> FALSE])
    BY <1>6, <2>3, <2>4
  <2>6. ASSUME NEW i \in 1..m, layout[i].code = "LEGACY", \A j \in i + 1..m : layout[j].code # "LEGACY"
        PROVE  HoldsFile(romFiles', LegacyFile, Content(layout, i))
    BY <1>4, <1>6, <1>8, <2>3, <2>6
  <2>7. ASSUME NEW i \in 1..m, layout[i].code = "EFI",
               \A j \in i + 1..m : layout[j].code # "EFI" \/ layout[j].machine # layout[i].machine
        PROVE  HoldsFile(romFiles', OpromFileName(layout[i].machine), Content(layout, i))
    <3>1. i \in 1..k
      BY <1>4, <1>8, <2>7
    <3> QED
      BY <1>6, <2>3, <2>4, <2>7, <3>1
  <2> QED
    BY <2>5, <2>6, <2>7 DEF SavedImages
<1>9. CASE image.code = "EFI"
  <2> DEFINE name == OpromFileName(image.machine)
  <2>1. SavePciOpromToFile(name, [from |-> romEntry, blocks |-> image.init, unpacked |-> image.compressed])
    BY <1>3, <1>9 DEF SaveImage
  <2>2. Content(layout, m) = [from |-> romEntry, blocks |-> image.init, unpacked |-> image.compressed]
    <3>1. image.compressed \in BOOLEAN
      BY <1>1 DEF RomForm
    <3>2. (image.code = "EFI" /\ image.compressed) = image.compressed
      BY <1>9, <3>1
    <3> QED
      BY <1>3, <1>9, <3>2 DEF Content
  <2>3. romIoFailed = FALSE /\ HoldsFile(romFiles', name, Content(layout, m))
        /\ \A other, was : other # name /\ HoldsFile(romFiles, other, was) => HoldsFile(romFiles', other, was)
    BY <2>1, <2>2, SavePciOpromToFileIs
  <2>4. m \in 1..m
    BY <1>1
  <2>5. /\ AllFile # name /\ LegacyFile # name
        /\ \A i \in 1..m : layout[i].machine # image.machine => OpromFileName(layout[i].machine) # name
    BY <1>2, <2>4, FileNamesDiffer
  <2> HIDE DEF name
  <2>6. HoldsFile(romFiles', AllFile, [from |-> 0, blocks |-> BlocksOf(layout), unpacked |-> FALSE])
    BY <1>6, <2>3, <2>5
  <2>7. ASSUME NEW i \in 1..m, layout[i].code = "LEGACY", \A j \in i + 1..m : layout[j].code # "LEGACY"
        PROVE  HoldsFile(romFiles', LegacyFile, Content(layout, i))
    <3>1. i \in 1..k
      BY <1>4, <1>9, <2>7
    <3> QED
      BY <1>6, <2>3, <2>5, <2>7, <3>1
  <2>8. ASSUME NEW i \in 1..m, layout[i].code = "EFI",
               \A j \in i + 1..m : layout[j].code # "EFI" \/ layout[j].machine # layout[i].machine
        PROVE  HoldsFile(romFiles', OpromFileName(layout[i].machine), Content(layout, i))
    <3>1. CASE i \in 1..k
      <4>1. /\ image.machine # layout[i].machine
            /\ HoldsFile(romFiles, OpromFileName(layout[i].machine), Content(layout, i))
        BY <1>6, <1>9, <2>3, <2>8, <3>1
      <4> QED
        BY <2>3, <2>5, <4>1
    <3>2. CASE i = m
      BY <2>3, <3>2 DEF name
    <3> QED
      BY <1>4, <3>1, <3>2
  <2> QED
    BY <2>6, <2>7, <2>8 DEF SavedImages
<1> QED
  BY <1>7, <1>8, <1>9

(* The last legacy image and the last EFI image of every machine.          *)
LEMMA SavedIsRight ==
  ASSUME NEW layout, RomForm(layout), NEW k \in 0..Len(layout), ChainOf(layout) = 1..k, NEW files, SavedImages(files, layout, k)
  PROVE  /\ files[AllFile] = [from |-> 0, blocks |-> BlocksOf(layout), unpacked |-> FALSE]
         /\ \A i \in LastOf(layout, LegacyImages(layout)) : files[LegacyFile] = Content(layout, i)
         /\ \A m \in MachineNames : \A i \in LastOf(layout, EfiImages(layout, m)) :
              \E n \in DOMAIN files : files[n] = Content(layout, i)
<1>1. Len(layout) \in Nat /\ k \in Nat /\ \A j \in 1..k : j \in 1..Len(layout)
  BY DEF RomForm
<1>2. ASSUME NEW S, NEW i \in LastOf(layout, S) PROVE i \in 1..k /\ i \in S /\ \A j \in i + 1..k : j \notin S
  BY <1>1 DEF LastOf
<1>3. ASSUME NEW i \in LastOf(layout, LegacyImages(layout)) PROVE HoldsFile(files, LegacyFile, Content(layout, i))
  <2>1. layout[i].code = "LEGACY" /\ i \in 1..k /\ \A j \in i + 1..k : layout[j].code # "LEGACY"
    <3>1. i \in 1..k /\ i \in LegacyImages(layout) /\ \A j \in i + 1..k : j \notin LegacyImages(layout)
      BY <1>2
    <3>2. \A j \in i + 1..k : j \in 1..Len(layout)
      BY <1>1, <3>1
    <3> QED
      BY <3>1, <3>2 DEF LegacyImages
  <2> QED
    BY <2>1 DEF SavedImages
<1>4. ASSUME NEW m \in MachineNames, NEW i \in LastOf(layout, EfiImages(layout, m))
      PROVE  HoldsFile(files, OpromFileName(m), Content(layout, i))
  <2>1. /\ layout[i].code = "EFI" /\ layout[i].machine = m /\ i \in 1..k
        /\ \A j \in i + 1..k : layout[j].code # "EFI" \/ layout[j].machine # m
    <3>1. i \in 1..k /\ i \in EfiImages(layout, m) /\ \A j \in i + 1..k : j \notin EfiImages(layout, m)
      BY <1>2
    <3>2. \A j \in i + 1..k : j \in 1..Len(layout)
      BY <1>1, <3>1
    <3> QED
      BY <3>1, <3>2 DEF EfiImages
  <2> QED
    BY <2>1 DEF SavedImages
<1>5. HoldsFile(files, AllFile, [from |-> 0, blocks |-> BlocksOf(layout), unpacked |-> FALSE])
  BY DEF SavedImages
<1> QED
  BY <1>3, <1>4, <1>5 DEF HoldsFile

(* A run that is complete shows the chain.                                 *)
LEMMA CompleteIsChain ==
  ASSUME NEW layout, RomForm(layout), NEW k \in 0..Len(layout), k = Len(layout) \/ (k > 0 /\ layout[k].last),
         \A j \in 1..k - 1 : ~layout[j].last
  PROVE  ChainOf(layout) = 1..k
<1>1. Len(layout) \in Nat
  BY DEF RomForm
<1>2. ASSUME NEW i \in 1..k PROVE i \in ChainOf(layout)
  <2>1. i \in 1..Len(layout) /\ \A j \in 1..i - 1 : j \in 1..k - 1
    BY <1>1
  <2> QED
    BY <2>1 DEF ChainOf
<1>3. ASSUME NEW i \in ChainOf(layout) PROVE i \in 1..k
  <2>1. i \in 1..Len(layout) /\ \A j \in 1..i - 1 : ~layout[j].last
    BY DEF ChainOf
  <2>2. k > 0 => k \in 1..i - 1 \/ i <= k
    BY <1>1, <2>1
  <2> QED
    BY <1>1, <2>1, <2>2
<1> QED
  BY <1>2, <1>3

(* What the values of the variables say.                                   *)
LEMMA PlaceFacts ==
  ASSUME OpromPlaceInv
  PROVE  /\ Len(pciDevices) \in Nat /\ device \in Nat /\ device >= 1 /\ device <= Len(pciDevices) + 1 /\ Len(oproms) \in Nat
         /\ \A d \in 1..Len(pciDevices) : RomForm(LayoutOf(d)) /\ Len(LayoutOf(d)) \in Nat
         /\ Layout = LayoutOf(device)
         /\ rpc = "images" => device \in 1..Len(pciDevices) /\ RomForm(Layout) /\ Len(Layout) \in Nat
<1>1. Len(pciDevices) \in Nat /\ \A d \in 1..Len(pciDevices) : RomForm(LayoutOf(d))
  BY OpromAssumption DEF OpromPlaceInv, LayoutOf
<1>2. \A d \in 1..Len(pciDevices) : Len(LayoutOf(d)) \in Nat
  BY <1>1 DEF RomForm
<1>3. Len(oproms) \in Nat
  BY LenProperties DEF OpromPlaceInv
<1>4. device \in Nat /\ device >= 1 /\ device <= Len(pciDevices) + 1 /\ (rpc = "images" => device <= Len(pciDevices))
  BY <1>1 DEF OpromPlaceInv
<1> QED
  BY <1>1, <1>2, <1>3, <1>4 DEF Layout, LayoutOf

(* What a step of the walk leaves as it was.                               *)
SameRun == UNCHANGED <<pciDevices, command>>

(* What does not change with the platform and the command line.            *)
LEMMA SameRunKeeps ==
  ASSUME SameRun
  PROVE  /\ Accepted' = Accepted /\ DumpsAll' = DumpsAll
         /\ \A d : LayoutOf(d)' = LayoutOf(d) /\ AskedFor(d)' = AskedFor(d)
         /\ device' = device => Layout' = Layout
<1>1. pciDevices' = pciDevices /\ command' = command
  BY DEF SameRun
<1>2. Numbers' = Numbers
  BY <1>1 DEF Numbers
<1> QED
  BY <1>1, <1>2 DEF Accepted, DumpsAll, AskedFor, LayoutOf, Wanted, Layout, SameRun

(* The devices done, when the turn is the next one's or the run ends.      *)
LEMMA RunsClose ==
  ASSUME OpromPlaceInv, SameRun, Len(oproms') \in Nat, rpc' # "start",
         NEW last \in Nat, device' > last \/ (device' >= last /\ rpc' \notin {"start", "devices"}),
         \A n \in 1..Len(oproms') : oproms'[n][1] \in Nat /\ oproms'[n][1] <= last,
         \A d \in 1..Len(pciDevices) : d <= last =>
           \E a \in 0..Len(oproms'), k \in 0..Len(LayoutOf(d)) : RunOf(oproms', LayoutOf(d), d, a, k) /\ CompleteRun(LayoutOf(d), k),
         device' \in Nat
  PROVE  OpromRunsInv'
<1>1. ASSUME NEW n \in 1..Len(oproms')
      PROVE  oproms'[n][1] <= device' /\ (rpc' \in {"start", "devices"} => oproms'[n][1] < device')
  OBVIOUS
<1>2. ASSUME NEW d \in 1..Len(pciDevices)
      PROVE  \E a \in 0..Len(oproms'), k \in 0..Len(LayoutOf(d)) :
               RunOf(oproms', LayoutOf(d), d, a, k) /\ (d < device' \/ rpc' = "done" => CompleteRun(LayoutOf(d), k))
  <2>1. CASE d <= last
    BY <2>1
  <2>2. CASE d > last
    <3>1. \A n \in 1..Len(oproms') : oproms'[n][1] # d
      BY <2>2
    <3>2. RunOf(oproms', LayoutOf(d), d, 0, 0)
      BY <3>1, RunNone
    <3>3. CompleteRun(LayoutOf(d), 0) /\ 0 \in 0..Len(oproms') /\ 0 \in 0..Len(LayoutOf(d))
      BY PlaceFacts DEF CompleteRun
    <3> QED
      BY <3>2, <3>3
  <2> QED
    BY <2>1, <2>2
<1>3. pciDevices' = pciDevices /\ \A d : LayoutOf(d)' = LayoutOf(d)
  BY SameRunKeeps DEF SameRun
<1> QED
  BY <1>1, <1>2, <1>3 DEF OpromRunsInv

(* The end of a device, or of the run.                                     *)
LEMMA AfterDeviceKeeps ==
  ASSUME OpromPlaceInv, OpromDeviceInv, SameRun, AfterDevice, device <= Len(pciDevices), rpc \in {"devices", "images"},
         found' \in BOOLEAN, found' /\ ~DumpsAll => AskedFor(device), romEntry' \in Nat, oproms' \in Seq(Nat \X Nat),
         \A n \in 1..Len(oproms') : oproms'[n][1] <= device,
         \A d \in 1..Len(pciDevices) : d <= device =>
           \E a \in 0..Len(oproms'), k \in 0..Len(LayoutOf(d)) : RunOf(oproms', LayoutOf(d), d, a, k) /\ CompleteRun(LayoutOf(d), k),
         romIoFailed' \in BOOLEAN, DumpsAll => romFiles' = <<>>,
         ~DumpsAll /\ ~romIoFailed' /\ Layout # <<>> =>
           \E k \in 0..Len(Layout) : ChainOf(Layout) = 1..k /\ SavedImages(romFiles', Layout, k)
  PROVE  OpromInv'
<1>1. /\ pciDevices' = pciDevices /\ command' = command /\ Accepted' = Accepted /\ DumpsAll' = DumpsAll
      /\ \A d : AskedFor(d)' = AskedFor(d)
      /\ device' = device => Layout' = Layout
  BY SameRunKeeps DEF SameRun
<1>2. /\ device \in Nat /\ device >= 1 /\ Len(pciDevices) \in Nat
  BY PlaceFacts
<1>3. \/ DumpsAll /\ device' = device + 1 /\ rpc' = "devices"
      \/ ~DumpsAll /\ device' = device /\ rpc' = "done"
  BY DEF AfterDevice
<1>4. OpromPlaceInv'
  <2>1. device' \in 1..Len(pciDevices) + 1
    BY <1>2, <1>3
  <2>2. rpc' \in {"devices", "done"}
    BY <1>3
  <2> QED
    BY <1>1, <2>1, <2>2 DEF OpromPlaceInv
<1>5. Accepted
  BY DEF OpromDeviceInv
<1>6. OpromDeviceInv'
  <2>1. CASE DumpsAll
    BY <1>1, <1>3, <1>5, <2>1 DEF OpromDeviceInv
  <2>2. CASE ~DumpsAll
    BY <1>1, <1>3, <1>5, <2>2 DEF OpromDeviceInv
  <2> QED
    BY <2>1, <2>2
<1>7. OpromRunsInv'
  <2>1. Len(oproms') \in Nat /\ \A n \in 1..Len(oproms') : oproms'[n][1] \in Nat /\ oproms'[n][1] <= device
    <3>1. \A n \in 1..Len(oproms') : oproms'[n] \in Nat \X Nat
      OBVIOUS
    <3> QED
      BY <3>1, LenProperties
  <2>2. rpc' # "start" /\ device' \in Nat /\ (device' > device \/ (device' >= device /\ rpc' \notin {"start", "devices"}))
    BY <1>2, <1>3
  <2> QED
    BY <1>2, <2>1, <2>2, RunsClose
<1>8. OpromWalkInv'
  BY <1>3 DEF OpromWalkInv
<1>9. OpromFilesInv'
  <2>1. CASE DumpsAll
    BY <1>1, <2>1 DEF OpromFilesInv
  <2>2. CASE ~DumpsAll
    BY <1>1, <1>3, <2>2 DEF OpromFilesInv
  <2> QED
    BY <2>1, <2>2
<1> QED
  BY <1>4, <1>6, <1>7, <1>8, <1>9 DEF OpromInv

(* The walk stays on a device, or begins.                                  *)
LEMMA WalkKeeps ==
  ASSUME OpromPlaceInv, OpromDeviceInv, SameRun, rpc' = "images", device' = device, device <= Len(pciDevices), rpc \in {"devices", "images"},
         found' \in BOOLEAN, found' /\ ~DumpsAll => AskedFor(device), romEntry' \in Nat, oproms' \in Seq(Nat \X Nat),
         \A n \in 1..Len(oproms') : oproms'[n][1] <= device,
         \A d \in 1..Len(pciDevices) : d < device =>
           \E a \in 0..Len(oproms'), k \in 0..Len(LayoutOf(d)) : RunOf(oproms', LayoutOf(d), d, a, k) /\ CompleteRun(LayoutOf(d), k),
         romIoFailed' \in BOOLEAN, DumpsAll => romFiles' = <<>>,
         NEW m \in 0..Len(Layout), m <= Len(oproms'), RunOf(oproms', Layout, device, Len(oproms') - m, m),
         WalkAt(Layout, romEntry', pcir', m), ~DumpsAll /\ ~romIoFailed' => SavedImages(romFiles', Layout, m)
  PROVE  OpromInv'
<1>1. /\ pciDevices' = pciDevices /\ command' = command /\ Accepted' = Accepted /\ DumpsAll' = DumpsAll
      /\ \A d : AskedFor(d)' = AskedFor(d) /\ LayoutOf(d)' = LayoutOf(d)
      /\ Layout' = Layout
  BY SameRunKeeps DEF SameRun
<1>2. /\ device \in Nat /\ device >= 1 /\ Len(pciDevices) \in Nat /\ Layout = LayoutOf(device) /\ m \in Nat
      /\ \A d \in 1..Len(pciDevices) : Len(LayoutOf(d)) \in Nat
  BY PlaceFacts
<1>3. OpromPlaceInv'
  BY <1>1 DEF OpromPlaceInv
<1>4. OpromDeviceInv'
  <2>1. Accepted
    BY DEF OpromDeviceInv
  <2> QED
    BY <1>1, <2>1 DEF OpromDeviceInv
<1>5. Len(oproms') \in Nat
  BY LenProperties
<1>6. ASSUME NEW d \in 1..Len(pciDevices)
      PROVE  \E a \in 0..Len(oproms'), k \in 0..Len(LayoutOf(d)) :
               RunOf(oproms', LayoutOf(d), d, a, k) /\ (d < device => CompleteRun(LayoutOf(d), k))
  <2>1. CASE d < device
    BY <2>1
  <2>2. CASE d = device
    <3>1. Len(oproms') - m \in 0..Len(oproms')
      BY <1>2, <1>5
    <3>2. ~(d < device)
      BY <1>2, <2>2
    <3> QED
      BY <1>2, <2>2, <3>1, <3>2
  <2>3. CASE d > device
    <3>1. \A n \in 1..Len(oproms') : oproms'[n][1] # d
      <4> SUFFICES ASSUME NEW n \in 1..Len(oproms') PROVE oproms'[n][1] # d
        OBVIOUS
      <4>1. oproms'[n] \in Nat \X Nat
        OBVIOUS
      <4>2. oproms'[n][1] \in Nat /\ oproms'[n][1] <= device
        BY <4>1
      <4>3. d \in Nat /\ device \in Nat /\ d > device
        BY <1>2, <2>3
      <4> QED
        BY ONLY <4>2, <4>3
    <3>2. RunOf(oproms', LayoutOf(d), d, 0, 0)
      BY <1>5, <3>1, RunNone
    <3>3. ~(d < device) /\ 0 \in 0..Len(oproms') /\ 0 \in 0..Len(LayoutOf(d))
      BY <1>2, <1>5, <2>3
    <3> QED
      BY <3>2, <3>3
  <2> QED
    BY <1>2, <2>1, <2>2, <2>3
<1>7. OpromRunsInv'
  BY <1>1, <1>6 DEF OpromRunsInv
<1>8. OpromWalkInv'
  BY <1>1 DEF OpromWalkInv
<1>9. OpromFilesInv'
  BY <1>1 DEF OpromFilesInv
<1> QED
  BY <1>3, <1>4, <1>7, <1>8, <1>9 DEF OpromInv

(* Before a device is looked at, nothing of it is shown.                   *)
LEMMA NoneShown ==
  ASSUME OpromPlaceInv, OpromRunsInv, rpc \in {"start", "devices"}
  PROVE  /\ \A n \in 1..Len(oproms) : oproms[n][1] \in Nat /\ oproms[n][1] < device
         /\ \A d \in 1..Len(pciDevices) : d >= device =>
              RunOf(oproms, LayoutOf(d), d, 0, 0) /\ RunOf(oproms, LayoutOf(d), d, Len(oproms), 0)
         /\ \A d \in 1..Len(pciDevices) : d <= device =>
              \E a \in 0..Len(oproms), k \in 0..Len(LayoutOf(d)) : RunOf(oproms, LayoutOf(d), d, a, k) /\ CompleteRun(LayoutOf(d), k)
<1>1. /\ Len(oproms) \in Nat /\ device \in Nat /\ Len(pciDevices) \in Nat
      /\ \A d \in 1..Len(pciDevices) : Len(LayoutOf(d)) \in Nat
  BY PlaceFacts
<1>2. \A n \in 1..Len(oproms) : oproms[n][1] \in Nat /\ oproms[n][1] < device
  <2>1. \A n \in 1..Len(oproms) : oproms[n] \in Nat \X Nat
    BY DEF OpromPlaceInv
  <2> QED
    BY <2>1 DEF OpromRunsInv
<1>3. ASSUME NEW d \in 1..Len(pciDevices), d >= device
      PROVE  RunOf(oproms, LayoutOf(d), d, 0, 0) /\ RunOf(oproms, LayoutOf(d), d, Len(oproms), 0)
  <2>1. \A n \in 1..Len(oproms) : oproms[n][1] # d
    BY <1>1, <1>2, <1>3
  <2>2. 0 \in 0..Len(oproms) /\ Len(oproms) \in 0..Len(oproms)
    BY <1>1
  <2> QED
    BY <1>1, <2>1, <2>2, RunNone
<1>4. ASSUME NEW d \in 1..Len(pciDevices), d <= device
      PROVE  \E a \in 0..Len(oproms), k \in 0..Len(LayoutOf(d)) : RunOf(oproms, LayoutOf(d), d, a, k) /\ CompleteRun(LayoutOf(d), k)
  <2>1. CASE d < device
    BY <2>1 DEF OpromRunsInv
  <2>2. CASE d = device
    <3>1. RunOf(oproms, LayoutOf(d), d, 0, 0) /\ 0 \in 0..Len(oproms) /\ 0 \in 0..Len(LayoutOf(d))
      BY <1>1, <1>3, <2>2
    <3> QED
      BY <3>1 DEF CompleteRun
  <2> QED
    BY <1>1, <1>4, <2>1, <2>2
<1> QED
  BY <1>2, <1>3, <1>4

(* The devices before the one whose turn it is are finished.               *)
LEMMA DevicesFinished ==
  ASSUME OpromPlaceInv, OpromRunsInv
  PROVE  \A d \in 1..Len(pciDevices) : d < device =>
           \E a \in 0..Len(oproms), k \in 0..Len(LayoutOf(d)) : RunOf(oproms, LayoutOf(d), d, a, k) /\ CompleteRun(LayoutOf(d), k)
  BY DEF OpromRunsInv

(* The first states.                                                       *)
LEMMA OpromStart == OpromInit => OpromInv
<1> SUFFICES ASSUME OpromInit PROVE OpromInv
  OBVIOUS
<1> USE DEF OpromInit
<1>1. OpromPlaceInv
  <2>1. Len(pciDevices) \in Nat
    BY OpromAssumption
  <2>2. device \in 1..Len(pciDevices) + 1 /\ oproms \in Seq(Nat \X Nat)
    BY <2>1
  <2> QED
    BY <2>2 DEF OpromPlaceInv
<1>2. OpromDeviceInv
  <2>1. rpc = "start" /\ found = FALSE /\ 1..device - 1 = {}
    OBVIOUS
  <2> QED
    BY ONLY <2>1 DEF OpromDeviceInv
<1>3. OpromRunsInv
  <2>1. Len(oproms) = 0 /\ \A d \in 1..Len(pciDevices) : Len(LayoutOf(d)) \in Nat
    BY <1>1, PlaceFacts
  <2>2. ASSUME NEW d \in 1..Len(pciDevices)
        PROVE  \E a \in 0..Len(oproms), k \in 0..Len(LayoutOf(d)) : RunOf(oproms, LayoutOf(d), d, a, k) /\ CompleteRun(LayoutOf(d), k)
    <3>1. RunOf(oproms, LayoutOf(d), d, 0, 0)
      BY <2>1, RunNone
    <3>2. 0 \in 0..Len(oproms) /\ 0 \in 0..Len(LayoutOf(d))
      BY <2>1
    <3> QED
      BY <3>1, <3>2 DEF CompleteRun
  <2> QED
    BY <2>1, <2>2 DEF OpromRunsInv
<1>4. OpromWalkInv
  BY DEF OpromWalkInv
<1>5. OpromFilesInv
  BY DEF OpromFilesInv
<1> QED
  BY <1>1, <1>2, <1>3, <1>4, <1>5 DEF OpromInv

(* The command line, and the choice of a device.                           *)
LEMMA MainKeeps ==
  ASSUME OpromInv, GetPciOpromMain
  PROVE  OpromInv'
<1> USE DEF OpromInv, GetPciOpromMain
<1>1. SameRun /\ device' = device /\ oproms' = oproms /\ rpc = "start" /\ rpc' \in {"devices", "done"} /\ (rpc' = "devices" => Accepted)
  BY DEF SameRun
<1>2. /\ Accepted' = Accepted /\ DumpsAll' = DumpsAll /\ Layout' = Layout
      /\ \A d : AskedFor(d)' = AskedFor(d) /\ LayoutOf(d)' = LayoutOf(d)
  BY <1>1, SameRunKeeps
<1>3. OpromPlaceInv'
  BY DEF OpromPlaceInv
<1>4. OpromDeviceInv'
  BY <1>1, <1>2 DEF OpromDeviceInv
<1>5. OpromRunsInv'
  <2>1. device = 1 /\ \A n \in 1..Len(oproms) : oproms[n][1] \in Nat /\ oproms[n][1] < 1
    BY <1>1, NoneShown DEF OpromRunsInv
  <2>2. Len(oproms') \in Nat /\ rpc' # "start" /\ device' > 0 /\ device' \in Nat /\ 0 \in Nat
    BY <1>1, <2>1, PlaceFacts
  <2>3. \A n \in 1..Len(oproms') : oproms'[n][1] \in Nat /\ oproms'[n][1] <= 0
    BY <1>1, <2>1
  <2>4. \A d \in 1..Len(pciDevices) : ~(d <= 0)
    BY PlaceFacts
  <2> QED
    BY <1>1, <2>2, <2>3, <2>4, RunsClose
<1>6. OpromWalkInv'
  BY <1>1 DEF OpromWalkInv
<1>7. OpromFilesInv'
  BY <1>1, <1>2 DEF OpromFilesInv, OpromDeviceInv
<1> QED
  BY <1>3, <1>4, <1>5, <1>6, <1>7

(* A device that was not asked for.                                        *)
LEMMA NextDeviceKeeps ==
  ASSUME OpromInv, NextDevice
  PROVE  OpromInv'
<1> USE DEF OpromInv, NextDevice
<1>1. SameRun /\ device' = device + 1 /\ oproms' = oproms /\ rpc = "devices" /\ rpc' = rpc /\ ~AskedFor(device) /\ device <= Len(pciDevices)
  BY DEF SameRun, AskedFor
<1>2. Accepted' = Accepted /\ DumpsAll' = DumpsAll /\ \A d : AskedFor(d)' = AskedFor(d)
  BY <1>1, SameRunKeeps
<1>3. device \in Nat /\ device >= 1 /\ Len(oproms) \in Nat /\ Len(pciDevices) \in Nat
  BY PlaceFacts
<1>4. OpromPlaceInv'
  <2>1. device' \in 1..Len(pciDevices) + 1
    BY <1>1, <1>3
  <2> QED
    BY <1>1, <2>1 DEF OpromPlaceInv
<1>5. OpromDeviceInv'
  <2>1. ~DumpsAll => \A d \in 1..device : ~AskedFor(d)
    BY <1>1, <1>3 DEF OpromDeviceInv
  <2>2. device' - 1 = device
    BY <1>1, <1>3
  <2> QED
    BY <1>1, <1>2, <2>1, <2>2 DEF OpromDeviceInv
<1>6. OpromRunsInv'
  <2>1. \A n \in 1..Len(oproms') : oproms'[n][1] \in Nat /\ oproms'[n][1] <= device
    BY <1>1, <1>3, NoneShown
  <2>2. Len(oproms') \in Nat /\ rpc' # "start" /\ device' > device /\ device' \in Nat
    BY <1>1, <1>3
  <2>3. \A d \in 1..Len(pciDevices) : d <= device =>
          \E a \in 0..Len(oproms'), k \in 0..Len(LayoutOf(d)) : RunOf(oproms', LayoutOf(d), d, a, k) /\ CompleteRun(LayoutOf(d), k)
    BY <1>1, NoneShown
  <2> QED
    BY <1>1, <1>3, <2>1, <2>2, <2>3, RunsClose
<1>7. OpromWalkInv'
  BY <1>1 DEF OpromWalkInv
<1>8. OpromFilesInv'
  BY <1>1, <1>2 DEF OpromFilesInv
<1> QED
  BY <1>4, <1>5, <1>6, <1>7, <1>8

(* There is no device left.                                                *)
LEMMA DevicesEndKeeps ==
  ASSUME OpromInv, DevicesEnd
  PROVE  OpromInv'
<1> USE DEF OpromInv, DevicesEnd
<1>1. SameRun /\ device' = device /\ oproms' = oproms /\ rpc = "devices" /\ rpc' = "done"
  BY DEF SameRun
<1>2. Accepted' = Accepted /\ DumpsAll' = DumpsAll /\ \A d : AskedFor(d)' = AskedFor(d)
  BY <1>1, SameRunKeeps
<1>3. device \in Nat /\ device >= 1 /\ Len(oproms) \in Nat /\ Len(pciDevices) \in Nat
  BY PlaceFacts
<1>4. OpromPlaceInv'
  BY DEF OpromPlaceInv
<1>5. OpromDeviceInv'
  BY <1>1, <1>2 DEF OpromDeviceInv
<1>6. OpromRunsInv'
  <2> DEFINE last == device - 1
  <2>1. last \in Nat /\ device' > last /\ device' \in Nat /\ Len(oproms') \in Nat /\ rpc' # "start"
    BY <1>1, <1>3
  <2>2. \A n \in 1..Len(oproms') : oproms'[n][1] \in Nat /\ oproms'[n][1] <= last
    BY <1>1, <1>3, NoneShown
  <2>3. \A d \in 1..Len(pciDevices) : d <= last => d < device
    BY <1>3
  <2>4. \A d \in 1..Len(pciDevices) : d <= last =>
          \E a \in 0..Len(oproms'), k \in 0..Len(LayoutOf(d)) : RunOf(oproms', LayoutOf(d), d, a, k) /\ CompleteRun(LayoutOf(d), k)
    BY <1>1, <2>3, DevicesFinished
  <2> HIDE DEF last
  <2> QED
    BY <1>1, <2>1, <2>2, <2>4, RunsClose
<1>7. OpromWalkInv'
  BY <1>1 DEF OpromWalkInv
<1>8. OpromFilesInv'
  BY <1>1, <1>2 DEF OpromFilesInv, OpromDeviceInv
<1> QED
  BY <1>4, <1>5, <1>6, <1>7, <1>8

(* The device asked for: the walk over its images begins.                  *)
LEMMA ProcessPciRomImageKeeps ==
  ASSUME OpromInv, ProcessPciRomImage
  PROVE  OpromInv'
<1> USE DEF OpromInv
<1>1. /\ SameRun /\ oproms' = oproms /\ rpc = "devices" /\ device <= Len(pciDevices) /\ AskedFor(device)
      /\ found' = TRUE /\ romEntry' = 0 /\ pcir' = NoBlock
  BY DEF ProcessPciRomImage, SameRun, AskedFor
<1>2. /\ Len(oproms') \in Nat /\ device \in 1..Len(pciDevices) /\ Layout = LayoutOf(device) /\ RomForm(Layout) /\ Len(Layout) \in Nat
      /\ device \in Nat /\ Len(pciDevices) \in Nat
  BY <1>1, PlaceFacts
<1>3. romEntry' \in Nat /\ oproms' \in Seq(Nat \X Nat)
  BY <1>1 DEF OpromPlaceInv
<1>4. /\ \A n \in 1..Len(oproms') : oproms'[n][1] <= device
      /\ \A d \in 1..Len(pciDevices) : d <= device =>
           \E a \in 0..Len(oproms'), k \in 0..Len(LayoutOf(d)) : RunOf(oproms', LayoutOf(d), d, a, k) /\ CompleteRun(LayoutOf(d), k)
      /\ RunOf(oproms', Layout, device, Len(oproms'), 0)
  BY <1>1, <1>2, NoneShown
<1>5. romIoFailed \in BOOLEAN /\ (DumpsAll => romFiles = <<>>)
  BY DEF OpromFilesInv
<1>6. CASE Layout = <<>>
  <2>1. AfterDevice /\ UNCHANGED <<romFiles, romIoFailed>>
    BY <1>6 DEF ProcessPciRomImage
  <2> QED
    BY <1>1, <1>3, <1>4, <1>5, <1>6, <2>1, AfterDeviceKeeps
<1>7. CASE Layout # <<>>
  <2> DEFINE all == [from |-> 0, blocks |-> BlocksOf(Layout), unpacked |-> FALSE]
  <2>1. /\ rpc' = "images" /\ device' = device
        /\ IF DumpsAll THEN UNCHANGED <<romFiles, romIoFailed>> ELSE SavePciOpromToFile(AllFile, all)
    BY <1>7 DEF ProcessPciRomImage, AllFile
  <2> HIDE DEF all
  <2>2. romIoFailed' \in BOOLEAN /\ (DumpsAll => romFiles' = <<>>)
    <3>1. CASE DumpsAll
      BY <1>5, <2>1, <3>1
    <3>2. CASE ~DumpsAll
      BY <1>5, <2>1, <3>2 DEF SavePciOpromToFile
    <3> QED
      BY <3>1, <3>2
  <2>3. ~DumpsAll /\ ~romIoFailed' => SavedImages(romFiles', Layout, 0)
    <3>1. SUFFICES ASSUME ~DumpsAll, ~romIoFailed' PROVE SavedImages(romFiles', Layout, 0)
      OBVIOUS
    <3>2. romIoFailed' = FALSE /\ SavePciOpromToFile(AllFile, all)
      BY <2>1, <2>2, <3>1
    <3>3. HoldsFile(romFiles', AllFile, all)
      BY <3>2, SavePciOpromToFileIs
    <3> QED
      BY <3>3 DEF SavedImages, all
  <2>4. WalkAt(Layout, romEntry', pcir', 0)
    <3>1. ImageEnd(Layout, 0) = 0
      BY <1>2, EndIs
    <3>2. 0 < Len(Layout) => 0 <= StartOf(Layout, 0 + 1)
      <4>1. 0 < Len(Layout) => StartOf(Layout, 1) \in Nat
        BY <1>2, ImagesAscend
      <4> QED
        BY <4>1
    <3> QED
      BY <1>1, <3>1, <3>2 DEF WalkAt
  <2>5. 0 \in 0..Len(Layout) /\ 0 <= Len(oproms') /\ Len(oproms') - 0 = Len(oproms')
    BY <1>2
  <2>6. /\ \A d \in 1..Len(pciDevices) : d < device =>
             \E a \in 0..Len(oproms'), k \in 0..Len(LayoutOf(d)) : RunOf(oproms', LayoutOf(d), d, a, k) /\ CompleteRun(LayoutOf(d), k)
        /\ RunOf(oproms', Layout, device, Len(oproms') - 0, 0)
    BY <1>1, <1>4, <2>5, DevicesFinished
  <2> QED
    BY <1>1, <1>3, <1>4, <2>1, <2>2, <2>3, <2>4, <2>5, <2>6, WalkKeeps
<1> QED
  BY <1>6, <1>7

(* What the walk has done so far.                                          *)
LEMMA WalkFacts ==
  ASSUME OpromInv, rpc = "images"
  PROVE  /\ device \in 1..Len(pciDevices) /\ device \in Nat /\ Len(oproms) \in Nat /\ Layout = LayoutOf(device)
         /\ RomForm(Layout) /\ Len(Layout) \in Nat /\ romEntry \in Nat /\ oproms \in Seq(Nat \X Nat)
         /\ \A n \in 1..Len(oproms) : oproms[n][1] <= device
         /\ found \in BOOLEAN /\ (found /\ ~DumpsAll => AskedFor(device))
         /\ romIoFailed \in BOOLEAN /\ (DumpsAll => romFiles = <<>>)
         /\ \E k \in 0..Len(Layout) :
              /\ k <= Len(oproms) /\ RunOf(oproms, Layout, device, Len(oproms) - k, k) /\ WalkAt(Layout, romEntry, pcir, k)
              /\ ~DumpsAll /\ ~romIoFailed => SavedImages(romFiles, Layout, k)
<1>1. OpromPlaceInv /\ OpromDeviceInv /\ OpromRunsInv /\ OpromWalkInv /\ OpromFilesInv
  BY DEF OpromInv
<1>2. device \in 1..Len(pciDevices) /\ device \in Nat /\ Len(oproms) \in Nat /\ Layout = LayoutOf(device) /\ RomForm(Layout) /\ Len(Layout) \in Nat
  BY <1>1, PlaceFacts
<1>3. romEntry \in Nat /\ oproms \in Seq(Nat \X Nat)
  BY <1>1 DEF OpromPlaceInv
<1>4. \A n \in 1..Len(oproms) : oproms[n][1] <= device
  BY <1>1 DEF OpromRunsInv
<1>5. found \in BOOLEAN /\ (found /\ ~DumpsAll => AskedFor(device)) /\ romIoFailed \in BOOLEAN /\ (DumpsAll => romFiles = <<>>)
  BY <1>1 DEF OpromDeviceInv, OpromFilesInv
<1> QED
  BY <1>1, <1>2, <1>3, <1>4, <1>5 DEF OpromWalkInv

(* Runs of the devices up to this one, when this one is complete.          *)
LEMMA RunsUpTo ==
  ASSUME NEW s, Len(s) \in Nat, device \in 1..Len(pciDevices), Len(pciDevices) \in Nat, Layout = LayoutOf(device),
         NEW k \in 0..Len(Layout), Len(Layout) \in Nat, k <= Len(s), RunOf(s, Layout, device, Len(s) - k, k), CompleteRun(Layout, k),
         \A d \in 1..Len(pciDevices) : d < device =>
           \E a \in 0..Len(s), n \in 0..Len(LayoutOf(d)) : RunOf(s, LayoutOf(d), d, a, n) /\ CompleteRun(LayoutOf(d), n)
  PROVE  \A d \in 1..Len(pciDevices) : d <= device =>
           \E a \in 0..Len(s), n \in 0..Len(LayoutOf(d)) : RunOf(s, LayoutOf(d), d, a, n) /\ CompleteRun(LayoutOf(d), n)
<1> SUFFICES ASSUME NEW d \in 1..Len(pciDevices), d <= device
             PROVE  \E a \in 0..Len(s), n \in 0..Len(LayoutOf(d)) : RunOf(s, LayoutOf(d), d, a, n) /\ CompleteRun(LayoutOf(d), n)
  OBVIOUS
<1>1. Len(s) - k \in 0..Len(s)
  OBVIOUS
<1>2. d < device \/ d = device
  OBVIOUS
<1> QED
  BY <1>1, <1>2

(* The end of a ROM.                                                       *)
LEMMA RomEndsKeeps ==
  ASSUME OpromInv, RomEnds
  PROVE  OpromInv'
<1>1. /\ SameRun /\ oproms' = oproms /\ rpc = "images" /\ romEntry >= BlocksOf(Layout) /\ AfterDevice
      /\ UNCHANGED <<found, romEntry, romFiles, romIoFailed>>
  BY DEF RomEnds, SameRun
<1>2. /\ OpromPlaceInv /\ OpromDeviceInv /\ OpromRunsInv /\ device \in 1..Len(pciDevices) /\ Layout = LayoutOf(device)
      /\ RomForm(Layout) /\ Len(Layout) \in Nat /\ romEntry \in Nat /\ Len(pciDevices) \in Nat /\ Len(oproms) \in Nat
  BY <1>1, WalkFacts, PlaceFacts DEF OpromInv
<1>3. PICK k \in 0..Len(Layout) :
              /\ k <= Len(oproms) /\ RunOf(oproms, Layout, device, Len(oproms) - k, k) /\ WalkAt(Layout, romEntry, pcir, k)
              /\ ~DumpsAll /\ ~romIoFailed => SavedImages(romFiles, Layout, k)
  BY <1>1, WalkFacts
<1>4. k = Len(Layout)
  <2>1. /\ ImageEnd(Layout, k) <= romEntry /\ (k < Len(Layout) => romEntry <= StartOf(Layout, k + 1))
        /\ k = Len(Layout) => romEntry = ImageEnd(Layout, k)
    BY <1>3 DEF WalkAt
  <2>2. ~(romEntry < BlocksOf(Layout))
    <3>1. BlocksOf(Layout) \in Nat
      <4>1. Len(Layout) \in 0..Len(Layout)
        BY <1>2
      <4> QED
        BY <1>2, <4>1, EndIs DEF BlocksOf
    <3> QED
      BY <1>1, <1>2, <3>1
  <2>3. ~(k < Len(Layout))
    BY <1>2, <2>1, <2>2, BetweenImages
  <2> QED
    BY <1>2, <2>3
<1>5. CompleteRun(Layout, k)
  BY <1>4 DEF CompleteRun
<1>6. ChainOf(Layout) = 1..k
  <2>1. \A j \in 1..k - 1 : ~Layout[j].last
    BY <1>3 DEF RunOf
  <2> QED
    BY <1>2, <1>4, <2>1, CompleteIsChain
<1>7. \A d \in 1..Len(pciDevices) : d <= device =>
        \E a \in 0..Len(oproms), n \in 0..Len(LayoutOf(d)) : RunOf(oproms, LayoutOf(d), d, a, n) /\ CompleteRun(LayoutOf(d), n)
  BY <1>2, <1>3, <1>5, DevicesFinished, RunsUpTo
<1>8. /\ found' \in BOOLEAN /\ (found' /\ ~DumpsAll => AskedFor(device)) /\ romEntry' \in Nat /\ oproms' \in Seq(Nat \X Nat)
      /\ \A n \in 1..Len(oproms') : oproms'[n][1] <= device
      /\ romIoFailed' \in BOOLEAN /\ (DumpsAll => romFiles' = <<>>)
  BY <1>1, WalkFacts
<1>9. ~DumpsAll /\ ~romIoFailed' => \E n \in 0..Len(Layout) : ChainOf(Layout) = 1..n /\ SavedImages(romFiles', Layout, n)
  BY <1>1, <1>3, <1>6
<1> QED
  BY <1>1, <1>2, <1>7, <1>8, <1>9, AfterDeviceKeeps

(* A block without a signature is passed over.                             *)
LEMMA RomSkipKeeps ==
  ASSUME OpromInv, RomSkip
  PROVE  OpromInv'
<1>1. /\ SameRun /\ oproms' = oproms /\ rpc = "images" /\ romEntry < BlocksOf(Layout) /\ ~HasRomSignature(Layout, romEntry)
      /\ pcir # NoBlock /\ romEntry' = romEntry + 1 /\ UNCHANGED <<found, pcir, romFiles, romIoFailed>>
      /\ (~LastImage(pcir) => rpc' = rpc /\ device' = device)
  BY DEF RomSkip, SameRun, SkipBlock
<1>2. /\ OpromPlaceInv /\ OpromDeviceInv /\ OpromRunsInv /\ device \in 1..Len(pciDevices) /\ device <= Len(pciDevices)
      /\ RomForm(Layout) /\ Len(Layout) \in Nat /\ romEntry \in Nat
  BY <1>1, WalkFacts, PlaceFacts DEF OpromInv
<1>3. PICK k \in 0..Len(Layout) :
              /\ k <= Len(oproms) /\ RunOf(oproms, Layout, device, Len(oproms) - k, k) /\ WalkAt(Layout, romEntry, pcir, k)
              /\ ~DumpsAll /\ ~romIoFailed => SavedImages(romFiles, Layout, k)
  BY <1>1, WalkFacts
<1>4. /\ k > 0 => ~Layout[k].last
      /\ pcir = IF k = 0 THEN NoBlock ELSE StartOf(Layout, k)
      /\ ImageEnd(Layout, k) <= romEntry /\ (k < Len(Layout) => romEntry <= StartOf(Layout, k + 1))
      /\ k = Len(Layout) => romEntry = ImageEnd(Layout, k)
  BY <1>3 DEF WalkAt
<1>5. k \in 1..Len(Layout) /\ k > 0
  BY <1>1, <1>2, <1>4
<1>6. ~LastImage(pcir)
  <2>1. pcir = StartOf(Layout, k)
    BY <1>4, <1>5
  <2>2. ImageAt(Layout, StartOf(Layout, k)) = Layout[k]
    BY <1>2, <1>5, ImageAtIs
  <2> QED
    BY <1>4, <1>5, <2>1, <2>2 DEF LastImage
<1>7. k < Len(Layout) /\ romEntry # StartOf(Layout, k + 1)
  BY <1>1, <1>2, <1>4, BetweenImages
<1>8. WalkAt(Layout, romEntry', pcir', k)
  <2>1. StartOf(Layout, k + 1) \in Nat /\ ImageEnd(Layout, k) \in Nat
    <3>1. k + 1 \in 1..Len(Layout) /\ k \in 0..Len(Layout)
      BY <1>2, <1>7
    <3> QED
      BY <1>2, <3>1, ImagesAscend, EndIs
  <2>2. ImageEnd(Layout, k) <= romEntry' /\ romEntry' <= StartOf(Layout, k + 1)
    BY <1>1, <1>2, <1>4, <1>7, <2>1
  <2>3. k # Len(Layout)
    BY <1>2, <1>7
  <2> QED
    BY <1>1, <1>4, <2>2, <2>3 DEF WalkAt
<1>9. /\ rpc' = "images" /\ device' = device /\ found' \in BOOLEAN /\ (found' /\ ~DumpsAll => AskedFor(device))
      /\ romEntry' \in Nat /\ oproms' \in Seq(Nat \X Nat) /\ \A n \in 1..Len(oproms') : oproms'[n][1] <= device
      /\ romIoFailed' \in BOOLEAN /\ (DumpsAll => romFiles' = <<>>)
  BY <1>1, <1>2, <1>6, WalkFacts
<1>10. \A d \in 1..Len(pciDevices) : d < device =>
         \E a \in 0..Len(oproms'), n \in 0..Len(LayoutOf(d)) : RunOf(oproms', LayoutOf(d), d, a, n) /\ CompleteRun(LayoutOf(d), n)
  BY <1>1, <1>2, DevicesFinished
<1>11. /\ k <= Len(oproms') /\ RunOf(oproms', Layout, device, Len(oproms') - k, k)
       /\ ~DumpsAll /\ ~romIoFailed' => SavedImages(romFiles', Layout, k)
  BY <1>1, <1>3
<1> QED
  BY <1>1, <1>2, <1>8, <1>9, <1>10, <1>11, WalkKeeps

(* An image is shown and saved.                                            *)
LEMMA RomImageKeeps ==
  ASSUME OpromInv, RomImage
  PROVE  OpromInv'
<1> DEFINE image == ImageAt(Layout, romEntry)
<1>1. /\ SameRun /\ rpc = "images" /\ romEntry < BlocksOf(Layout) /\ HasRomSignature(Layout, romEntry)
      /\ oproms' = Append(oproms, <<device, romEntry>>) /\ SaveImage(image)
      /\ pcir' = romEntry /\ romEntry' = romEntry + image.len /\ found' = found
      /\ IF LastImage(romEntry) THEN AfterDevice ELSE UNCHANGED <<rpc, device>>
  BY DEF RomImage, SameRun
<1>2. /\ OpromPlaceInv /\ OpromDeviceInv /\ OpromRunsInv /\ device \in 1..Len(pciDevices) /\ device <= Len(pciDevices) /\ device \in Nat
      /\ RomForm(Layout) /\ Len(Layout) \in Nat /\ romEntry \in Nat /\ Layout = LayoutOf(device) /\ Len(oproms) \in Nat
      /\ Len(pciDevices) \in Nat /\ oproms \in Seq(Nat \X Nat)
      /\ \A d \in 1..Len(pciDevices) : Len(LayoutOf(d)) \in Nat
  BY <1>1, WalkFacts, PlaceFacts DEF OpromInv
<1>3. PICK k \in 0..Len(Layout) :
              /\ k <= Len(oproms) /\ RunOf(oproms, Layout, device, Len(oproms) - k, k) /\ WalkAt(Layout, romEntry, pcir, k)
              /\ ~DumpsAll /\ ~romIoFailed => SavedImages(romFiles, Layout, k)
  BY <1>1, WalkFacts
<1> DEFINE m == k + 1
<1>4. k < Len(Layout) /\ romEntry = StartOf(Layout, k + 1) /\ (k > 0 => ~Layout[k].last)
  <2>1. /\ ImageEnd(Layout, k) <= romEntry /\ (k < Len(Layout) => romEntry <= StartOf(Layout, k + 1))
        /\ k = Len(Layout) => romEntry = ImageEnd(Layout, k)
    BY <1>3 DEF WalkAt
  <2>2. k < Len(Layout) /\ romEntry = StartOf(Layout, k + 1)
    BY <1>1, <1>2, <2>1, BetweenImages
  <2> QED
    BY <1>3, <2>2 DEF WalkAt
<1>5. m \in 1..Len(Layout) /\ m \in 0..Len(Layout) /\ k \in Nat /\ m > 0 /\ m = k + 1
  BY <1>2, <1>4
<1>6. image = Layout[m] /\ Layout[m].last \in BOOLEAN /\ (LastImage(romEntry) <=> Layout[m].last)
  <2>1. image = Layout[m]
    BY <1>2, <1>4, <1>5, ImageAtIs
  <2>2. Layout[m].last \in BOOLEAN
    BY <1>2, <1>5 DEF RomForm
  <2> QED
    BY <2>1, <2>2 DEF LastImage
<1> HIDE DEF image
<1>7. Longer(oproms', oproms, <<device, romEntry>>) /\ oproms' \in Seq(Nat \X Nat) /\ Len(oproms') \in Nat
  <2> DEFINE shown == <<device, romEntry>>
  <2>1. shown \in Nat \X Nat /\ oproms' = Append(oproms, shown)
    BY <1>1, <1>2
  <2> HIDE DEF shown
  <2>2. Longer(oproms', oproms, shown) /\ oproms' \in Seq(Nat \X Nat)
    BY <1>2, <2>1, AppendLonger, AppendProperties
  <2> QED
    BY <2>2, LenProperties DEF shown
<1>8. Len(oproms') - m = Len(oproms) - k /\ RunOf(oproms', Layout, device, Len(oproms') - m, m) /\ m <= Len(oproms')
  <2>1. Len(oproms') - (k + 1) = Len(oproms) - k /\ RunOf(oproms', Layout, device, Len(oproms) - k, k + 1)
    BY <1>3, <1>4, <1>5, <1>7, RunAppends
  <2>2. Len(oproms') = Len(oproms) + 1
    BY <1>7 DEF Longer
  <2> QED
    BY <1>2, <1>3, <2>1, <2>2
<1>9. \A d \in 1..Len(pciDevices) : d < device =>
        \E a \in 0..Len(oproms'), n \in 0..Len(LayoutOf(d)) : RunOf(oproms', LayoutOf(d), d, a, n) /\ CompleteRun(LayoutOf(d), n)
  <2> SUFFICES ASSUME NEW d \in 1..Len(pciDevices), d < device
               PROVE  \E a \in 0..Len(oproms'), n \in 0..Len(LayoutOf(d)) : RunOf(oproms', LayoutOf(d), d, a, n) /\ CompleteRun(LayoutOf(d), n)
    OBVIOUS
  <2>1. PICK a \in 0..Len(oproms), n \in 0..Len(LayoutOf(d)) : RunOf(oproms, LayoutOf(d), d, a, n) /\ CompleteRun(LayoutOf(d), n)
    BY <1>2, DevicesFinished
  <2>2. d # device /\ a \in Nat /\ n \in Nat /\ a \in 0..Len(oproms')
    <3>1. Len(oproms') = Len(oproms) + 1
      BY <1>7 DEF Longer
    <3> QED
      BY <1>2, <3>1
  <2>3. RunOf(oproms', LayoutOf(d), d, a, n)
    BY <1>7, <2>1, <2>2, RunElsewhere
  <2> QED
    BY <2>1, <2>2, <2>3
<1>10. \A n \in 1..Len(oproms') : oproms'[n][1] <= device
  <2> SUFFICES ASSUME NEW n \in 1..Len(oproms') PROVE oproms'[n][1] <= device
    OBVIOUS
  <2>1. Len(oproms') = Len(oproms) + 1 /\ (\A i \in 1..Len(oproms) : oproms'[i] = oproms[i]) /\ oproms'[Len(oproms) + 1][1] = device
    BY <1>7 DEF Longer
  <2>2. CASE n \in 1..Len(oproms)
    BY <1>1, <2>1, <2>2, WalkFacts
  <2>3. CASE n = Len(oproms) + 1
    <3>1. device \in Nat /\ oproms'[n][1] = device
      BY <1>2, <2>1, <2>3
    <3> QED
      BY <3>1
  <2>4. n \in 1..Len(oproms) \/ n = Len(oproms) + 1
    <3>1. Len(oproms) \in Nat /\ Len(oproms') = Len(oproms) + 1
      BY <1>2, <2>1
    <3> QED
      BY <3>1
  <2> QED
    BY <2>2, <2>3, <2>4
<1>11. romIoFailed' \in BOOLEAN /\ (DumpsAll => romFiles' = <<>>)
  <2>1. romIoFailed \in BOOLEAN /\ (DumpsAll => romFiles = <<>>)
    BY <1>1, WalkFacts
  <2>2. CASE DumpsAll \/ image.code \notin {"LEGACY", "EFI"}
    <3>1. UNCHANGED <<romFiles, romIoFailed>>
      BY <1>1, <2>2 DEF SaveImage
    <3> QED
      BY <2>1, <3>1
  <2>3. CASE ~DumpsAll /\ image.code = "LEGACY"
    <3>1. romIoFailed' = romIoFailed \/ romIoFailed' = TRUE
      BY <1>1, <2>3 DEF SaveImage, SavePciOpromToFile
    <3> QED
      BY <2>1, <2>3, <3>1
  <2>4. CASE ~DumpsAll /\ image.code = "EFI"
    <3>1. romIoFailed' = romIoFailed \/ romIoFailed' = TRUE
      BY <1>1, <2>4 DEF SaveImage, SavePciOpromToFile
    <3> QED
      BY <2>1, <2>4, <3>1
  <2> QED
    BY <2>2, <2>3, <2>4
<1>12. ~DumpsAll /\ ~romIoFailed' => SavedImages(romFiles', Layout, m)
  <2>1. SUFFICES ASSUME ~DumpsAll, ~romIoFailed' PROVE SavedImages(romFiles', Layout, m)
    OBVIOUS
  <2>2. romIoFailed' = FALSE /\ SaveImage(Layout[k + 1]) /\ (romIoFailed = FALSE => SavedImages(romFiles, Layout, k))
    BY <1>1, <1>3, <1>6, <1>11, <2>1
  <2> QED
    BY <1>2, <1>4, <1>5, <2>1, <2>2, SavedGrows
<1>13. romEntry' \in Nat /\ romEntry' = ImageEnd(Layout, m)
  <2>1. ImageEnd(Layout, m) = StartOf(Layout, m) + Layout[m].len /\ ImageEnd(Layout, m) \in Nat
    BY <1>2, <1>5, EndIs
  <2> QED
    BY <1>1, <1>4, <1>6, <2>1
<1>14. found' \in BOOLEAN /\ (found' /\ ~DumpsAll => AskedFor(device))
  BY <1>1, WalkFacts
<1> HIDE DEF m
<1>15. CASE Layout[m].last
  <2>1. CompleteRun(Layout, m) /\ AfterDevice
    BY <1>1, <1>6, <1>15 DEF CompleteRun
  <2>2. ChainOf(Layout) = 1..m
    <3>1. \A j \in 1..m - 1 : ~Layout[j].last
      BY <1>8 DEF RunOf
    <3> QED
      BY <1>2, <1>5, <1>15, <3>1, CompleteIsChain
  <2>3. \A d \in 1..Len(pciDevices) : d <= device =>
          \E a \in 0..Len(oproms'), n \in 0..Len(LayoutOf(d)) : RunOf(oproms', LayoutOf(d), d, a, n) /\ CompleteRun(LayoutOf(d), n)
    BY <1>2, <1>5, <1>7, <1>8, <1>9, <2>1, RunsUpTo
  <2>4. ~DumpsAll /\ ~romIoFailed' => \E n \in 0..Len(Layout) : ChainOf(Layout) = 1..n /\ SavedImages(romFiles', Layout, n)
    BY <1>5, <1>12, <2>2
  <2> QED
    BY <1>1, <1>2, <1>7, <1>10, <1>11, <1>13, <1>14, <2>1, <2>3, <2>4, AfterDeviceKeeps
<1>16. CASE ~Layout[m].last
  <2>1. rpc' = "images" /\ device' = device
    BY <1>1, <1>6, <1>16
  <2>2. WalkAt(Layout, romEntry', pcir', m)
    <3>1. m < Len(Layout) => ImageEnd(Layout, m) <= StartOf(Layout, m + 1)
      <4>1. SUFFICES ASSUME m < Len(Layout) PROVE ImageEnd(Layout, m) <= StartOf(Layout, m + 1)
        OBVIOUS
      <4>2. m + 1 \in 1..Len(Layout) /\ (m + 1) - 1 = m
        BY <1>2, <1>5, <4>1
      <4> QED
        BY <1>2, <4>2, ImagesAscend
    <3>2. ImageEnd(Layout, m) <= romEntry'
      BY <1>13
    <3>3. pcir' = StartOf(Layout, m) /\ m # 0
      BY <1>1, <1>4, <1>5
    <3> QED
      BY <1>13, <1>16, <3>1, <3>2, <3>3 DEF WalkAt
  <2> QED
    BY <1>1, <1>2, <1>5, <1>7, <1>8, <1>9, <1>10, <1>11, <1>12, <1>13, <1>14, <2>1, <2>2, WalkKeeps
<1> QED
  BY <1>15, <1>16

(* The read through LegacyRomHeader ends what can be said.                 *)
LEMMA ReadLegacyRomHeaderKeeps ==
  ASSUME OpromInv, ReadLegacyRomHeader
  PROVE  OpromInv'
<1> USE DEF OpromInv, ReadLegacyRomHeader
<1>1. SameRun /\ device' = device /\ oproms' = oproms /\ rpc = "images" /\ rpc' = "undefined"
  BY DEF SameRun
<1>2. /\ Accepted' = Accepted /\ DumpsAll' = DumpsAll /\ Layout' = Layout
      /\ \A d : AskedFor(d)' = AskedFor(d) /\ LayoutOf(d)' = LayoutOf(d)
  BY <1>1, SameRunKeeps
<1>3. OpromPlaceInv'
  BY DEF OpromPlaceInv
<1>4. OpromDeviceInv'
  BY <1>1, <1>2 DEF OpromDeviceInv
<1>5. OpromRunsInv'
  BY <1>1, <1>2 DEF OpromRunsInv
<1>6. OpromWalkInv' /\ OpromFilesInv'
  BY <1>1, <1>2 DEF OpromWalkInv, OpromFilesInv
<1> QED
  BY <1>3, <1>4, <1>5, <1>6

(* What GetPciOprom keeps true: the images shown of every device are those *)
(* of a run, and the files hold what is saved of it.                       *)
THEOREM OpromInvariant == OpromSpec => []OpromInv
<1>1. ASSUME OpromInv, [OpromNext]_romVars PROVE OpromInv'
  <2>1. CASE GetPciOpromMain
    BY <1>1, <2>1, MainKeeps
  <2>2. CASE NextDevice
    BY <1>1, <2>2, NextDeviceKeeps
  <2>3. CASE DevicesEnd
    BY <1>1, <2>3, DevicesEndKeeps
  <2>4. CASE ProcessPciRomImage
    BY <1>1, <2>4, ProcessPciRomImageKeeps
  <2>5. CASE RomEnds
    BY <1>1, <2>5, RomEndsKeeps
  <2>6. CASE RomSkip
    BY <1>1, <2>6, RomSkipKeeps
  <2>7. CASE RomImage
    BY <1>1, <2>7, RomImageKeeps
  <2>8. CASE ReadLegacyRomHeader
    BY <1>1, <2>8, ReadLegacyRomHeaderKeeps
  <2>9. CASE UNCHANGED romVars
    <3>1. SameRun /\ device' = device /\ UNCHANGED <<rpc, found, romEntry, pcir, oproms, romFiles, romIoFailed>>
      BY <2>9 DEF romVars, SameRun
    <3>2. /\ Accepted' = Accepted /\ DumpsAll' = DumpsAll /\ Layout' = Layout
          /\ \A d : AskedFor(d)' = AskedFor(d) /\ LayoutOf(d)' = LayoutOf(d)
      BY <3>1, SameRunKeeps
    <3>3. OpromPlaceInv' /\ OpromDeviceInv'
      BY <1>1, <3>1, <3>2 DEF OpromInv, OpromPlaceInv, OpromDeviceInv, SameRun
    <3>4. OpromRunsInv'
      BY <1>1, <3>1, <3>2 DEF OpromInv, OpromRunsInv, SameRun
    <3>5. OpromWalkInv'
      BY <1>1, <3>1, <3>2 DEF OpromInv, OpromWalkInv
    <3>6. OpromFilesInv'
      BY <1>1, <3>1, <3>2 DEF OpromInv, OpromFilesInv
    <3> QED
      BY <3>3, <3>4, <3>5, <3>6 DEF OpromInv
  <2> QED
    BY <1>1, <2>1, <2>2, <2>3, <2>4, <2>5, <2>6, <2>7, <2>8, <2>9 DEF OpromNext
<1> QED
  BY OpromStart, <1>1, PTL DEF OpromSpec

(* What the invariant says of a state.                                     *)
LEMMA RomRightHere == OpromInv => RomRight
<1> SUFFICES ASSUME OpromInv PROVE RomRight
  OBVIOUS
<1>1. OpromPlaceInv /\ OpromDeviceInv /\ OpromRunsInv /\ OpromFilesInv
  BY DEF OpromInv
<1>2. Len(pciDevices) \in Nat /\ device \in Nat /\ device >= 1 /\ \A d \in 1..Len(pciDevices) : RomForm(LayoutOf(d))
  BY <1>1, PlaceFacts
<1>3. RomImagesExact
  <2> SUFFICES ASSUME NEW d \in 1..Len(pciDevices)
               PROVE  LET layout == LayoutOf(d)
                          shown  == {n \in 1..Len(oproms) : oproms[n][1] = d}
                          places(k) == {n \in shown : oproms[n][2] = StartOf(layout, k)}
                      IN  /\ \A n \in shown : \E k \in ChainOf(layout) :
                               places(k) = {n} /\ (IF k = 1 THEN n - 1 \notin shown ELSE places(k - 1) = {n - 1})
                          /\ shown # {} /\ (d < device \/ rpc = "done") => \A k \in ChainOf(layout) : places(k) # {}
    BY DEF RomImagesExact, LayoutOf
  <2>1. PICK a \in 0..Len(oproms), m \in 0..Len(LayoutOf(d)) :
               RunOf(oproms, LayoutOf(d), d, a, m) /\ (d < device \/ rpc = "done" => CompleteRun(LayoutOf(d), m))
    BY <1>1 DEF OpromRunsInv
  <2>2. InOrder(oproms, LayoutOf(d), d) /\ (ShownOf(oproms, d) # {} /\ CompleteRun(LayoutOf(d), m) => AllShown(oproms, LayoutOf(d), d))
    <3>1. Len(oproms) \in Nat /\ RomForm(LayoutOf(d)) /\ a \in Nat
      BY <1>1, <1>2, PlaceFacts
    <3> QED
      BY <2>1, <3>1, RunIsExact
  <2>3. ShownOf(oproms, d) # {} /\ (d < device \/ rpc = "done") => AllShown(oproms, LayoutOf(d), d)
    BY <2>1, <2>2
  <2> QED
    BY <2>2, <2>3 DEF ShownOf, PlacesOf, InOrder, AllShown
<1>4. SavedRight
  <2>1. DumpsAll => romFiles = <<>>
    BY <1>1 DEF OpromFilesInv
  <2>2. ASSUME rpc = "done", found, ~DumpsAll, ~romIoFailed, Layout # <<>>
        PROVE  /\ romFiles["PciOpromAll.bin"] = [from |-> 0, blocks |-> BlocksOf(Layout), unpacked |-> FALSE]
               /\ \A i \in LastOf(Layout, LegacyImages(Layout)) : romFiles["PciOpromLegacy.bin"] = Content(Layout, i)
               /\ \A m \in MachineNames : \A i \in LastOf(Layout, EfiImages(Layout, m)) :
                    \E n \in DOMAIN romFiles : romFiles[n] = Content(Layout, i)
    <3>1. PICK k \in 0..Len(Layout) : ChainOf(Layout) = 1..k /\ SavedImages(romFiles, Layout, k)
      BY <1>1, <2>2 DEF OpromFilesInv
    <3>2. device \in 1..Len(pciDevices)
      BY <1>1, <1>2, <2>2 DEF OpromDeviceInv
    <3>3. RomForm(Layout)
      BY <1>2, <3>2 DEF Layout, LayoutOf
    <3> QED
      BY <3>1, <3>3, SavedIsRight DEF AllFile, LegacyFile
  <2> QED
    BY <2>1, <2>2 DEF SavedRight
<1>5. DeviceRight
  <2> SUFFICES ASSUME ~DumpsAll, command.flag = "f" => Unambiguous, found
               PROVE  Named(device) /\ \A d \in 1..device - 1 : ~Named(d)
    BY DEF DeviceRight
  <2>1. Accepted /\ device <= Len(pciDevices) /\ AskedFor(device) /\ \A d \in 1..device - 1 : ~AskedFor(d)
    BY <1>1 DEF OpromDeviceInv
  <2>2. pciDevices \in PciPlatforms /\ command \in OpromCommands
    BY <1>1 DEF OpromPlaceInv
  <2>3. \A d \in 1..Len(pciDevices) : AskedFor(d) <=> Named(d)
    BY <2>1, <2>2, AskedIsNamed
  <2>4. device \in 1..Len(pciDevices) /\ \A d \in 1..device - 1 : d \in 1..Len(pciDevices)
    BY <1>2, <2>1
  <2> QED
    BY <2>1, <2>3, <2>4
<1> QED
  BY <1>3, <1>4, <1>5 DEF RomRight

(* On every platform and for every command line the ROM shown and saved is *)
(* the one of the device that was asked for, image by image.               *)
THEOREM RomRightAlways == OpromSpec => []RomRight
  BY OpromInvariant, RomRightHere, PTL

-----------------------------------------------------------------------------
(* EsrtFmpDump.  What was shown is a list; the rows of one protocol stand  *)
(* together, and so do the rows of all capsules.                           *)
IsList(s) == \E T : s \in Seq(T)

(* The rows of the capsules that the walk over the HOB list has passed.    *)
RowsPassed ==
  CASE epc \in {"locate", "fmp", "info", "package"} -> 0
    [] epc = "hobs" -> RowsUpTo(firmware.hobs, hob - 1)
    [] epc = "items" ->
         LET drivers == Len(firmware.hobs[hob].drivers)
         IN  RowsUpTo(firmware.hobs, hob - 1) + 1 + (IF item <= drivers THEN 0 ELSE item - drivers - 1)
    [] OTHER -> RowsUpTo(firmware.hobs, Len(firmware.hobs))

(* Where the run is, and what it holds.                                    *)
EsrtPlaceInv ==
  /\ firmware \in Firmwares /\ IsList(sections) /\ fmp \in Nat \ {0} /\ fmpCut \in BOOLEAN
  /\ epc \in {"locate", "fmp", "info", "package", "hobs", "items", "esrt", "managed", "variables", "done"}
  /\ epc = "locate" => sections = <<>>
  /\ epc \in {"info", "package"} => fmp <= Len(firmware.fmps)
  /\ epc \notin {"locate", "fmp", "info", "package"} => fmp > Len(firmware.fmps) \/ fmpCut
  /\ hob \in 1..Len(firmware.hobs) + 1 /\ item \in Nat \ {0}
  /\ epc \in {"locate", "fmp", "info", "package"} => hob = 1
  /\ epc = "items" => /\ hob <= Len(firmware.hobs) /\ IsFmpCapsule(firmware.hobs[hob])
                      /\ item <= Len(firmware.hobs[hob].drivers) + Len(firmware.hobs[hob].payloads) + 1
EsrtBuffersInv ==
  fmpHeld = CASE epc \in {"fmp", "package"} -> {"HandleBuffer"}
              [] epc = "info" -> {"HandleBuffer", "FmpImageInfoBuf"}
              [] OTHER -> {}
(* A protocol that was passed is shown in full, or failed; the one at hand *)
(* and those behind it are not shown yet.                                  *)
FmpPassed(f) == f < fmp \/ (f = fmp /\ epc = "package")
EsrtDescriptorsInv ==
  \A f \in 1..Len(firmware.fmps) :
    /\ ImageRows(f) = {} \/ ShownInFull(f)
    /\ IF FmpPassed(f) THEN f \in fmpFailures \/ ShownInFull(f) ELSE ImageRows(f) = {}
(* The rows of the capsules passed are shown, and during the walk they are *)
(* the last ones.                                                          *)
EsrtCapsulesInv ==
  \E before \in 0..Len(sections) :
    CapsulesFrom(before, RowsPassed) /\ (epc \in {"hobs", "items"} => before + RowsPassed = Len(sections))

EsrtInv == EsrtPlaceInv /\ EsrtBuffersInv /\ EsrtDescriptorsInv /\ EsrtCapsulesInv

(* The rows r are those of s with those of t behind them.                  *)
Extends(r, s, t) ==
  /\ IsList(r) /\ IsList(s) /\ IsList(t) /\ Len(s) \in Nat /\ Len(t) \in Nat /\ Len(r) = Len(s) + Len(t)
  /\ \A n \in 1..Len(s) : r[n] = s[n]
  /\ \A n \in 1..Len(t) : r[Len(s) + n] = t[n]

(* What putting two lists behind each other, or a row behind one, gives.   *)
LEMMA ListExtends ==
  ASSUME NEW s, NEW t, IsList(s), IsList(t)
  PROVE  Extends(s \o t, s, t)
<1>1. PICK S : s \in Seq(S)
  BY DEF IsList
<1>2. PICK T : t \in Seq(T)
  BY DEF IsList
<1> DEFINE V == S \cup T
<1>3. s \in Seq(V) /\ t \in Seq(V)
  <2>1. Len(s) \in Nat /\ \A n \in 1..Len(s) : s[n] \in V
    BY <1>1, ElementOfSeq
  <2>2. Len(t) \in Nat /\ \A n \in 1..Len(t) : t[n] \in V
    BY <1>2, ElementOfSeq
  <2>3. s = [n \in 1..Len(s) |-> s[n]] /\ t = [n \in 1..Len(t) |-> t[n]]
    BY <1>1, <1>2, LenProperties
  <2> QED
    BY <2>1, <2>2, <2>3, SeqDef
<1> HIDE DEF V
<1>4. s \o t \in Seq(V) /\ Len(s \o t) = Len(s) + Len(t) /\ Len(s) \in Nat /\ Len(t) \in Nat
  BY <1>3, ConcatProperties, LenProperties
<1>5. ASSUME NEW n \in 1..Len(s) PROVE (s \o t)[n] = s[n]
  BY <1>3, <1>4, ConcatProperties
<1>6. ASSUME NEW n \in 1..Len(t) PROVE (s \o t)[Len(s) + n] = t[n]
  BY <1>3, <1>4, ConcatProperties
<1> QED
  BY <1>3, <1>4, <1>5, <1>6 DEF Extends, IsList

LEMMA NothingExtends ==
  ASSUME NEW s, IsList(s)
  PROVE  Extends(s, s, <<>>)
<1>1. PICK S : s \in Seq(S)
  BY DEF IsList
<1>2. <<>> \in Seq(S) /\ Len(<<>>) = 0
  OBVIOUS
<1>3. Len(s) \in Nat
  BY <1>1
<1> QED
  BY <1>1, <1>2, <1>3 DEF Extends, IsList

LEMMA RowExtends ==
  ASSUME NEW s, NEW row, IsList(s)
  PROVE  Extends(Append(s, row), s, <<row>>) /\ Len(<<row>>) = 1 /\ <<row>>[1] = row
<1>1. PICK S : s \in Seq(S)
  BY DEF IsList
<1> DEFINE V == S \cup {row}
<1>2. s \in Seq(V) /\ row \in V
  <2>1. Len(s) \in Nat /\ \A n \in 1..Len(s) : s[n] \in V
    BY <1>1, ElementOfSeq
  <2>2. s = [n \in 1..Len(s) |-> s[n]]
    BY <1>1, LenProperties
  <2> QED
    BY <2>1, <2>2, SeqDef
<1> HIDE DEF V
<1>3. /\ Append(s, row) \in Seq(V) /\ Len(Append(s, row)) = Len(s) + 1 /\ Len(s) \in Nat
      /\ \A n \in 1..Len(s) : Append(s, row)[n] = s[n]
      /\ Append(s, row)[Len(s) + 1] = row
  BY <1>2, AppendProperties, LenProperties
<1>4. <<row>> \in Seq(V) /\ Len(<<row>>) = 1 /\ <<row>>[1] = row
  BY <1>2
<1>5. \A n \in 1..Len(<<row>>) : Append(s, row)[Len(s) + n] = <<row>>[n]
  <2> SUFFICES ASSUME NEW n \in 1..Len(<<row>>) PROVE Append(s, row)[Len(s) + n] = <<row>>[n]
    OBVIOUS
  <2>1. n = 1
    BY <1>4
  <2> QED
    BY <1>3, <1>4, <2>1
<1> QED
  BY <1>2, <1>3, <1>4, <1>5 DEF Extends, IsList

(* A function on the first numbers is a list of that length.               *)
LEMMA FunctionIsList ==
  ASSUME NEW m \in Nat, NEW F
  PROVE  LET g == [n \in 1..m |-> F[n]] IN IsList(g) /\ Len(g) = m
<1> DEFINE g == [n \in 1..m |-> F[n]]
           V == {F[n] : n \in 1..m}
<1>1. g \in [1..m -> V]
  OBVIOUS
<1> HIDE DEF V
<1>2. g \in Seq(V)
  BY <1>1, SeqDef
<1>3. Len(g) = m
  BY <1>2, LenProperties
<1> QED
  BY <1>2, <1>3 DEF IsList

LEMMA ListsAssociate ==
  ASSUME NEW s, NEW t, NEW u, IsList(s), IsList(t), IsList(u)
  PROVE  (s \o t) \o u = s \o (t \o u)
<1>1. PICK S : s \in Seq(S)
  BY DEF IsList
<1>2. PICK T : t \in Seq(T)
  BY DEF IsList
<1>3. PICK U : u \in Seq(U)
  BY DEF IsList
<1> DEFINE V == (S \cup T) \cup U
<1>4. s \in Seq(V) /\ t \in Seq(V) /\ u \in Seq(V)
  <2>1. Len(s) \in Nat /\ \A n \in 1..Len(s) : s[n] \in V
    BY <1>1, ElementOfSeq
  <2>2. Len(t) \in Nat /\ \A n \in 1..Len(t) : t[n] \in V
    BY <1>2, ElementOfSeq
  <2>3. Len(u) \in Nat /\ \A n \in 1..Len(u) : u[n] \in V
    BY <1>3, ElementOfSeq
  <2>4. s = [n \in 1..Len(s) |-> s[n]] /\ t = [n \in 1..Len(t) |-> t[n]] /\ u = [n \in 1..Len(u) |-> u[n]]
    BY <1>1, <1>2, <1>3, LenProperties
  <2> QED
    BY <2>1, <2>2, <2>3, <2>4, SeqDef
<1> HIDE DEF V
<1> QED
  BY <1>4, ConcatAssociative

HobsForm(hobs) == Len(hobs) \in Nat /\ \A i \in 1..Len(hobs) : IsFmpCapsule(hobs[i]) => CapsuleForm(hobs[i])

(* A running sum of numbers satisfies its equations.                       *)
IsSum(f, words, m) == f = [n \in 0..m |-> IF n = 0 THEN 0 ELSE f[n - 1] + words[n]]
LEMMA SumExists ==
  ASSUME NEW m \in Nat, NEW words, \A n \in 1..m : words[n] \in Nat
  PROVE  /\ \E f : IsSum(f, words, m)
         /\ \A e : IsSum(e, words, m) =>
              e[0] = 0 /\ (\A n \in 0..m : e[n] \in Nat) /\ \A n \in 1..m : e[n] = e[n - 1] + words[n]
<1> DEFINE move == [n \in 1..m |-> [x \in Nat |-> x + words[n]]]
<1>1. \A n \in 1..m : move[n] \in [Nat -> Nat]
  OBVIOUS
<1> HIDE DEF move
<1>2. PICK f : IsRecursion(f, Nat, 0, move, m)
  BY <1>1, Recursion
<1>3. f \in [0..m -> Nat] /\ f[0] = 0 /\ \A n \in 1..m : f[n] = move[n][f[n - 1]]
  BY <1>2 DEF IsRecursion
<1>4. \A n \in 1..m : f[n - 1] \in Nat /\ f[n] = f[n - 1] + words[n]
  <2> TAKE n \in 1..m
  <2>1. n - 1 \in 0..m /\ f[n - 1] \in Nat
    BY <1>3
  <2> QED
    BY <1>3, <2>1 DEF move
<1>5. IsSum(f, words, m)
  <2> DEFINE g == [n \in 0..m |-> IF n = 0 THEN 0 ELSE f[n - 1] + words[n]]
  <2>1. \A n \in 0..m : g[n] = f[n]
    BY <1>3, <1>4
  <2>2. g \in [0..m -> Nat]
    <3> SUFFICES ASSUME NEW n \in 0..m PROVE g[n] \in Nat
      OBVIOUS
    <3> QED
      BY <1>3, <2>1
  <2> QED
    BY <1>3, <2>1, <2>2 DEF IsSum
<1>6. ASSUME NEW e, IsSum(e, words, m)
      PROVE  e[0] = 0 /\ (\A n \in 0..m : e[n] \in Nat) /\ \A n \in 1..m : e[n] = e[n - 1] + words[n]
  <2>1. e[0] = 0 /\ \A n \in 1..m : e[n] = e[n - 1] + words[n]
    BY <1>6 DEF IsSum
  <2> DEFINE S == {n \in Nat : n <= m => e[n] \in Nat}
  <2>2. 0 \in S
    BY <2>1
  <2>3. ASSUME NEW n \in Nat, n \in S PROVE n + 1 \in S
    <3>1. SUFFICES ASSUME n + 1 <= m PROVE e[n + 1] \in Nat
      OBVIOUS
    <3>2. n + 1 \in 1..m /\ (n + 1) - 1 = n /\ n <= m
      BY <3>1
    <3>3. e[n] \in Nat /\ e[n + 1] = e[n] + words[n + 1] /\ words[n + 1] \in Nat
      BY <2>1, <2>3, <3>2
    <3> QED
      BY <3>3
  <2> HIDE DEF S
  <2>4. Nat \subseteq S
    BY <2>2, <2>3, Induction
  <2> QED
    BY <2>1, <2>4 DEF S
<1> QED
  BY <1>5, <1>6

(* The rows of the capsules up to a HOB, and its own rows on.              *)
LEMMA RowsAre ==
  ASSUME NEW hobs, HobsForm(hobs)
  PROVE  /\ RowsUpTo(hobs, 0) = 0 /\ \A i \in 0..Len(hobs) : RowsUpTo(hobs, i) \in Nat
         /\ \A i \in 1..Len(hobs) : RowsOf(hobs[i]) \in Nat /\ RowsUpTo(hobs, i) = RowsUpTo(hobs, i - 1) + RowsOf(hobs[i])
         /\ \A i \in 1..Len(hobs) : hobs[i].type # "capsule" => RowsOf(hobs[i]) = 0
<1> DEFINE m == Len(hobs)
           words == RowCounts(hobs)
           e == CHOOSE f : IsSum(f, words, m)
<1>1. m \in Nat /\ \A n \in 1..m : words[n] = RowsOf(hobs[n]) /\ words[n] \in Nat /\ (hobs[n].type # "capsule" => words[n] = 0)
  <2> SUFFICES ASSUME NEW n \in 1..m PROVE words[n] = RowsOf(hobs[n]) /\ words[n] \in Nat /\ (hobs[n].type # "capsule" => words[n] = 0)
    BY DEF HobsForm
  <2>1. words[n] = RowsOf(hobs[n])
    BY DEF RowCounts
  <2>2. IsFmpCapsule(hobs[n]) => Len(hobs[n].payloads) \in Nat /\ hobs[n].type = "capsule"
    BY DEF HobsForm, CapsuleForm, IsFmpCapsule
  <2> QED
    BY <2>1, <2>2 DEF RowsOf
<1> HIDE DEF m, words
<1>2. IsSum(e, words, m)
  BY <1>1, SumExists
<1>3. \A i : RowsUpTo(hobs, i) = e[i]
  BY DEF RowsUpTo, e, IsSum, m, words
<1> HIDE DEF e
<1>4. e[0] = 0 /\ (\A n \in 0..m : e[n] \in Nat) /\ \A n \in 1..m : e[n] = e[n - 1] + words[n]
  BY <1>1, <1>2, SumExists
<1> QED
  BY <1>1, <1>3, <1>4 DEF m

LEMMA RowsBefore ==
  ASSUME NEW hobs, HobsForm(hobs), NEW i \in 1..Len(hobs)
  PROVE  RowsUpTo(hobs, i - 1) \in Nat /\ RowsOf(hobs[i]) \in Nat
<1>1. i - 1 \in 0..Len(hobs)
  BY DEF HobsForm
<1> QED
  BY <1>1, RowsAre

(* The rows grow along the list, and not where no capsule is.              *)
LEMMA RowsGrow ==
  ASSUME NEW hobs, HobsForm(hobs), NEW i \in 0..Len(hobs), NEW j \in 0..Len(hobs), i <= j
  PROVE  /\ RowsUpTo(hobs, i) <= RowsUpTo(hobs, j)
         /\ (\A n \in i + 1..j : hobs[n].type # "capsule") => RowsUpTo(hobs, i) = RowsUpTo(hobs, j)
<1> DEFINE m == Len(hobs)
           R(n) == RowsUpTo(hobs, n)
           Bare(n) == \A k \in i + 1..n : hobs[k].type # "capsule"
           S == {n \in Nat : n <= m /\ i <= n => R(i) <= R(n) /\ (Bare(n) => R(i) = R(n))}
<1>1. m \in Nat /\ (\A n \in 0..m : R(n) \in Nat)
      /\ \A n \in 1..m : RowsOf(hobs[n]) \in Nat /\ R(n) = R(n - 1) + RowsOf(hobs[n]) /\ (hobs[n].type # "capsule" => RowsOf(hobs[n]) = 0)
  BY RowsAre DEF HobsForm
<1> HIDE DEF m, R
<1>2. i \in 0..m /\ j \in 0..m
  BY DEF m
<1>3. 0 \in S
  <2>1. i <= 0 => i = 0 /\ R(0) \in Nat
    BY <1>1, <1>2
  <2> QED
    BY <2>1
<1>4. ASSUME NEW n \in Nat, n \in S PROVE n + 1 \in S
  <2>1. SUFFICES ASSUME n + 1 <= m, i <= n + 1 PROVE R(i) <= R(n + 1) /\ (Bare(n + 1) => R(i) = R(n + 1))
    OBVIOUS
  <2>2. n + 1 \in 1..m /\ n \in 0..m /\ (n + 1) - 1 = n
    BY <1>1, <2>1
  <2>3. R(n + 1) = R(n) + RowsOf(hobs[n + 1]) /\ R(n) \in Nat /\ R(n + 1) \in Nat /\ RowsOf(hobs[n + 1]) \in Nat /\ R(i) \in Nat
        /\ (hobs[n + 1].type # "capsule" => RowsOf(hobs[n + 1]) = 0)
    BY <1>1, <1>2, <2>2
  <2>4. CASE i <= n
    <3>1. R(i) <= R(n) /\ (Bare(n) => R(i) = R(n))
      BY <1>4, <2>2, <2>4
    <3>2. Bare(n + 1) => Bare(n) /\ hobs[n + 1].type # "capsule"
      BY <1>2, <2>4
    <3> QED
      BY <2>3, <3>1, <3>2
  <2>5. CASE i = n + 1
    BY <2>3, <2>5
  <2> QED
    BY <1>2, <2>1, <2>4, <2>5
<1> HIDE DEF S
<1>5. Nat \subseteq S
  BY <1>3, <1>4, Induction
<1>6. j \in S /\ j <= m
  BY <1>2, <1>5
<1> QED
  BY <1>6 DEF S, R

(* Each row has a number of its own.                                       *)
LEMMA RowNumbersDiffer ==
  ASSUME NEW hobs, HobsForm(hobs), NEW i \in 1..Len(hobs), NEW j \in 1..Len(hobs),
         NEW k \in 1..RowsOf(hobs[i]), NEW n \in 1..RowsOf(hobs[j]), RowsUpTo(hobs, i - 1) + k = RowsUpTo(hobs, j - 1) + n
  PROVE  i = j /\ k = n
<1> DEFINE R(x) == RowsUpTo(hobs, x)
<1>0. Len(hobs) \in Nat
  BY DEF HobsForm
<1>1. ASSUME NEW x \in 1..Len(hobs), NEW y \in 1..Len(hobs), x < y
      PROVE  R(x) <= R(y - 1) /\ R(x) = R(x - 1) + RowsOf(hobs[x]) /\ R(x - 1) \in Nat /\ R(y - 1) \in Nat /\ RowsOf(hobs[x]) \in Nat
  <2>1. x \in 0..Len(hobs) /\ y - 1 \in 0..Len(hobs) /\ x <= y - 1 /\ x - 1 \in 0..Len(hobs)
    BY <1>0, <1>1
  <2> QED
    BY <2>1, RowsGrow, RowsAre
<1>2. R(i - 1) \in Nat /\ R(j - 1) \in Nat /\ RowsOf(hobs[i]) \in Nat /\ RowsOf(hobs[j]) \in Nat
  <2>1. i - 1 \in 0..Len(hobs) /\ j - 1 \in 0..Len(hobs)
    BY <1>0
  <2> QED
    BY <2>1, RowsAre
<1>3. R(i - 1) + k = R(j - 1) + n
  OBVIOUS
<1> HIDE DEF R
<1>4. ~(i < j)
  <2> SUFFICES ASSUME i < j PROVE FALSE
    OBVIOUS
  <2>1. R(i) <= R(j - 1) /\ R(i) = R(i - 1) + RowsOf(hobs[i])
    BY <1>1
  <2> QED
    BY <1>2, <1>3, <2>1
<1>5. ~(j < i)
  <2> SUFFICES ASSUME j < i PROVE FALSE
    OBVIOUS
  <2>1. R(j) <= R(i - 1) /\ R(j) = R(j - 1) + RowsOf(hobs[j])
    BY <1>1
  <2> QED
    BY <1>2, <1>3, <2>1
<1>6. i = j
  BY <1>0, <1>4, <1>5
<1> QED
  BY <1>2, <1>3, <1>6

(* The next capsule of the list is the first one behind the cursor.        *)
LEMMA NextHobIs ==
  ASSUME HobsForm(firmware.hobs), NEW from \in 1..Len(firmware.hobs) + 1
  PROVE  LET h == GetNextHob(from)
         IN  /\ h = 0 => \A i \in from..Len(firmware.hobs) : firmware.hobs[i].type # "capsule"
             /\ h # 0 => /\ h \in from..Len(firmware.hobs) /\ firmware.hobs[h].type = "capsule"
                         /\ \A i \in from..h - 1 : firmware.hobs[i].type # "capsule"
<1> DEFINE m == Len(firmware.hobs)
           S == {i \in from..m : firmware.hobs[i].type = "capsule"}
           First(i) == i \in S /\ \A j \in S : i <= j
<1>0. m \in Nat
  BY DEF HobsForm
<1>1. CASE S = {}
  BY <1>1 DEF GetNextHob
<1>2. CASE S # {}
  <2>1. S \in SUBSET (1..m)
    BY <1>0
  <2> HIDE DEF S, m
  <2>2. \E i : First(i)
    BY <1>0, <1>2, <2>1, FirstOf
  <2> DEFINE h == CHOOSE i : First(i)
  <2>3. First(h)
    BY <2>2
  <2>4. GetNextHob(from) = h
    BY <1>2 DEF GetNextHob, S, m
  <2> HIDE DEF h
  <2>5. h \in from..m /\ firmware.hobs[h].type = "capsule" /\ \A j \in S : h <= j
    BY <2>3 DEF S
  <2>6. ASSUME NEW i \in from..h - 1 PROVE firmware.hobs[i].type # "capsule"
    <3>1. i \in from..m /\ ~(h <= i)
      BY <1>0, <2>5
    <3> QED
      BY <2>5, <3>1 DEF S
  <2>7. h # 0
    BY <2>5
  <2> QED
    BY <2>4, <2>5, <2>6, <2>7 DEF m
<1> QED
  BY <1>1, <1>2

(* The rows of the ESRT protocol are a list of their own kind.             *)
LEMMA ManagedRowsAre ==
  ASSUME Len(firmware.esrt) \in Nat
  PROVE  IsList(ManagedRows) /\ Len(ManagedRows) \in Nat /\ \A n \in 1..Len(ManagedRows) : ManagedRows[n][1] = "managed"
<1> DEFINE m == Len(firmware.esrt)
           Row(n) == <<"managed", firmware.esrt[n]>>
           Rows == {Row(n) : n \in 1..m}
           V == Seq(Rows)
           Chosen(n) == firmware.esrt[n] \in firmware.managed
           move == [n \in 1..m |-> [x \in V |-> IF Chosen(n) THEN Append(x, Row(n)) ELSE x]]
           IsOf(f) == f = [n \in 0..m |-> IF n = 0 THEN <<>> ELSE IF Chosen(n) THEN Append(f[n - 1], Row(n)) ELSE f[n - 1]]
           e == CHOOSE f : IsOf(f)
<1>1. m \in Nat /\ \A n \in 1..m : Row(n) \in Rows
  OBVIOUS
<1>2. ManagedRows = e[m]
  BY DEF ManagedRows
<1>3. \A r \in Rows : r[1] = "managed"
  OBVIOUS
<1> HIDE DEF m, Row, Rows, Chosen
<1>4. \A n \in 1..m : move[n] \in [V -> V]
  BY <1>1
<1>5. <<>> \in V
  OBVIOUS
<1> HIDE DEF move, V
<1>6. PICK f : IsRecursion(f, V, <<>>, move, m)
  BY <1>1, <1>4, <1>5, Recursion
<1>7. f \in [0..m -> V] /\ f[0] = <<>> /\ \A n \in 1..m : f[n] = move[n][f[n - 1]]
  BY <1>6 DEF IsRecursion
<1>8. \A n \in 1..m : f[n - 1] \in V /\ f[n] = IF Chosen(n) THEN Append(f[n - 1], Row(n)) ELSE f[n - 1]
  <2> TAKE n \in 1..m
  <2>1. n - 1 \in 0..m /\ f[n - 1] \in V
    BY <1>1, <1>7
  <2> QED
    BY <1>7, <2>1 DEF move
<1>9. IsOf(f)
  <2> DEFINE g == [n \in 0..m |-> IF n = 0 THEN <<>> ELSE IF Chosen(n) THEN Append(f[n - 1], Row(n)) ELSE f[n - 1]]
  <2>1. ASSUME NEW n \in 0..m PROVE g[n] = f[n]
    <3>1. g[n] = IF n = 0 THEN <<>> ELSE IF Chosen(n) THEN Append(f[n - 1], Row(n)) ELSE f[n - 1]
      OBVIOUS
    <3> HIDE DEF g
    <3>2. CASE n = 0
      BY <1>7, <3>1, <3>2
    <3>3. CASE n # 0
      <4>1. n \in 1..m
        BY <1>1, <3>3
      <4> QED
        BY <1>8, <3>1, <3>3, <4>1
    <3> QED
      BY <3>2, <3>3
  <2>2. g \in [0..m -> V]
    <3> SUFFICES ASSUME NEW n \in 0..m PROVE g[n] \in V
      OBVIOUS
    <3> QED
      BY <1>7, <2>1
  <2> HIDE DEF g
  <2>3. g = f
    <3>1. g = [n \in 0..m |-> g[n]] /\ f = [n \in 0..m |-> f[n]]
      BY <1>7, <2>2
    <3> QED
      BY <2>1, <3>1
  <2> QED
    BY <2>3 DEF g
<1>10. IsOf(e)
  <2> HIDE DEF IsOf
  <2> QED
    BY <1>9
<1> HIDE DEF e
<1>11. e[0] = <<>> /\ \A n \in 1..m : e[n] = IF Chosen(n) THEN Append(e[n - 1], Row(n)) ELSE e[n - 1]
  <2> DEFINE B(n) == IF n = 0 THEN <<>> ELSE IF Chosen(n) THEN Append(e[n - 1], Row(n)) ELSE e[n - 1]
  <2>1. e = [n \in 0..m |-> B(n)]
    BY <1>10
  <2> HIDE DEF B
  <2>2. \A n \in 0..m : e[n] = B(n)
    BY <2>1
  <2>3. 0 \in 0..m /\ \A n \in 1..m : n \in 0..m /\ n # 0
    BY <1>1
  <2> QED
    BY <2>2, <2>3 DEF B
<1>12. e[m] \in V
  <2> DEFINE S == {n \in Nat : n <= m => e[n] \in V}
  <2>1. 0 \in S
    BY <1>5, <1>11
  <2>2. ASSUME NEW n \in Nat, n \in S PROVE n + 1 \in S
    <3>1. SUFFICES ASSUME n + 1 <= m PROVE e[n + 1] \in V
      OBVIOUS
    <3>2. n + 1 \in 1..m /\ (n + 1) - 1 = n /\ n <= m
      BY <1>1, <3>1
    <3>3. e[n] \in V /\ (e[n + 1] = IF Chosen(n + 1) THEN Append(e[n], Row(n + 1)) ELSE e[n]) /\ Row(n + 1) \in Rows
      BY <1>1, <1>11, <2>2, <3>2
    <3>4. Append(e[n], Row(n + 1)) \in V
      BY <3>3 DEF V
    <3> QED
      BY <3>3, <3>4
  <2> HIDE DEF S
  <2>3. Nat \subseteq S
    BY <2>1, <2>2, Induction
  <2> QED
    BY <1>1, <2>3 DEF S
<1>13. e[m] \in Seq(Rows)
  BY <1>12 DEF V
<1>14. Len(e[m]) \in Nat /\ \A n \in 1..Len(e[m]) : e[m][n] \in Rows
  BY <1>13, ElementOfSeq
<1> QED
  BY <1>2, <1>3, <1>13, <1>14 DEF IsList

(* Each descriptor is found at its own start, and each payload where it    *)
(* lies.                                                                   *)
LEMMA DescriptorAtIs ==
  ASSUME NEW p, p.size \in Nat \ {0}, p.count \in Nat, NEW k \in 1..p.count
  PROVE  DescriptorAt(p, (k - 1) * DescriptorStep(p)) = k
<1> DEFINE W == p.size
           q == k - 1
           a == q * W
<1>1. W \in Nat \ {0} /\ q \in Nat /\ a \in Int
  OBVIOUS
<1>2. a % W \in 0..W - 1 /\ a \div W \in Int /\ a = W * (a \div W) + (a % W)
  <2> HIDE DEF a, W
  <2> QED
    BY <1>1
<1>3. a % W = 0 /\ a \div W = q
  <2> DEFINE r == a % W
             d == a \div W
  <2>1. r \in 0..W - 1 /\ d \in Int /\ q * W = W * d + r
    BY <1>2 DEF a
  <2> HIDE DEF r, d, W, q
  <2>2. r - 0 = W * (q - d) /\ q - d \in Int /\ 0 \in 0..W - 1
    BY <1>1, <2>1
  <2>3. r = 0
    BY <1>1, <2>1, <2>2, ModUnique
  <2>4. W * (q - d) = 0
    BY <2>2, <2>3
  <2>5. q = d
    BY <1>1, <2>1, <2>4
  <2> QED
    BY <2>3, <2>5 DEF r, d
<1>4. (k - 1) * DescriptorStep(p) = a
  BY DEF DescriptorStep
<1>5. q < p.count /\ q + 1 = k
  OBVIOUS
<1> HIDE DEF a, q
<1> QED
  BY <1>3, <1>4, <1>5 DEF DescriptorAt, W

LEMMA HeaderAtIs ==
  ASSUME NEW c, CapsuleForm(c), NEW k \in 1..Len(c.payloads)
  PROVE  HeaderAt(c, FromFmpHeader(c, c.payloads[k])) = k
<1> DEFINE at == {j \in 1..Len(c.payloads) : c.headerSize + c.payloads[j] = FromFmpHeader(c, c.payloads[k])}
<1>1. k \in at
  BY DEF FromFmpHeader
<1>2. ASSUME NEW j \in at PROVE j = k
  <2>1. j \in 1..Len(c.payloads) /\ c.headerSize + c.payloads[j] = c.headerSize + c.payloads[k]
    BY DEF FromFmpHeader
  <2>2. c.headerSize \in Nat /\ c.payloads[j] \in Nat /\ c.payloads[k] \in Nat /\ (j # k => c.payloads[j] # c.payloads[k])
    BY <2>1 DEF CapsuleForm
  <2> QED
    BY <2>1, <2>2
<1>3. at = {k}
  BY <1>1, <1>2
<1>4. HeaderAt(c, FromFmpHeader(c, c.payloads[k])) = IF at = {} THEN NoItem ELSE CHOOSE j \in at : TRUE
  BY DEF HeaderAt
<1> HIDE DEF at
<1> QED
  BY <1>3, <1>4

(* What the place of the run says of the firmware.                         *)
LEMMA FirmwareFacts ==
  ASSUME EsrtPlaceInv
  PROVE  /\ FirmwareForm(firmware) /\ HobsForm(firmware.hobs) /\ Len(firmware.fmps) \in Nat /\ Len(firmware.hobs) \in Nat
         /\ Len(sections) \in Nat /\ Extends(sections, sections, <<>>) /\ Len(<<>>) = 0
<1>1. FirmwareForm(firmware)
  BY FirmwareAssumption DEF EsrtPlaceInv
<1>2. Extends(sections, sections, <<>>)
  BY NothingExtends DEF EsrtPlaceInv
<1> QED
  BY <1>1, <1>2, EmptySeq DEF FirmwareForm, HobsForm, Extends

(* Rows that are no descriptors leave those that are where they were.      *)
LEMMA ImagesStay ==
  ASSUME EsrtPlaceInv, firmware' = firmware, NEW t, Extends(sections', sections, t), NEW f \in 1..Len(firmware.fmps),
         \A n \in 1..Len(t) : t[n][1] # "image" \/ t[n][2] # f
  PROVE  ImageRows(f)' = ImageRows(f) /\ (ShownInFull(f) => ShownInFull(f)')
<1>1. /\ Len(sections) \in Nat /\ Len(t) \in Nat /\ Len(sections') = Len(sections) + Len(t)
      /\ \A n \in 1..Len(sections) : sections'[n] = sections[n]
  BY DEF Extends
<1>2. ASSUME NEW n \in 1..Len(sections'), n \notin 1..Len(sections)
      PROVE  sections'[n][1] # "image" \/ sections'[n][2] # f
  <2>1. n - Len(sections) \in 1..Len(t) /\ n = Len(sections) + (n - Len(sections))
    BY <1>1, <1>2
  <2>2. sections'[n] = t[n - Len(sections)]
    BY <2>1 DEF Extends
  <2> QED
    BY <2>1, <2>2
<1>3. ImageRows(f)' = ImageRows(f)
  <2>1. ASSUME NEW n PROVE n \in ImageRows(f)' <=> n \in ImageRows(f)
    <3>1. n \in ImageRows(f)' <=> n \in 1..Len(sections') /\ sections'[n][1] = "image" /\ sections'[n][2] = f
      BY DEF ImageRows
    <3>2. n \in ImageRows(f) <=> n \in 1..Len(sections) /\ sections[n][1] = "image" /\ sections[n][2] = f
      BY DEF ImageRows
    <3>3. n \in 1..Len(sections) => n \in 1..Len(sections') /\ sections'[n] = sections[n]
      BY <1>1
    <3> QED
      BY <1>2, <3>1, <3>2, <3>3
  <2> QED
    BY <2>1
<1>4. ASSUME ShownInFull(f) PROVE ShownInFull(f)'
  <2> DEFINE count == firmware.fmps[f].count
  <2>1. PICK before \in 0..Len(sections) :
          ImageRows(f) = before + 1..before + count /\ \A k \in 1..count : sections[before + k] = <<"image", f, k>>
    BY <1>4 DEF ShownInFull
  <2>2. ASSUME NEW k \in 1..count PROVE sections'[before + k] = <<"image", f, k>>
    <3>1. before + k \in 1..Len(sections)
      <4>1. before + k \in before + 1..before + count
        BY FirmwareFacts DEF FirmwareForm
      <4> QED
        BY <2>1, <4>1 DEF ImageRows
    <3> QED
      BY <1>1, <2>1, <3>1
  <2>3. before \in 0..Len(sections')
    BY <1>1
  <2>4. (firmware.fmps[f].count)' = count
    OBVIOUS
  <2> HIDE DEF count
  <2> QED
    BY <1>3, <2>1, <2>2, <2>3, <2>4 DEF ShownInFull
<1> QED
  BY <1>3, <1>4

LEMMA DescriptorsKeep ==
  ASSUME EsrtPlaceInv, EsrtDescriptorsInv, firmware' = firmware, NEW t, Extends(sections', sections, t),
         \A n \in 1..Len(t) : t[n][1] # "image", fmpFailures \subseteq fmpFailures',
         \A f \in 1..Len(firmware.fmps) : (FmpPassed(f) => FmpPassed(f)') /\ (FmpPassed(f)' => FmpPassed(f) \/ f \in fmpFailures')
  PROVE  EsrtDescriptorsInv'
<1> SUFFICES ASSUME NEW f \in 1..Len(firmware.fmps)
             PROVE  /\ ImageRows(f)' = {} \/ ShownInFull(f)'
                    /\ IF FmpPassed(f)' THEN f \in fmpFailures' \/ ShownInFull(f)' ELSE ImageRows(f)' = {}
  BY DEF EsrtDescriptorsInv
<1>1. ImageRows(f)' = ImageRows(f) /\ (ShownInFull(f) => ShownInFull(f)')
  BY ImagesStay
<1>2. /\ ImageRows(f) = {} \/ ShownInFull(f)
      /\ IF FmpPassed(f) THEN f \in fmpFailures \/ ShownInFull(f) ELSE ImageRows(f) = {}
  BY DEF EsrtDescriptorsInv
<1> QED
  BY <1>1, <1>2

(* Rows that are no capsules leave those that are where they were.         *)
NoCapsuleIn(t) == \A n \in 1..Len(t) : t[n][1] \notin {"capsule", "header"}
LEMMA CapsulesStay ==
  ASSUME EsrtPlaceInv, firmware' = firmware, NEW t, Extends(sections', sections, t), NoCapsuleIn(t),
         NEW before \in Nat, NEW rows \in Nat, CapsulesFrom(before, rows)
  PROVE  CapsulesFrom(before, rows)'
<1>1. /\ Len(sections) \in Nat /\ Len(t) \in Nat /\ Len(sections') = Len(sections) + Len(t)
      /\ \A n \in 1..Len(sections) : sections'[n] = sections[n]
  BY DEF Extends
<1>2. ASSUME NEW n \in 1..Len(sections'), n \notin 1..Len(sections)
      PROVE  sections'[n][1] \notin {"capsule", "header"}
  <2>1. n - Len(sections) \in 1..Len(t) /\ n = Len(sections) + (n - Len(sections))
    BY <1>1, <1>2
  <2>2. sections'[n] = t[n - Len(sections)]
    BY <2>1 DEF Extends
  <2> QED
    BY <2>1, <2>2 DEF NoCapsuleIn
<1>3. CapsuleRows' = CapsuleRows
  <2>1. ASSUME NEW n PROVE n \in CapsuleRows' <=> n \in CapsuleRows
    <3>1. n \in CapsuleRows' <=> n \in 1..Len(sections') /\ sections'[n][1] \in {"capsule", "header"}
      BY DEF CapsuleRows
    <3>2. n \in CapsuleRows <=> n \in 1..Len(sections) /\ sections[n][1] \in {"capsule", "header"}
      BY DEF CapsuleRows
    <3>3. n \in 1..Len(sections) => n \in 1..Len(sections') /\ sections'[n] = sections[n]
      BY <1>1
    <3> QED
      BY <1>2, <3>1, <3>2, <3>3
  <2> QED
    BY <2>1
<1>4. ASSUME NEW i \in 1..Len(firmware.hobs), NEW k \in 1..RowsOf(firmware.hobs[i]), RowsUpTo(firmware.hobs, i - 1) + k <= rows
      PROVE  sections'[before + (RowsUpTo(firmware.hobs, i - 1) + k)] = RowOf(firmware.hobs, i, k)
  <2> DEFINE n == RowsUpTo(firmware.hobs, i - 1) + k
  <2>1. sections[before + n] = RowOf(firmware.hobs, i, k)
    BY <1>4 DEF CapsulesFrom
  <2>2. n \in 1..rows
    <3>1. i - 1 \in 0..Len(firmware.hobs)
      BY FirmwareFacts
    <3>2. RowsUpTo(firmware.hobs, i - 1) \in Nat /\ RowsOf(firmware.hobs[i]) \in Nat
      BY <3>1, FirmwareFacts, RowsAre
    <3> QED
      BY <1>4, <3>2
  <2> HIDE DEF n
  <2>3. before + n \in before + 1..before + rows
    BY <2>2
  <2>4. before + n \in 1..Len(sections)
    BY <2>3 DEF CapsulesFrom, CapsuleRows
  <2> QED
    BY <1>1, <2>1, <2>4 DEF n
<1> QED
  BY <1>3, <1>4 DEF CapsulesFrom

(* Without any row they may as well begin anywhere.                        *)
LEMMA NoCapsuleYet ==
  ASSUME EsrtPlaceInv, NEW before \in Nat, CapsulesFrom(before, 0), NEW other \in Nat
  PROVE  CapsulesFrom(other, 0)
<1>1. CapsuleRows = {} /\ other + 1..other + 0 = {}
  BY DEF CapsulesFrom
<1>2. ASSUME NEW i \in 1..Len(firmware.hobs), NEW k \in 1..RowsOf(firmware.hobs[i])
      PROVE  ~(RowsUpTo(firmware.hobs, i - 1) + k <= 0)
  <2>1. i - 1 \in 0..Len(firmware.hobs)
    BY FirmwareFacts
  <2>2. RowsUpTo(firmware.hobs, i - 1) \in Nat /\ RowsOf(firmware.hobs[i]) \in Nat
    BY <2>1, FirmwareFacts, RowsAre
  <2> QED
    BY <2>2
<1> QED
  BY <1>1, <1>2 DEF CapsulesFrom

(* The place of the next row.                                              *)
LEMMA NextPlace ==
  ASSUME NEW a \in Nat, NEW b \in Nat, NEW c, a + b = c
  PROVE  a + (b + 1) = c + 1
  OBVIOUS

(* One row more, right behind those shown.                                 *)
LEMMA CapsuleRowShown ==
  ASSUME EsrtPlaceInv, firmware' = firmware, NEW i \in 1..Len(firmware.hobs), NEW k \in 1..RowsOf(firmware.hobs[i]),
         NEW before \in Nat, NEW rows \in Nat, CapsulesFrom(before, rows), before + rows = Len(sections),
         rows + 1 = RowsUpTo(firmware.hobs, i - 1) + k, sections' = Append(sections, RowOf(firmware.hobs, i, k))
  PROVE  CapsulesFrom(before, rows + 1)' /\ before + (rows + 1) = Len(sections') /\ IsList(sections')
<1> DEFINE row == RowOf(firmware.hobs, i, k)
<1>0. before + (rows + 1) = Len(sections) + 1
  BY NextPlace, Zenon
<1>1. Extends(sections', sections, <<row>>) /\ Len(<<row>>) = 1 /\ <<row>>[1] = row
  BY RowExtends DEF EsrtPlaceInv
<1>2. row[1] \in {"capsule", "header"}
  BY DEF RowOf
<1> HIDE DEF row
<1>3. /\ Len(sections) \in Nat /\ Len(sections') = Len(sections) + 1 /\ sections'[Len(sections) + 1] = row
      /\ \A n \in 1..Len(sections) : sections'[n] = sections[n]
  <2>1. 1 \in 1..Len(<<row>>)
    BY <1>1
  <2> QED
    BY <1>1, <2>1 DEF Extends
<1>4. CapsuleRows' = before + 1..before + (rows + 1)
  <2>1. ASSUME NEW n PROVE n \in CapsuleRows' <=> n \in before + 1..before + (rows + 1)
    <3>1. n \in CapsuleRows' <=> n \in 1..Len(sections') /\ sections'[n][1] \in {"capsule", "header"}
      BY DEF CapsuleRows
    <3>2. n \in before + 1..before + rows <=> n \in 1..Len(sections) /\ sections[n][1] \in {"capsule", "header"}
      BY DEF CapsuleRows, CapsulesFrom
    <3>3. CASE n = Len(sections) + 1
      BY <1>2, <1>3, <3>1, <3>3
    <3>4. CASE n # Len(sections) + 1
      <4>1. n \in 1..Len(sections') <=> n \in 1..Len(sections)
        BY <1>3, <3>4
      <4>2. n \in before + 1..before + (rows + 1) <=> n \in before + 1..before + rows
        BY <3>4
      <4> QED
        BY <1>3, <3>1, <3>2, <4>1, <4>2
    <3> QED
      BY <3>3, <3>4
  <2> QED
    BY <2>1
<1>5. ASSUME NEW j \in 1..Len(firmware.hobs), NEW l \in 1..RowsOf(firmware.hobs[j]), RowsUpTo(firmware.hobs, j - 1) + l <= rows + 1
      PROVE  sections'[before + (RowsUpTo(firmware.hobs, j - 1) + l)] = RowOf(firmware.hobs, j, l)
  <2> DEFINE n == RowsUpTo(firmware.hobs, j - 1) + l
  <2>1. n \in Nat /\ n >= 1
    <3>1. HobsForm(firmware.hobs)
      BY FirmwareFacts
    <3>2. RowsUpTo(firmware.hobs, j - 1) \in Nat /\ RowsOf(firmware.hobs[j]) \in Nat
      BY <3>1, RowsBefore
    <3> DEFINE up == RowsUpTo(firmware.hobs, j - 1)
               many == RowsOf(firmware.hobs[j])
    <3>3. up \in Nat /\ many \in Nat /\ l \in 1..many
      BY <3>2
    <3> HIDE DEF up, many
    <3>4. up + l \in Nat /\ up + l >= 1
      BY <3>3
    <3> QED
      BY <3>4 DEF up
  <2>2. CASE n = rows + 1
    <3>1. RowsUpTo(firmware.hobs, i - 1) + k = RowsUpTo(firmware.hobs, j - 1) + l
      BY <2>2
    <3>2. i = j /\ k = l
      BY <3>1, FirmwareFacts, RowNumbersDiffer
    <3> HIDE DEF n
    <3>3. before + n = Len(sections) + 1
      BY <1>0, <2>2, Zenon
    <3>4. sections'[before + n] = RowOf(firmware.hobs, j, l)
      BY <1>3, <3>2, <3>3 DEF row
    <3> QED
      BY <3>4 DEF n
  <2>3. CASE n # rows + 1
    <3>1. n <= rows
      BY <1>5, <2>1, <2>3
    <3>2. sections[before + n] = RowOf(firmware.hobs, j, l)
      BY <3>1 DEF CapsulesFrom
    <3> HIDE DEF n
    <3>3. before + n \in 1..Len(sections)
      BY <2>1, <3>1
    <3>4. sections'[before + n] = RowOf(firmware.hobs, j, l)
      BY <1>3, <3>2, <3>3
    <3> QED
      BY <3>4 DEF n
  <2> QED
    BY <2>2, <2>3
<1>6. CapsulesFrom(before, rows + 1)'
  BY <1>4, <1>5 DEF CapsulesFrom
<1>7. before + (rows + 1) = Len(sections') /\ IsList(sections')
  BY <1>1, <1>3 DEF Extends
<1> QED
  BY <1>6, <1>7

(* Before the capsules no row of theirs is shown, behind them no more.     *)
LEMMA CapsulesKeepEarly ==
  ASSUME EsrtPlaceInv, EsrtCapsulesInv, firmware' = firmware, NEW t, Extends(sections', sections, t), NoCapsuleIn(t),
         RowsPassed = 0, RowsPassed' = 0
  PROVE  EsrtCapsulesInv'
<1>1. PICK before \in 0..Len(sections) : CapsulesFrom(before, 0)
  BY DEF EsrtCapsulesInv
<1>2. Len(sections) \in Nat /\ Len(sections') \in Nat
  BY DEF Extends
<1>3. PICK other \in Nat : other = Len(sections')
  BY <1>2
<1>4. CapsulesFrom(other, 0)
  BY <1>1, <1>2, NoCapsuleYet
<1>5. CapsulesFrom(other, 0)'
  BY <1>4, CapsulesStay
<1>6. CapsulesFrom(other, RowsPassed)'
  BY <1>5 DEF CapsulesFrom
<1>7. other \in 0..Len(sections') /\ other + RowsPassed' = Len(sections')
  BY <1>3
<1> QED
  BY <1>6, <1>7 DEF EsrtCapsulesInv

LEMMA CapsulesKeepLate ==
  ASSUME EsrtPlaceInv, EsrtCapsulesInv, firmware' = firmware, NEW t, Extends(sections', sections, t), NoCapsuleIn(t),
         RowsPassed' = RowsPassed, RowsPassed \in Nat, epc' \in {"hobs", "items"} => epc \in {"hobs", "items"} /\ Len(t) = 0
  PROVE  EsrtCapsulesInv'
<1>1. PICK before \in 0..Len(sections) :
        CapsulesFrom(before, RowsPassed) /\ (epc \in {"hobs", "items"} => before + RowsPassed = Len(sections))
  BY DEF EsrtCapsulesInv
<1>2. Len(sections) \in Nat /\ Len(t) \in Nat /\ Len(sections') = Len(sections) + Len(t)
  BY DEF Extends
<1>3. CapsulesFrom(before, RowsPassed)'
  <2>1. PICK rows \in Nat : rows = RowsPassed
    OBVIOUS
  <2>2. CapsulesFrom(before, rows) /\ before \in Nat
    BY <1>1, <2>1 DEF CapsulesFrom
  <2>3. CapsulesFrom(before, rows)'
    BY <2>2, CapsulesStay
  <2>4. rows = RowsPassed'
    BY <2>1
  <2> QED
    BY <2>3, <2>4 DEF CapsulesFrom
<1>4. before \in 0..Len(sections') /\ (epc' \in {"hobs", "items"} => before + RowsPassed' = Len(sections'))
  BY <1>1, <1>2
<1> QED
  BY <1>3, <1>4 DEF EsrtCapsulesInv

LEMMA EsrtStart == EsrtInit => EsrtInv
<1> SUFFICES ASSUME EsrtInit PROVE EsrtInv
  OBVIOUS
<1>1. firmware \in Firmwares /\ epc = "locate" /\ fmp = 1 /\ fmpHeld = {} /\ hob = 1 /\ item = 1 /\ sections = <<>> /\ fmpCut = FALSE
  BY DEF EsrtInit
<1>2. EsrtPlaceInv
  <2>1. Len(firmware.hobs) \in Nat
    BY <1>1, FirmwareAssumption DEF FirmwareForm
  <2>2. IsList(<<>>)
    BY EmptySeq DEF IsList
  <2>3. IsList(sections)
    BY <1>1, <2>2
  <2>4. hob \in 1..Len(firmware.hobs) + 1
    BY <1>1, <2>1
  <2>5. fmp \in Nat \ {0} /\ item \in Nat \ {0} /\ sections = <<>>
    BY <1>1
  <2>6. fmpCut \in BOOLEAN
    BY <1>1, Zenon
  <2> QED
    BY <1>1, <2>3, <2>4, <2>5, <2>6 DEF EsrtPlaceInv
<1>3. Len(sections) = 0 /\ Len(firmware.fmps) \in Nat
  BY <1>1, <1>2, FirmwareFacts
<1>4. EsrtDescriptorsInv
  BY <1>1, <1>3 DEF EsrtDescriptorsInv, ImageRows, FmpPassed
<1>5. EsrtCapsulesInv
  <2>1. RowsPassed = 0
    BY <1>1 DEF RowsPassed
  <2>2. CapsulesFrom(0, 0)
    <3>1. ASSUME NEW i \in 1..Len(firmware.hobs), NEW k \in 1..RowsOf(firmware.hobs[i])
          PROVE  ~(RowsUpTo(firmware.hobs, i - 1) + k <= 0)
      <4>1. i - 1 \in 0..Len(firmware.hobs)
        BY <1>2, FirmwareFacts
      <4>2. RowsUpTo(firmware.hobs, i - 1) \in Nat /\ RowsOf(firmware.hobs[i]) \in Nat
        BY <1>2, <4>1, FirmwareFacts, RowsAre
      <4> QED
        BY <4>2
    <3> QED
      BY <1>3, <3>1 DEF CapsulesFrom, CapsuleRows
  <2> QED
    BY <1>1, <1>3, <2>1, <2>2 DEF EsrtCapsulesInv
<1>6. EsrtBuffersInv
  BY <1>1 DEF EsrtBuffersInv
<1> QED
  BY <1>2, <1>4, <1>5, <1>6 DEF EsrtInv

(* The parts of the invariant, and what they say of the constants.         *)
LEMMA EsrtFacts ==
  ASSUME EsrtInv
  PROVE  /\ EsrtPlaceInv /\ EsrtBuffersInv /\ EsrtDescriptorsInv /\ EsrtCapsulesInv
         /\ fmp \in Nat \ {0} /\ Len(firmware.fmps) \in Nat /\ Len(firmware.hobs) \in Nat /\ Len(sections) \in Nat
         /\ IsList(sections) /\ Extends(sections, sections, <<>>) /\ Len(<<>>) = 0
         /\ (\A n \in 1..Len(<<>>) : <<>>[n][1] # "image") /\ NoCapsuleIn(<<>>)
         /\ HobsForm(firmware.hobs) /\ RowsUpTo(firmware.hobs, 0) = 0 /\ hob \in 1..Len(firmware.hobs) + 1
<1>1. EsrtPlaceInv
  BY DEF EsrtInv
<1>2. HobsForm(firmware.hobs) /\ Len(<<>>) = 0
  BY <1>1, FirmwareFacts
<1>3. (\A n \in 1..Len(<<>>) : <<>>[n][1] # "image") /\ NoCapsuleIn(<<>>)
  BY <1>2 DEF NoCapsuleIn
<1>4. RowsUpTo(firmware.hobs, 0) = 0
  BY <1>2, RowsAre
<1>5. EsrtPlaceInv /\ EsrtBuffersInv /\ EsrtDescriptorsInv /\ EsrtCapsulesInv
  BY DEF EsrtInv
<1>6. fmp \in Nat \ {0} /\ IsList(sections) /\ hob \in 1..Len(firmware.hobs) + 1
  BY <1>1 DEF EsrtPlaceInv
<1>7. Len(firmware.fmps) \in Nat /\ Len(firmware.hobs) \in Nat /\ Len(sections) \in Nat /\ Extends(sections, sections, <<>>)
  BY <1>1, FirmwareFacts
<1> QED
  BY <1>2, <1>3, <1>4, <1>5, <1>6, <1>7

(* Steps of DumpFmpData that show nothing.                                 *)
LEMMA FmpQuiet ==
  ASSUME EsrtInv, firmware' = firmware, sections' = sections, hob' = hob, item' = item,
         epc \in {"locate", "fmp", "info", "package"}, epc' \in {"fmp", "info", "package", "hobs"}, EsrtPlaceInv', EsrtBuffersInv',
         fmpFailures \subseteq fmpFailures',
         \A f \in 1..Len(firmware.fmps) : (FmpPassed(f) => FmpPassed(f)') /\ (FmpPassed(f)' => FmpPassed(f) \/ f \in fmpFailures')
  PROVE  EsrtInv'
<1>1. Extends(sections', sections, <<>>)
  BY EsrtFacts
<1>2. EsrtDescriptorsInv'
  BY <1>1, EsrtFacts, DescriptorsKeep
<1>3. RowsPassed = 0 /\ RowsPassed' = 0
  <2>1. hob = 1
    BY EsrtFacts DEF EsrtPlaceInv
  <2>2. RowsUpTo(firmware'.hobs, hob' - 1) = 0
    BY <2>1, EsrtFacts
  <2> QED
    BY <2>2 DEF RowsPassed
<1>4. EsrtCapsulesInv'
  BY <1>1, <1>3, EsrtFacts, CapsulesKeepEarly
<1> QED
  BY <1>2, <1>4 DEF EsrtInv

(* Each step of DumpFmpData keeps the invariant.                           *)
LEMMA LocateFmpsKeeps == ASSUME EsrtInv, LocateFmps PROVE EsrtInv'
<1>1. epc = "locate" /\ epc' \in {"fmp", "hobs"} /\ UNCHANGED <<firmware, fmp, hob, item, sections, fmpFailures>>
  BY DEF LocateFmps
<1>2. EsrtPlaceInv'
  BY <1>1, EsrtFacts DEF LocateFmps, EsrtPlaceInv
<1>3. EsrtBuffersInv'
  BY EsrtFacts DEF LocateFmps, EsrtBuffersInv
<1>4. \A f \in 1..Len(firmware.fmps) : FmpPassed(f)' = FmpPassed(f)
  BY <1>1 DEF FmpPassed
<1> QED
  BY <1>1, <1>2, <1>3, <1>4, FmpQuiet

LEMMA FmpsEndKeeps == ASSUME EsrtInv, FmpsEnd PROVE EsrtInv'
<1>1. epc = "fmp" /\ fmp > Len(firmware.fmps) /\ epc' = "hobs" /\ fmpHeld' = fmpHeld \ {"HandleBuffer"}
      /\ UNCHANGED <<firmware, fmp, hob, item, sections, fmpFailures, fmpCut>>
  BY DEF FmpsEnd
<1>2. EsrtPlaceInv'
  BY <1>1, EsrtFacts DEF EsrtPlaceInv
<1>3. EsrtBuffersInv'
  BY <1>1, EsrtFacts DEF EsrtBuffersInv
<1>4. \A f \in 1..Len(firmware.fmps) : FmpPassed(f)' = FmpPassed(f)
  BY <1>1 DEF FmpPassed
<1> QED
  BY <1>1, <1>2, <1>3, <1>4, FmpQuiet

LEMMA GetImageInfoSizeKeeps == ASSUME EsrtInv, GetImageInfoSize PROVE EsrtInv'
<1>1. epc = "fmp" /\ fmp <= Len(firmware.fmps) /\ UNCHANGED <<firmware, hob, item, sections>>
  BY DEF GetImageInfoSize
<1>2. fmpHeld = {"HandleBuffer"}
  BY <1>1, EsrtFacts DEF EsrtBuffersInv
<1>3. CASE epc' = "info" /\ fmp' = fmp /\ fmpHeld' = fmpHeld \cup {"FmpImageInfoBuf"} /\ UNCHANGED <<fmpFailures, fmpCut>>
  <2>1. EsrtPlaceInv'
    BY <1>1, <1>3, EsrtFacts DEF EsrtPlaceInv
  <2>2. EsrtBuffersInv'
    BY <1>2, <1>3 DEF EsrtBuffersInv
  <2>3. \A f \in 1..Len(firmware.fmps) : FmpPassed(f)' = FmpPassed(f)
    BY <1>1, <1>3 DEF FmpPassed
  <2> QED
    BY <1>1, <1>3, <2>1, <2>2, <2>3, FmpQuiet
<1>4. CASE epc' = "fmp" /\ fmp' = fmp + 1 /\ UNCHANGED <<fmpHeld, fmpCut>> /\ fmpFailures' = fmpFailures \cup {fmp}
  <2>1. EsrtPlaceInv'
    BY <1>1, <1>4, EsrtFacts DEF EsrtPlaceInv
  <2>2. EsrtBuffersInv'
    BY <1>2, <1>4 DEF EsrtBuffersInv
  <2>3. \A f \in 1..Len(firmware.fmps) : (FmpPassed(f) => FmpPassed(f)') /\ (FmpPassed(f)' => FmpPassed(f) \/ f \in fmpFailures')
    BY <1>1, <1>4, EsrtFacts DEF FmpPassed
  <2> QED
    BY <1>1, <1>4, <2>1, <2>2, <2>3, FmpQuiet
<1>5. CASE epc' = "hobs" /\ fmp' = fmp /\ fmpHeld' = fmpHeld \ {"HandleBuffer"} /\ fmpCut' = TRUE /\ UNCHANGED fmpFailures
  <2>1. EsrtPlaceInv'
    BY <1>1, <1>5, EsrtFacts DEF EsrtPlaceInv
  <2>2. EsrtBuffersInv'
    BY <1>2, <1>5 DEF EsrtBuffersInv
  <2>3. \A f \in 1..Len(firmware.fmps) : FmpPassed(f)' = FmpPassed(f)
    BY <1>1, <1>5 DEF FmpPassed
  <2> QED
    BY <1>1, <1>5, <2>1, <2>2, <2>3, FmpQuiet
<1> QED
  BY <1>3, <1>4, <1>5 DEF GetImageInfoSize

LEMMA GetImageInfoKeeps == ASSUME EsrtInv, GetImageInfo PROVE EsrtInv'
<1>1. epc = "info" /\ fmp \in 1..Len(firmware.fmps) /\ hob = 1 /\ fmpHeld' = {"HandleBuffer"} /\ UNCHANGED <<firmware, hob, item, fmpCut>>
  <2>1. epc = "info" /\ fmpHeld' = fmpHeld \ {"FmpImageInfoBuf"} /\ UNCHANGED <<firmware, hob, item, fmpCut>>
    BY DEF GetImageInfo, FreeInfoBuf
  <2>2. fmpHeld = {"HandleBuffer", "FmpImageInfoBuf"}
    BY <2>1, EsrtFacts DEF EsrtBuffersInv
  <2> QED
    BY <2>1, <2>2, EsrtFacts DEF EsrtPlaceInv
<1>2. CASE epc' = "fmp" /\ fmp' = fmp + 1 /\ UNCHANGED sections /\ fmpFailures' = fmpFailures \cup {fmp}
  <2>1. EsrtPlaceInv'
    BY <1>1, <1>2, EsrtFacts DEF EsrtPlaceInv
  <2>2. EsrtBuffersInv'
    BY <1>1, <1>2 DEF EsrtBuffersInv
  <2>3. \A f \in 1..Len(firmware.fmps) : (FmpPassed(f) => FmpPassed(f)') /\ (FmpPassed(f)' => FmpPassed(f) \/ f \in fmpFailures')
    BY <1>1, <1>2, EsrtFacts DEF FmpPassed
  <2> QED
    BY <1>1, <1>2, <2>1, <2>2, <2>3, FmpQuiet
<1>3. CASE sections' = sections \o DumpFmpImageInfo(firmware.fmps[fmp]) /\ epc' = "package" /\ fmp' = fmp /\ UNCHANGED fmpFailures
  <2> DEFINE t == DumpFmpImageInfo(firmware.fmps[fmp])
             count == firmware.fmps[fmp].count
  <2>1. count \in Nat /\ firmware.fmps[fmp].size \in Nat \ {0}
    BY <1>1, EsrtFacts, FirmwareFacts DEF FirmwareForm
  <2>2. IsList(t) /\ Len(t) = count /\ \A k \in 1..count : t[k] = <<"image", fmp, k>>
    <3> DEFINE p == firmware.fmps[fmp]
               F == [k \in 1..count |-> <<"image", fmp, DescriptorAt(p, (k - 1) * DescriptorStep(p))>>]
    <3>1. t = F
      BY DEF DumpFmpImageInfo
    <3>2. \A k \in 1..count : F[k] = <<"image", fmp, k>>
      BY <2>1, DescriptorAtIs
    <3> HIDE DEF F
    <3>3. LET g == [n \in 1..count |-> F[n]] IN IsList(g) /\ Len(g) = count
      BY <2>1, FunctionIsList
    <3>4. [n \in 1..count |-> F[n]] = F
      BY DEF F
    <3> QED
      BY <3>1, <3>2, <3>3, <3>4
  <2> HIDE DEF t
  <2>3. Extends(sections', sections, t)
    BY <1>3, <2>2, EsrtFacts, ListExtends DEF t
  <2>4. EsrtPlaceInv'
    BY <1>1, <1>3, <2>3, EsrtFacts DEF EsrtPlaceInv, Extends
  <2>5. EsrtBuffersInv'
    BY <1>1, <1>3 DEF EsrtBuffersInv
  <2>6. EsrtDescriptorsInv'
    <3> SUFFICES ASSUME NEW f \in 1..Len(firmware.fmps)
                 PROVE  /\ ImageRows(f)' = {} \/ ShownInFull(f)'
                        /\ IF FmpPassed(f)' THEN f \in fmpFailures' \/ ShownInFull(f)' ELSE ImageRows(f)' = {}
      BY <1>1 DEF EsrtDescriptorsInv
    <3>1. /\ ImageRows(f) = {} \/ ShownInFull(f)
          /\ IF FmpPassed(f) THEN f \in fmpFailures \/ ShownInFull(f) ELSE ImageRows(f) = {}
      BY EsrtFacts DEF EsrtDescriptorsInv
    <3>2. CASE f # fmp
      <4>1. FmpPassed(f)' = FmpPassed(f)
        BY <1>1, <1>3, <3>2 DEF FmpPassed
      <4>2. ImageRows(f)' = ImageRows(f) /\ (ShownInFull(f) => ShownInFull(f)')
        BY <1>1, <2>2, <2>3, <3>2, EsrtFacts, ImagesStay
      <4> QED
        BY <1>3, <3>1, <4>1, <4>2
    <3>3. CASE f = fmp
      <4>1. ImageRows(fmp) = {}
        BY <1>1, <3>1, <3>3 DEF FmpPassed
      <4>2. /\ Len(sections) \in Nat /\ Len(sections') = Len(sections) + count
            /\ \A n \in 1..Len(sections) : sections'[n] = sections[n]
            /\ \A k \in 1..count : sections'[Len(sections) + k] = <<"image", fmp, k>>
        BY <2>2, <2>3 DEF Extends
      <4>3. ASSUME NEW n PROVE n \in ImageRows(fmp)' <=> n \in Len(sections) + 1..Len(sections) + count
        <5>1. n \in ImageRows(fmp)' <=> n \in 1..Len(sections') /\ sections'[n][1] = "image" /\ sections'[n][2] = fmp
          BY <1>3 DEF ImageRows
        <5>2. CASE n \in 1..Len(sections)
          <6>1. ~(sections[n][1] = "image" /\ sections[n][2] = fmp)
            BY <4>1, <5>2 DEF ImageRows
          <6> QED
            BY <4>2, <5>1, <5>2, <6>1
        <5>3. CASE n \in Len(sections) + 1..Len(sections) + count
          <6>1. n - Len(sections) \in 1..count /\ n = Len(sections) + (n - Len(sections)) /\ n \in 1..Len(sections')
            BY <2>1, <4>2, <5>3
          <6>2. sections'[n] = <<"image", fmp, n - Len(sections)>>
            BY <4>2, <6>1
          <6> QED
            BY <5>1, <5>3, <6>1, <6>2
        <5>4. CASE n \notin 1..Len(sections) /\ n \notin Len(sections) + 1..Len(sections) + count
          BY <2>1, <4>2, <5>1, <5>4
        <5> QED
          BY <5>2, <5>3, <5>4
      <4>4. PICK before \in Nat : before = Len(sections)
        BY <4>2
      <4>5. before \in 0..Len(sections') /\ ImageRows(fmp)' = before + 1..before + count
            /\ \A k \in 1..count : sections'[before + k] = <<"image", fmp, k>>
        <5>1. before \in 0..Len(sections')
          BY <2>1, <4>2, <4>4
        <5>2. \A n : n \in ImageRows(fmp)' <=> n \in before + 1..before + count
          BY <4>3, <4>4
        <5> HIDE DEF count
        <5>3. ImageRows(fmp)' = before + 1..before + count
          BY <5>2
        <5> QED
          BY <4>2, <4>4, <5>1, <5>3
      <4>6. ShownInFull(fmp)'
        BY <1>1, <1>3, <4>5 DEF ShownInFull, ImageRows
      <4>7. FmpPassed(f)'
        BY <1>3, <3>3 DEF FmpPassed
      <4>8. ShownInFull(f)'
        BY <1>1, <1>3, <3>3, <4>6 DEF ShownInFull, ImageRows
      <4> QED
        BY <4>7, <4>8
    <3> QED
      BY <3>2, <3>3
  <2>7. EsrtCapsulesInv'
    <3>1. RowsPassed = 0 /\ RowsPassed' = 0
      BY <1>1, <1>3 DEF RowsPassed
    <3>2. NoCapsuleIn(t)
      BY <2>2 DEF NoCapsuleIn
    <3> QED
      BY <1>1, <2>3, <3>1, <3>2, EsrtFacts, CapsulesKeepEarly
  <2> QED
    BY <2>4, <2>5, <2>6, <2>7 DEF EsrtInv
<1> QED
  BY <1>2, <1>3 DEF GetImageInfo

LEMMA GetPackageInfoKeeps == ASSUME EsrtInv, GetPackageInfo PROVE EsrtInv'
<1>1. epc = "package" /\ epc' = "fmp" /\ fmp' = fmp + 1 /\ UNCHANGED <<firmware, fmpHeld, hob, item, fmpFailures, fmpCut>>
      /\ (sections' = Append(sections, <<"package", fmp>>) \/ sections' = sections)
  BY DEF GetPackageInfo
<1>2. \E t : Extends(sections', sections, t) /\ (\A n \in 1..Len(t) : t[n][1] # "image") /\ NoCapsuleIn(t)
  <2>1. CASE sections' = sections
    BY <2>1, EsrtFacts
  <2>2. CASE sections' = Append(sections, <<"package", fmp>>)
    <3> DEFINE row == <<"package", fmp>>
    <3>1. row[1] = "package"
      OBVIOUS
    <3> HIDE DEF row
    <3>2. Extends(sections', sections, <<row>>) /\ Len(<<row>>) = 1 /\ <<row>>[1] = row
      BY <2>2, EsrtFacts, RowExtends DEF row
    <3>3. \A n \in 1..Len(<<row>>) : <<row>>[n][1] = "package"
      BY <3>1, <3>2
    <3> QED
      BY <3>2, <3>3 DEF NoCapsuleIn
  <2> QED
    BY <1>1, <2>1, <2>2
<1>3. PICK t : Extends(sections', sections, t) /\ (\A n \in 1..Len(t) : t[n][1] # "image") /\ NoCapsuleIn(t)
  BY <1>2
<1>4. EsrtPlaceInv'
  BY <1>1, <1>3, EsrtFacts DEF EsrtPlaceInv, Extends
<1>5. EsrtBuffersInv'
  BY <1>1, EsrtFacts DEF EsrtBuffersInv
<1>6. EsrtDescriptorsInv'
  <2>1. \A f \in 1..Len(firmware.fmps) : FmpPassed(f)' = FmpPassed(f)
    BY <1>1, EsrtFacts DEF FmpPassed
  <2> QED
    BY <1>1, <1>3, <2>1, EsrtFacts, DescriptorsKeep
<1>7. EsrtCapsulesInv'
  <2>1. RowsPassed = 0 /\ RowsPassed' = 0
    BY <1>1 DEF RowsPassed
  <2> QED
    BY <1>1, <1>3, <2>1, EsrtFacts, CapsulesKeepEarly
<1> QED
  BY <1>4, <1>5, <1>6, <1>7 DEF EsrtInv

(* What the walk over the capsules has at hand.                            *)
LEMMA WalkRows ==
  ASSUME EsrtInv, epc \in {"hobs", "items"}
  PROVE  /\ RowsPassed \in Nat
         /\ \E before \in Nat : CapsulesFrom(before, RowsPassed) /\ before + RowsPassed = Len(sections)
<1>1. RowsUpTo(firmware.hobs, hob - 1) \in Nat
  <2>1. hob - 1 \in 0..Len(firmware.hobs)
    BY EsrtFacts
  <2> QED
    BY <2>1, EsrtFacts, RowsAre
<1>2. RowsPassed \in Nat
  <2>1. CASE epc = "hobs"
    BY <1>1, <2>1 DEF RowsPassed
  <2>2. CASE epc = "items"
    <3>1. IsFmpCapsule(firmware.hobs[hob]) /\ hob \in 1..Len(firmware.hobs) /\ item \in Nat \ {0}
      BY <2>2, EsrtFacts DEF EsrtPlaceInv
    <3>2. Len(firmware.hobs[hob].drivers) \in Nat
      BY <3>1, EsrtFacts DEF HobsForm, CapsuleForm
    <3> DEFINE before == RowsUpTo(firmware.hobs, hob - 1)
               drivers == Len(firmware.hobs[hob].drivers)
    <3>3. RowsPassed = before + 1 + (IF item <= drivers THEN 0 ELSE item - drivers - 1)
      BY <2>2 DEF RowsPassed
    <3>4. before \in Nat /\ drivers \in Nat /\ item \in Nat
      BY <1>1, <3>1, <3>2
    <3> HIDE DEF before, drivers
    <3> QED
      BY <3>3, <3>4
  <2> QED
    BY <2>1, <2>2
<1>3. \E before \in 0..Len(sections) : CapsulesFrom(before, RowsPassed) /\ before + RowsPassed = Len(sections)
  BY EsrtFacts DEF EsrtCapsulesInv
<1> QED
  BY <1>2, <1>3, EsrtFacts

(* Steps behind DumpFmpData leave the descriptors.                         *)
LEMMA DescriptorsLeft ==
  ASSUME EsrtInv, NEW t, Extends(sections', sections, t), \A n \in 1..Len(t) : t[n][1] # "image",
         UNCHANGED <<firmware, fmp, fmpHeld, fmpFailures, fmpCut>>,
         epc \notin {"locate", "fmp", "info", "package"}, epc' \notin {"locate", "fmp", "info", "package"}
  PROVE  EsrtDescriptorsInv' /\ EsrtBuffersInv' /\ (fmp > Len(firmware.fmps) \/ fmpCut)
<1>1. \A f \in 1..Len(firmware.fmps) : FmpPassed(f)' = FmpPassed(f)
  BY DEF FmpPassed
<1>2. EsrtDescriptorsInv'
  BY <1>1, EsrtFacts, DescriptorsKeep
<1>3. EsrtBuffersInv'
  BY EsrtFacts DEF EsrtBuffersInv
<1> QED
  BY <1>2, <1>3, EsrtFacts DEF EsrtPlaceInv

(* A row of a capsule is shown, and the walk moves on.                     *)
LEMMA CapsuleStep ==
  ASSUME EsrtInv, UNCHANGED <<firmware, fmp, fmpHeld, fmpFailures, fmpCut>>, epc \in {"hobs", "items"}, epc' \in {"hobs", "items"},
         NEW i \in 1..Len(firmware.hobs), NEW k \in 1..RowsOf(firmware.hobs[i]), RowsPassed + 1 = RowsUpTo(firmware.hobs, i - 1) + k,
         sections' = Append(sections, RowOf(firmware.hobs, i, k)), RowsPassed' = RowsPassed + 1,
         hob' \in 1..Len(firmware.hobs) + 1, item' \in Nat \ {0},
         epc' = "items" => /\ hob' <= Len(firmware.hobs) /\ IsFmpCapsule(firmware.hobs[hob'])
                           /\ item' <= Len(firmware.hobs[hob'].drivers) + Len(firmware.hobs[hob'].payloads) + 1
  PROVE  EsrtInv'
<1> DEFINE row == RowOf(firmware.hobs, i, k)
<1>1. Extends(sections', sections, <<row>>) /\ Len(<<row>>) = 1 /\ <<row>>[1] = row
  BY EsrtFacts, RowExtends
<1>2. row[1] # "image"
  BY DEF RowOf
<1> HIDE DEF row
<1>3. \A n \in 1..Len(<<row>>) : <<row>>[n][1] # "image"
  BY <1>1, <1>2
<1>4. EsrtDescriptorsInv' /\ EsrtBuffersInv' /\ (fmp > Len(firmware.fmps) \/ fmpCut)
  BY <1>1, <1>3, DescriptorsLeft
<1>5. PICK before \in Nat, rows \in Nat : rows = RowsPassed /\ CapsulesFrom(before, RowsPassed) /\ before + RowsPassed = Len(sections)
  BY WalkRows
<1>6. CapsulesFrom(before, rows)
  BY <1>5 DEF CapsulesFrom
<1>7. CapsulesFrom(before, rows + 1)' /\ before + (rows + 1) = Len(sections') /\ IsList(sections')
  BY <1>5, <1>6, EsrtFacts, CapsuleRowShown
<1>8. EsrtPlaceInv'
  <2>1. firmware' \in Firmwares /\ fmp' \in Nat \ {0} /\ fmpCut' \in BOOLEAN
    BY EsrtFacts DEF EsrtPlaceInv
  <2> QED
    BY <1>4, <1>7, <2>1, EsrtFacts DEF EsrtPlaceInv
<1>9. EsrtCapsulesInv'
  <2>1. rows + 1 = RowsPassed'
    BY <1>5
  <2>2. CapsulesFrom(before, RowsPassed)'
    BY <1>7, <2>1 DEF CapsulesFrom
  <2>3. before \in 0..Len(sections') /\ before + RowsPassed' = Len(sections')
    BY <1>5, <1>7, <2>1
  <2> QED
    BY <2>2, <2>3 DEF EsrtCapsulesInv
<1> QED
  BY <1>4, <1>8, <1>9 DEF EsrtInv

(* Nothing is shown, and the walk has passed what it had.                  *)
LEMMA QuietStep ==
  ASSUME EsrtInv, UNCHANGED <<firmware, fmp, fmpHeld, fmpFailures, fmpCut>>, sections' = sections,
         epc \in {"hobs", "items"}, epc' \in {"hobs", "items", "esrt"}, RowsPassed' = RowsPassed,
         hob' \in 1..Len(firmware.hobs) + 1, item' \in Nat \ {0},
         epc' = "items" => /\ hob' <= Len(firmware.hobs) /\ IsFmpCapsule(firmware.hobs[hob'])
                           /\ item' <= Len(firmware.hobs[hob'].drivers) + Len(firmware.hobs[hob'].payloads) + 1
  PROVE  EsrtInv'
<1>1. Extends(sections', sections, <<>>)
  BY EsrtFacts
<1>2. EsrtDescriptorsInv' /\ EsrtBuffersInv' /\ (fmp > Len(firmware.fmps) \/ fmpCut)
  BY <1>1, EsrtFacts, DescriptorsLeft
<1>3. EsrtPlaceInv'
  <2>1. firmware' \in Firmwares /\ fmp' \in Nat \ {0} /\ fmpCut' \in BOOLEAN
    BY EsrtFacts DEF EsrtPlaceInv
  <2> QED
    BY <1>2, <2>1, EsrtFacts DEF EsrtPlaceInv
<1>4. EsrtCapsulesInv'
  BY <1>1, EsrtFacts, WalkRows, CapsulesKeepLate
<1> QED
  BY <1>2, <1>3, <1>4 DEF EsrtInv

(* Each step of the walk over the HOB list keeps the invariant.            *)
LEMMA DumpCapsuleVolumeHobKeeps == ASSUME EsrtInv, DumpCapsuleVolumeHob PROVE EsrtInv'
<1> DEFINE h == GetNextHob(hob)
           hobs == firmware.hobs
           m == Len(hobs)
<1>1. epc = "hobs" /\ UNCHANGED <<firmware, fmp, fmpHeld, fmpFailures, fmpCut>>
  BY DEF DumpCapsuleVolumeHob
<1>2. /\ h = 0 => epc' = "esrt" /\ UNCHANGED <<hob, item, sections>>
      /\ h # 0 => /\ sections' = Append(sections, <<"capsule", h, firmware.hobs[h].guid>>)
                  /\ IF firmware.hobs[h].guid = "fmp" THEN epc' = "items" /\ hob' = h /\ item' = 1
                     ELSE epc' = "hobs" /\ hob' = AfterHob(h) /\ UNCHANGED item
  BY DEF DumpCapsuleVolumeHob
<1>3. hob \in 1..m + 1 /\ m \in Nat /\ HobsForm(hobs) /\ item \in Nat \ {0} /\ RowsPassed = RowsUpTo(hobs, hob - 1)
      /\ RowsPassed \in Nat
  BY <1>1, EsrtFacts, WalkRows DEF EsrtPlaceInv, RowsPassed
<1>4. /\ h = 0 => \A i \in hob..m : hobs[i].type # "capsule"
      /\ h # 0 => h \in hob..m /\ hobs[h].type = "capsule" /\ \A i \in hob..h - 1 : hobs[i].type # "capsule"
  BY <1>3, NextHobIs
<1> HIDE DEF h
<1>5. CASE h = 0
  <2>1. RowsUpTo(hobs, hob - 1) = RowsUpTo(hobs, m)
    <3>1. hob - 1 \in 0..m /\ m \in 0..m /\ hob - 1 <= m
      BY <1>3
    <3>2. \A i \in (hob - 1) + 1..m : hobs[i].type # "capsule"
      BY <1>3, <1>4, <1>5
    <3> QED
      BY <1>3, <3>1, <3>2, RowsGrow
  <2>2. RowsPassed' = RowsUpTo(hobs, m)
    BY <1>1, <1>2, <1>5 DEF RowsPassed
  <2> QED
    BY <1>1, <1>2, <1>3, <1>5, <2>1, <2>2, QuietStep
<1>6. CASE h # 0
  <2>1. h \in 1..m /\ h - 1 \in 0..m /\ hobs[h].type = "capsule"
    BY <1>3, <1>4, <1>6
  <2>2. RowsUpTo(hobs, hob - 1) = RowsUpTo(hobs, h - 1)
    <3>1. hob - 1 \in 0..m /\ hob - 1 <= h - 1
      BY <1>3, <1>4, <1>6
    <3>2. \A i \in (hob - 1) + 1..h - 1 : hobs[i].type # "capsule"
      BY <1>3, <1>4, <1>6
    <3> QED
      BY <1>3, <2>1, <3>1, <3>2, RowsGrow
  <2>3. 1 \in 1..RowsOf(hobs[h]) /\ RowsPassed + 1 = RowsUpTo(hobs, h - 1) + 1
    <3>1. IsFmpCapsule(hobs[h]) => Len(hobs[h].payloads) \in Nat
      BY <1>3, <2>1 DEF HobsForm, CapsuleForm
    <3> QED
      BY <1>3, <2>1, <2>2, <3>1 DEF RowsOf
  <2>4. sections' = Append(sections, RowOf(hobs, h, 1))
    BY <1>2, <1>6 DEF RowOf
  <2>5. CASE hobs[h].guid = "fmp"
    <3>1. epc' = "items" /\ hob' = h /\ item' = 1 /\ IsFmpCapsule(hobs[h])
      BY <1>2, <1>6, <2>1, <2>5 DEF IsFmpCapsule
    <3>2. Len(hobs[h].drivers) \in Nat /\ Len(hobs[h].payloads) \in Nat
      BY <1>3, <2>1, <3>1 DEF HobsForm, CapsuleForm
    <3>3. RowsPassed' = RowsPassed + 1
      <4>1. firmware'.hobs[hob'].drivers = hobs[h].drivers /\ RowsUpTo(firmware'.hobs, hob' - 1) = RowsUpTo(hobs, h - 1)
        BY <1>1, <3>1
      <4>2. RowsPassed' = RowsUpTo(hobs, h - 1) + 1 + (IF 1 <= Len(hobs[h].drivers) THEN 0 ELSE 1 - Len(hobs[h].drivers) - 1)
        BY <3>1, <4>1 DEF RowsPassed
      <4> DEFINE before == RowsUpTo(hobs, h - 1)
                 d == Len(hobs[h].drivers)
      <4>3. before = RowsPassed /\ before \in Nat /\ d \in Nat
        BY <1>3, <2>2, <3>2
      <4>4. RowsPassed' = before + 1 + (IF 1 <= d THEN 0 ELSE 1 - d - 1)
        BY <4>2
      <4> HIDE DEF before, d
      <4>5. ~(1 <= d) => d = 0
        BY <4>3
      <4> QED
        BY <4>3, <4>4, <4>5
    <3>4. item' \in Nat \ {0} /\ hob' \in 1..m + 1 /\ hob' <= m /\ item' <= Len(hobs[h].drivers) + Len(hobs[h].payloads) + 1
      <4> DEFINE d == Len(hobs[h].drivers)
                 p == Len(hobs[h].payloads)
      <4>1. item' \in Nat \ {0} /\ item' <= d + p + 1
        <5>1. d \in Nat /\ p \in Nat /\ item' = 1
          BY <3>1, <3>2
        <5> HIDE DEF d, p
        <5> QED
          BY <5>1
      <4> HIDE DEF d, p
      <4>2. hob' \in 1..m + 1 /\ hob' <= m
        <5> HIDE DEF m
        <5> QED
          BY <1>3, <2>1, <3>1
      <4> QED
        BY <4>1, <4>2, Zenon DEF d, p
    <3> QED
      BY <1>1, <2>1, <2>3, <2>4, <3>1, <3>3, <3>4, CapsuleStep
  <2>6. CASE hobs[h].guid # "fmp"
    <3>1. epc' = "hobs" /\ hob' = h + 1 /\ item' = item
      BY <1>2, <1>6, <2>6 DEF AfterHob
    <3>2. RowsOf(hobs[h]) = 1
      BY <2>1, <2>6 DEF RowsOf, IsFmpCapsule
    <3>3. RowsPassed' = RowsPassed + 1
      <4>1. RowsPassed' = RowsUpTo(hobs, hob' - 1)
        BY <1>1, <3>1 DEF RowsPassed
      <4>2. hob' - 1 = h
        BY <2>1, <3>1
      <4> QED
        BY <1>3, <2>1, <2>2, <3>2, <4>1, <4>2, RowsAre
    <3>4. hob' \in 1..m + 1 /\ item' \in Nat \ {0}
      BY <1>3, <2>1, <3>1
    <3> QED
      BY <1>1, <2>1, <2>3, <2>4, <3>1, <3>3, <3>4, CapsuleStep
  <2> QED
    BY <2>5, <2>6
<1> QED
  BY <1>5, <1>6

LEMMA DumpFmpItemKeeps == ASSUME EsrtInv, DumpFmpItem PROVE EsrtInv'
<1> DEFINE hobs == firmware.hobs
           c == hobs[hob]
           drivers == Len(c.drivers)
           payloads == Len(c.payloads)
           before == RowsUpTo(hobs, hob - 1)
<1>1. epc = "items" /\ UNCHANGED <<firmware, fmp, fmpHeld, fmpFailures, fmpCut>>
  BY DEF DumpFmpItem
<1>2. IF item > drivers + payloads
      THEN epc' = "hobs" /\ hob' = AfterHob(hob) /\ UNCHANGED <<item, sections>>
      ELSE /\ item' = item + 1 /\ UNCHANGED <<epc, hob>>
           /\ sections' = IF item <= drivers THEN sections
                          ELSE Append(sections, <<"header", hob, HeaderAt(c, FromFmpHeader(c, c.payloads[item - drivers]))>>)
  BY DEF DumpFmpItem
<1>3. HobsForm(hobs) /\ Len(hobs) \in Nat
  BY EsrtFacts
<1>4. hob <= Len(hobs) /\ IsFmpCapsule(c) /\ item \in Nat \ {0} /\ item <= drivers + payloads + 1
  BY <1>1, EsrtFacts DEF EsrtPlaceInv
<1>5. hob \in 1..Len(hobs)
  BY <1>3, <1>4, EsrtFacts
<1>6. CapsuleForm(c) /\ drivers \in Nat /\ payloads \in Nat /\ RowsOf(c) = 1 + payloads
  BY <1>3, <1>4, <1>5 DEF HobsForm, CapsuleForm, RowsOf
<1>7. RowsPassed = before + 1 + (IF item <= drivers THEN 0 ELSE item - drivers - 1)
  BY <1>1 DEF RowsPassed
<1>8. before \in Nat /\ RowsUpTo(hobs, hob) = before + RowsOf(c)
  <2>1. hob - 1 \in 0..Len(hobs)
    BY <1>3, <1>5
  <2> QED
    BY <1>3, <1>5, <2>1, RowsAre
<1>9. CASE item > drivers + payloads
  <2>1. epc' = "hobs" /\ hob' = hob + 1 /\ item' = item /\ sections' = sections
    BY <1>2, <1>9 DEF AfterHob
  <2>2. RowsPassed' = RowsUpTo(hobs, hob' - 1) /\ hob' - 1 = hob
    BY <1>1, <1>5, <2>1 DEF RowsPassed
  <2> HIDE DEF drivers, payloads, c, before
  <2>3. item = drivers + payloads + 1
    BY <1>4, <1>6, <1>9
  <2>4. RowsPassed' = RowsPassed
    BY <1>6, <1>7, <1>8, <2>2, <2>3
  <2>5. hob' \in 1..Len(hobs) + 1
    BY <1>3, <1>5, <2>1
  <2> QED
    BY <1>1, <1>4, <2>1, <2>4, <2>5, QuietStep
<1>10. CASE ~(item > drivers + payloads)
  <2>1. epc' = "items" /\ hob' = hob /\ item' = item + 1
    <3> HIDE DEF drivers, payloads, c
    <3> QED
      BY <1>1, <1>2, <1>10
  <2>2. RowsPassed' = before + 1 + (IF item + 1 <= drivers THEN 0 ELSE (item + 1) - drivers - 1)
    <3> DEFINE up == RowsUpTo(firmware'.hobs, hob' - 1)
               many == Len(firmware'.hobs[hob'].drivers)
    <3>1. up = before /\ many = drivers /\ item' = item + 1
      BY <1>1, <2>1
    <3>2. RowsPassed' = up + 1 + (IF item' <= many THEN 0 ELSE item' - many - 1)
      BY <2>1 DEF RowsPassed
    <3> HIDE DEF before, drivers, up, many
    <3> QED
      BY <3>1, <3>2
  <2>3. hob' \in 1..Len(hobs) + 1 /\ hob' <= Len(hobs) /\ IsFmpCapsule(hobs[hob']) /\ item' \in Nat \ {0}
        /\ item' <= Len(hobs[hob'].drivers) + Len(hobs[hob'].payloads) + 1
    <3>1. item' \in Nat \ {0} /\ item' <= drivers + payloads + 1
      <4> HIDE DEF drivers, payloads
      <4> QED
        BY <1>4, <1>6, <1>10, <2>1
    <3>2. IsFmpCapsule(hobs[hob']) /\ item' <= Len(hobs[hob'].drivers) + Len(hobs[hob'].payloads) + 1
      BY <1>4, <2>1, <3>1
    <3>3. hob' \in 1..Len(hobs) + 1 /\ hob' <= Len(hobs)
      BY <1>3, <1>5, <2>1
    <3> QED
      BY <3>1, <3>2, <3>3
  <2>4. CASE item <= drivers
    <3>1. sections' = sections
      BY <1>2, <1>10, <2>4
    <3>2. RowsPassed' = RowsPassed
      <4> HIDE DEF drivers, before
      <4> QED
        BY <1>4, <1>6, <1>7, <1>8, <2>2, <2>4
    <3> QED
      BY <1>1, <2>1, <2>3, <3>1, <3>2, QuietStep
  <2>5. CASE ~(item <= drivers)
    <3> DEFINE k == item - drivers
    <3>1. k \in 1..payloads
      <4> HIDE DEF drivers, payloads
      <4> QED
        BY <1>4, <1>6, <1>10, <2>5
    <3>2. HeaderAt(c, FromFmpHeader(c, c.payloads[k])) = k
      BY <1>6, <3>1, HeaderAtIs
    <3>3. sections' = Append(sections, <<"header", hob, k>>)
      BY <1>2, <1>10, <2>5, <3>2
    <3>4. RowsPassed' = RowsPassed + 1 /\ RowsPassed + 1 = before + (k + 1)
      <4> HIDE DEF drivers, before
      <4>1. RowsPassed = before + 1 + (item - drivers - 1) /\ RowsPassed' = before + 1 + ((item + 1) - drivers - 1)
        BY <1>4, <1>6, <1>7, <1>8, <2>2, <2>5
      <4> QED
        BY <1>4, <1>6, <1>8, <4>1
    <3> HIDE DEF k
    <3>5. k + 1 \in 1..RowsOf(hobs[hob]) /\ sections' = Append(sections, RowOf(hobs, hob, k + 1))
      <4>1. k + 1 \in 1..RowsOf(c) /\ k + 1 # 1 /\ (k + 1) - 1 = k
        <5> HIDE DEF payloads, c
        <5> QED
          BY <1>6, <3>1
      <4> QED
        BY <3>3, <4>1 DEF RowOf
    <3> QED
      BY <1>1, <1>5, <2>1, <2>3, <3>4, <3>5, CapsuleStep
  <2> QED
    BY <2>4, <2>5
<1> QED
  BY <1>9, <1>10

(* The last three sections follow the capsules and show none.              *)
LEMMA SectionKeeps ==
  ASSUME EsrtInv, UNCHANGED <<firmware, fmp, fmpHeld, hob, item, fmpFailures, fmpCut>>, NEW t, Extends(sections', sections, t),
         \A n \in 1..Len(t) : t[n][1] \notin {"image", "capsule", "header"},
         epc \in {"esrt", "managed", "variables"}, epc' \in {"managed", "variables", "done"}
  PROVE  EsrtInv'
<1>1. (\A n \in 1..Len(t) : t[n][1] # "image") /\ NoCapsuleIn(t)
  BY DEF NoCapsuleIn
<1>2. EsrtDescriptorsInv' /\ EsrtBuffersInv' /\ (fmp > Len(firmware.fmps) \/ fmpCut)
  BY <1>1, DescriptorsLeft
<1>3. EsrtPlaceInv'
  <2>1. firmware' \in Firmwares /\ fmp' \in Nat \ {0} /\ fmpCut' \in BOOLEAN /\ item' \in Nat \ {0}
    BY EsrtFacts DEF EsrtPlaceInv
  <2>2. IsList(sections')
    BY DEF Extends
  <2> QED
    BY <1>2, <2>1, <2>2, EsrtFacts DEF EsrtPlaceInv
<1>4. EsrtCapsulesInv'
  <2>1. RowsPassed = RowsUpTo(firmware.hobs, Len(firmware.hobs)) /\ RowsPassed' = RowsPassed
    BY DEF RowsPassed
  <2>2. RowsPassed \in Nat
    <3>1. Len(firmware.hobs) \in 0..Len(firmware.hobs)
      BY EsrtFacts
    <3> QED
      BY <2>1, <3>1, EsrtFacts, RowsAre
  <2> QED
    BY <1>1, <2>1, <2>2, EsrtFacts, CapsulesKeepLate
<1> QED
  BY <1>2, <1>3, <1>4 DEF EsrtInv

LEMMA DumpEsrtAcpiDataKeeps == ASSUME EsrtInv, DumpEsrtAcpiData PROVE EsrtInv'
<1>1. epc = "esrt" /\ epc' = "managed" /\ UNCHANGED <<firmware, fmp, fmpHeld, hob, item, fmpFailures, fmpCut>>
  BY DEF DumpEsrtAcpiData
<1>2. CASE firmware.esrt = NoTable
  <2>1. sections' = sections
    BY <1>2 DEF DumpEsrtAcpiData
  <2>2. Extends(sections', sections, <<>>) /\ \A n \in 1..Len(<<>>) : <<>>[n][1] \notin {"image", "capsule", "header"}
    BY <2>1, EsrtFacts
  <2> QED
    BY <1>1, <2>2, SectionKeeps
<1>3. CASE firmware.esrt # NoTable
  <2> DEFINE m == Len(firmware.esrt)
             F == [i \in 1..m |-> <<"esrt", firmware.esrt[i]>>]
  <2>1. sections' = sections \o F
    BY <1>3 DEF DumpEsrtAcpiData
  <2>2. m \in Nat
    BY EsrtFacts, FirmwareFacts DEF FirmwareForm
  <2>3. \A n \in 1..m : F[n][1] = "esrt"
    OBVIOUS
  <2>4. [n \in 1..m |-> F[n]] = F
    OBVIOUS
  <2> HIDE DEF F, m
  <2>5. LET g == [n \in 1..m |-> F[n]] IN IsList(g) /\ Len(g) = m
    BY <2>2, FunctionIsList
  <2>6. IsList(F) /\ Len(F) = m
    BY <2>4, <2>5
  <2>7. Extends(sections', sections, F)
    BY <2>1, <2>6, EsrtFacts, ListExtends
  <2>8. \A n \in 1..Len(F) : F[n][1] \notin {"image", "capsule", "header"}
    BY <2>3, <2>6
  <2> QED
    BY <1>1, <2>7, <2>8, SectionKeeps
<1> QED
  BY <1>2, <1>3

LEMMA DumpEsrtManagementDataKeeps == ASSUME EsrtInv, DumpEsrtManagementData PROVE EsrtInv'
<1>1. epc = "managed" /\ epc' = "variables" /\ UNCHANGED <<firmware, fmp, fmpHeld, hob, item, fmpFailures, fmpCut>>
      /\ (sections' = sections \/ sections' = sections \o ManagedRows)
  BY DEF DumpEsrtManagementData
<1>2. CASE sections' = sections
  <2>1. Extends(sections', sections, <<>>) /\ \A n \in 1..Len(<<>>) : <<>>[n][1] \notin {"image", "capsule", "header"}
    BY <1>2, EsrtFacts
  <2> QED
    BY <1>1, <2>1, SectionKeeps
<1>3. CASE sections' = sections \o ManagedRows
  <2>1. IsList(ManagedRows) /\ \A n \in 1..Len(ManagedRows) : ManagedRows[n][1] = "managed"
    BY EsrtFacts, FirmwareFacts, ManagedRowsAre DEF FirmwareForm
  <2>2. Extends(sections', sections, ManagedRows)
    BY <1>3, <2>1, EsrtFacts, ListExtends
  <2>3. \A n \in 1..Len(ManagedRows) : ManagedRows[n][1] \notin {"image", "capsule", "header"}
    BY <2>1
  <2> QED
    BY <1>1, <2>2, <2>3, SectionKeeps
<1> QED
  BY <1>1, <1>2, <1>3

(* The entries of a variable are a list.                                   *)
LEMMA RepositoryIs ==
  ASSUME NEW name, firmware.variables[name] \in Nat, name \in {"FMP", "NONFMP"}
  PROVE  LET t == DumpEsrtRepository(name)
         IN  IsList(t) /\ Len(t) \in Nat /\ \A n \in 1..Len(t) : t[n][1] = name
<1> DEFINE t == DumpEsrtRepository(name)
           v == firmware.variables[name]
           m == v \div EntrySize
           F == [i \in 1..m |-> <<name, i>>]
<1>1. m \in Nat
  <2>1. EntrySize = 2
    BY DEF EntrySize
  <2> HIDE DEF v
  <2>2. v \in Nat
    BY DEF v
  <2> QED
    BY <2>1, <2>2
<1>2. CASE v % EntrySize # 0
  <2>1. t = <<>>
    BY <1>2 DEF DumpEsrtRepository
  <2>2. IsList(<<>>) /\ Len(<<>>) = 0
    BY EmptySeq DEF IsList
  <2> HIDE DEF t
  <2> QED
    BY <2>1, <2>2 DEF t
<1>3. CASE v % EntrySize = 0
  <2>1. t = F
    BY <1>3 DEF DumpEsrtRepository
  <2>2. \A n \in 1..m : F[n][1] = name
    OBVIOUS
  <2>3. [n \in 1..m |-> F[n]] = F
    OBVIOUS
  <2> HIDE DEF F, m
  <2>4. LET g == [n \in 1..m |-> F[n]] IN IsList(g) /\ Len(g) = m
    BY <1>1, FunctionIsList
  <2>5. IsList(F) /\ Len(F) = m
    BY <2>3, <2>4
  <2> HIDE DEF t
  <2> QED
    BY <1>1, <2>1, <2>2, <2>5 DEF t
<1> QED
  BY <1>2, <1>3

LEMMA DumpEsrtDriverPrivateDataKeeps == ASSUME EsrtInv, DumpEsrtDriverPrivateData PROVE EsrtInv'
<1> DEFINE a == DumpEsrtRepository("FMP")
           b == DumpEsrtRepository("NONFMP")
           t == a \o b
<1>1. epc = "variables" /\ epc' = "done" /\ UNCHANGED <<firmware, fmp, fmpHeld, hob, item, fmpFailures, fmpCut>>
      /\ sections' = (sections \o a) \o b
  BY DEF DumpEsrtDriverPrivateData
<1>2. firmware.variables["FMP"] \in Nat /\ firmware.variables["NONFMP"] \in Nat
  BY EsrtFacts, FirmwareFacts DEF FirmwareForm
<1>3. /\ IsList(a) /\ Len(a) \in Nat /\ \A n \in 1..Len(a) : a[n][1] = "FMP"
      /\ IsList(b) /\ Len(b) \in Nat /\ \A n \in 1..Len(b) : b[n][1] = "NONFMP"
  BY <1>2, RepositoryIs
<1> HIDE DEF a, b
<1>4. sections' = sections \o (a \o b)
  <2>1. IsList(sections)
    BY EsrtFacts
  <2>2. (sections \o a) \o b = sections \o (a \o b)
    BY <1>3, <2>1, ListsAssociate
  <2> QED
    BY <1>1, <2>2
<1>5. Extends(t, a, b)
  BY <1>3, ListExtends
<1> HIDE DEF t
<1>6. Extends(sections', sections, t)
  BY <1>4, <1>5, EsrtFacts, ListExtends DEF Extends, t
<1>7. \A n \in 1..Len(t) : t[n][1] \notin {"image", "capsule", "header"}
  <2> SUFFICES ASSUME NEW n \in 1..Len(t) PROVE t[n][1] \in {"FMP", "NONFMP"}
    OBVIOUS
  <2>1. CASE n \in 1..Len(a)
    BY <1>3, <1>5, <2>1 DEF Extends
  <2>2. CASE n \notin 1..Len(a)
    <3>1. n - Len(a) \in 1..Len(b) /\ n = Len(a) + (n - Len(a))
      BY <1>3, <1>5, <2>2 DEF Extends
    <3>2. t[n] = b[n - Len(a)]
      BY <1>5, <3>1 DEF Extends
    <3> QED
      BY <1>3, <3>1, <3>2
  <2> QED
    BY <2>1, <2>2
<1> QED
  BY <1>1, <1>6, <1>7, SectionKeeps

(* EsrtInv is an invariant of EsrtFmpDump, for firmware with any number of *)
(* protocols, descriptors, capsules and payloads, whichever calls fail.    *)
THEOREM EsrtInvariant == EsrtSpec => []EsrtInv
<1>1. ASSUME EsrtInv, [EsrtNext]_esrtVars PROVE EsrtInv'
  <2>1. CASE LocateFmps
    BY <1>1, <2>1, LocateFmpsKeeps
  <2>2. CASE FmpsEnd
    BY <1>1, <2>2, FmpsEndKeeps
  <2>3. CASE GetImageInfoSize
    BY <1>1, <2>3, GetImageInfoSizeKeeps
  <2>4. CASE GetImageInfo
    BY <1>1, <2>4, GetImageInfoKeeps
  <2>5. CASE GetPackageInfo
    BY <1>1, <2>5, GetPackageInfoKeeps
  <2>6. CASE DumpCapsuleVolumeHob
    BY <1>1, <2>6, DumpCapsuleVolumeHobKeeps
  <2>7. CASE DumpFmpItem
    BY <1>1, <2>7, DumpFmpItemKeeps
  <2>8. CASE DumpEsrtAcpiData
    BY <1>1, <2>8, DumpEsrtAcpiDataKeeps
  <2>9. CASE DumpEsrtManagementData
    BY <1>1, <2>9, DumpEsrtManagementDataKeeps
  <2>10. CASE DumpEsrtDriverPrivateData
    BY <1>1, <2>10, DumpEsrtDriverPrivateDataKeeps
  <2>11. CASE UNCHANGED esrtVars
    <3>1. UNCHANGED <<firmware, epc, fmp, fmpHeld, hob, item, sections, fmpFailures, fmpCut>>
      BY <2>11 DEF esrtVars
    <3>2. EsrtPlaceInv' /\ EsrtBuffersInv'
      BY <1>1, <3>1, EsrtFacts DEF EsrtPlaceInv, EsrtBuffersInv
    <3>3. EsrtDescriptorsInv'
      <4>1. \A f \in 1..Len(firmware.fmps) : FmpPassed(f)' = FmpPassed(f)
        BY <3>1 DEF FmpPassed
      <4>2. Extends(sections', sections, <<>>)
        BY <1>1, <3>1, EsrtFacts
      <4> QED
        BY <1>1, <3>1, <4>1, <4>2, EsrtFacts, DescriptorsKeep
    <3>4. EsrtCapsulesInv'
      <4>1. RowsPassed' = RowsPassed
        BY <3>1 DEF RowsPassed
      <4> QED
        BY <1>1, <3>1, <4>1, EsrtFacts DEF EsrtCapsulesInv, CapsulesFrom, CapsuleRows
    <3> QED
      BY <3>2, <3>3, <3>4 DEF EsrtInv
  <2> QED
    BY <1>1, <2>1, <2>2, <2>3, <2>4, <2>5, <2>6, <2>7, <2>8, <2>9, <2>10, <2>11 DEF EsrtNext
<1> QED
  BY EsrtStart, <1>1, PTL DEF EsrtSpec

(* No more rows are due than the whole list has.                           *)
LEMMA RowsPassedBounded ==
  ASSUME EsrtInv
  PROVE  RowsPassed \in 0..RowsUpTo(firmware.hobs, Len(firmware.hobs))
<1> DEFINE hobs == firmware.hobs
           m == Len(hobs)
           all == RowsUpTo(hobs, m)
<1>1. m \in Nat /\ HobsForm(hobs) /\ hob \in 1..m + 1
  BY EsrtFacts
<1>2. hob - 1 \in 0..m /\ m \in 0..m /\ hob - 1 <= m
  BY <1>1
<1>3. all \in Nat /\ RowsUpTo(hobs, hob - 1) \in Nat /\ RowsUpTo(hobs, hob - 1) <= all
  BY <1>1, <1>2, RowsAre, RowsGrow
<1>4. CASE epc \in {"locate", "fmp", "info", "package"}
  <2>1. RowsPassed = 0
    BY <1>4 DEF RowsPassed
  <2> HIDE DEF all
  <2> QED
    BY <1>3, <2>1 DEF all
<1>5. CASE epc = "hobs"
  <2>1. RowsPassed = RowsUpTo(hobs, hob - 1)
    BY <1>5 DEF RowsPassed
  <2> HIDE DEF all
  <2> QED
    BY <1>3, <2>1 DEF all
<1>6. CASE epc = "items"
  <2> DEFINE c == hobs[hob]
             drivers == Len(c.drivers)
             payloads == Len(c.payloads)
             before == RowsUpTo(hobs, hob - 1)
  <2>1. hob <= m /\ IsFmpCapsule(c) /\ item \in Nat \ {0} /\ item <= drivers + payloads + 1
    BY <1>6, EsrtFacts DEF EsrtPlaceInv
  <2>2. hob \in 1..m /\ hob \in 0..m
    BY <1>1, <2>1
  <2>3. drivers \in Nat /\ payloads \in Nat /\ RowsOf(c) = 1 + payloads
    BY <1>1, <2>1, <2>2 DEF HobsForm, CapsuleForm, RowsOf
  <2>4. RowsUpTo(hobs, hob) = before + (1 + payloads) /\ RowsUpTo(hobs, hob) <= all
    <3>1. RowsUpTo(hobs, hob) = before + RowsOf(c)
      BY <1>1, <2>2, RowsAre
    <3>2. RowsUpTo(hobs, hob) <= all
      BY <1>1, <1>2, <2>1, <2>2, RowsGrow
    <3> QED
      BY <2>3, <3>1, <3>2
  <2>5. RowsPassed = before + 1 + (IF item <= drivers THEN 0 ELSE item - drivers - 1)
    BY <1>6 DEF RowsPassed
  <2>6. before \in Nat
    BY <1>3
  <2> HIDE DEF all, before, drivers, payloads, c
  <2>7. RowsPassed \in Nat /\ RowsPassed <= before + (1 + payloads)
    BY <2>1, <2>3, <2>5, <2>6
  <2>8. RowsPassed \in 0..all
    BY <1>3, <2>3, <2>4, <2>6, <2>7
  <2> QED
    BY <2>8 DEF all
<1>7. CASE epc \notin {"locate", "fmp", "info", "package", "hobs", "items"}
  <2>1. RowsPassed = all
    BY <1>7 DEF RowsPassed
  <2> HIDE DEF all
  <2> QED
    BY <1>3, <2>1 DEF all
<1> QED
  BY <1>4, <1>5, <1>6, <1>7

(* What the invariant says of a state.                                     *)
LEMMA FirmwareRightHere == EsrtInv => FirmwareRight
<1> SUFFICES ASSUME EsrtInv PROVE FirmwareRight
  OBVIOUS
<1>1. FmpBuffersFreed
  BY EsrtFacts DEF FmpBuffersFreed, EsrtBuffersInv
<1>2. DescriptorsRight
  <2> SUFFICES ASSUME NEW f \in 1..Len(firmware.fmps)
               PROVE  /\ ImageRows(f) = {} \/ ShownInFull(f)
                      /\ epc = "done" => ShownInFull(f) \/ f \in fmpFailures \/ (fmpCut /\ fmp <= f)
    BY DEF DescriptorsRight
  <2>1. /\ ImageRows(f) = {} \/ ShownInFull(f)
        /\ FmpPassed(f) => f \in fmpFailures \/ ShownInFull(f)
    BY EsrtFacts DEF EsrtDescriptorsInv
  <2>2. epc = "done" => fmp > Len(firmware.fmps) \/ fmpCut
    BY EsrtFacts DEF EsrtPlaceInv
  <2>3. f < fmp \/ fmp <= f
    BY EsrtFacts
  <2>4. fmp > Len(firmware.fmps) => f < fmp
    BY EsrtFacts
  <2> QED
    BY <2>1, <2>2, <2>3, <2>4 DEF FmpPassed
<1>3. CapsulesRight
  <2> DEFINE all == RowsUpTo(firmware.hobs, Len(firmware.hobs))
  <2>1. PICK before \in 0..Len(sections) : CapsulesFrom(before, RowsPassed)
    BY EsrtFacts DEF EsrtCapsulesInv
  <2>2. RowsPassed \in 0..all
    BY RowsPassedBounded
  <2>3. epc = "done" => RowsPassed = all
    BY DEF RowsPassed
  <2> QED
    BY <2>1, <2>2, <2>3 DEF CapsulesRight
<1> QED
  BY <1>1, <1>2, <1>3 DEF FirmwareRight

(* Whatever fails, firmware descriptors and capsules are shown where they  *)
(* are, all and in order, and no buffer of DumpFmpData is left behind.     *)
THEOREM FirmwareRightAlways == EsrtSpec => []FirmwareRight
  BY EsrtInvariant, FirmwareRightHere, PTL
=============================================================================

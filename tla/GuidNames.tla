------------------------------ MODULE GuidNames ------------------------------
(***************************************************************************)
(* The names of GUIDs in the core dumps: InitGuid reads Guid.xref, splits  *)
(* it in place into lines and fields with the strtok-like helpers of       *)
(* SupportString.c, and GuidToName looks a GUID up or formats it.          *)
(*                                                                         *)
(* The text is a sequence of words ("g1", "n1": what has no separator in   *)
(* it) and of the characters "NL", "CR", "SP" and "NUL".  A pointer is a   *)
(* position in it, 0 is NULL.                                              *)
(***************************************************************************)
EXTENDS Integers, Sequences, FiniteSets

CONSTANTS
  Texts,      \* contents of Guid.xref; <<"none">> where there is no file
  Guids,      \* the words AsciiStrToGuid can parse
  Asked       \* pairs of GUIDs that the dumps print

VARIABLES
  buffer,     \* Buffer, with the terminator that ReadFileFromVol adds
  mAsciiLineBuffer, mAsciiFieldBuffer,
  mGuidString,           \* the entries up to mGuidStringCount
  mGuidStringCountMax,
  mGuidName,  \* the static buffer GuidToName formats into
  gpc,         \* "init", "lines", "ready", "asserted", "undefined", "done"
  original,   \* the file, as it was before it was split
  guids,
  printed     \* [asked, shown]

guidVars == <<buffer, mAsciiLineBuffer, mAsciiFieldBuffer, mGuidString, mGuidStringCountMax, mGuidName, gpc, original, guids, printed>>

NoText == <<"none">>
LineEnds == {"NL", "CR"}
Space == {"SP"}

-----------------------------------------------------------------------------
(* AsciiStrSpn: the first character from position i on that is not in the  *)
(* set; AsciiStrBrk: the first one in the set, 0 before the terminator.    *)
AsciiStrSpn(t, i, set) == CHOOSE j \in i..Len(t) : t[j] \notin set /\ \A k \in i..j - 1 : t[k] \in set
Terminator(t, i) == CHOOSE j \in i..Len(t) : t[j] = "NUL" /\ \A k \in i..j - 1 : t[k] # "NUL"
AsciiStrBrk(t, i, set) ==
  LET hits == {j \in i..Terminator(t, i) : t[j] \in set}
  IN  IF hits = {} THEN 0 ELSE CHOOSE j \in hits : \A k \in hits : j <= k

(* A token: where it begins (0 for none), the text with its end replaced   *)
(* by a terminator, and where the next one is looked for.                  *)
Cut(t, begin, set) ==
  LET end == AsciiStrBrk(t, begin, set)
  IN  [begin |-> begin, text |-> IF end = 0 THEN t ELSE [t EXCEPT ![end] = "NUL"], next |-> IF end = 0 THEN 0 ELSE end + 1]
AsciiStrTokenLine(t, from) ==
  LET begin == IF from = 0 THEN 0 ELSE AsciiStrSpn(t, from, LineEnds)
  IN  IF begin = 0 \/ (begin # 0 /\ t[begin] = "NUL")
        THEN [begin |-> 0, text |-> t, next |-> 0]
        ELSE Cut(t, begin, LineEnds)
(* AsciiStrGetNewTokenField and AsciiStrGetNextTokenField: empty fields,   *)
(* which AsciiStrTokenField returns for each space, are skipped.           *)
AsciiStrTokenField(t, from) ==
  LET begin == IF from = 0 \/ t[from] = "NUL" THEN 0 ELSE AsciiStrSpn(t, from, Space)
  IN  IF begin = 0 \/ (begin # 0 /\ t[begin] = "NUL")
        THEN [begin |-> 0, text |-> t, next |-> 0]
        ELSE Cut(t, begin, Space)

-----------------------------------------------------------------------------
GuidInit ==
  /\ original \in Texts /\ guids \in Asked
  /\ buffer = Append(original, "NUL")
  /\ mAsciiLineBuffer = 0 /\ mAsciiFieldBuffer = 0 /\ mGuidString = <<>> /\ mGuidStringCountMax = 0
  /\ mGuidName = "none" /\ gpc = "init" /\ printed = <<>>

CountMax(t) == Cardinality({i \in 1..Len(t) : t[i] = "NL"}) + 1

(* InitGuid up to its loop.  Without the file, or without memory for the   *)
(* table, there are no names.  ReadFileToBuffer may also return success    *)
(* without a buffer (FileAccess): then BufferSize and Buffer have no value *)
(* to count and to split, and nothing is said of what follows.             *)
InitGuid ==
  /\ gpc = "init"
  /\ \/ /\ original # NoText
        /\ mGuidStringCountMax' = CountMax(original) /\ mAsciiLineBuffer' = 1 /\ gpc' = "lines"
     \/ /\ original # NoText
        /\ mGuidStringCountMax' = CountMax(original) /\ gpc' = "ready" /\ UNCHANGED mAsciiLineBuffer
     \/ /\ original # NoText
        /\ gpc' = "undefined" /\ UNCHANGED <<mGuidStringCountMax, mAsciiLineBuffer>>
     \/ /\ original = NoText
        /\ gpc' = "ready" /\ UNCHANGED <<mGuidStringCountMax, mAsciiLineBuffer>>
  /\ UNCHANGED <<buffer, mAsciiFieldBuffer, mGuidString, mGuidName, original, guids, printed>>

(* AddGuidName.                                                            *)
NameOf(guid, name) == IF guid = "zero" THEN "ZeroGuid" ELSE name
AddGuidName(guid, name) ==
  IF Len(mGuidString) >= mGuidStringCountMax THEN mGuidString
  ELSE IF guid \notin Guids THEN mGuidString
  ELSE Append(mGuidString, [guid |-> guid, name |-> NameOf(guid, name)])

(* One line: its two fields, both cut out of the same buffer.              *)
NextFieldStale(first) == IF first.next = 0 THEN mAsciiFieldBuffer ELSE first.next
NextField(first) == first.next
Line ==
  /\ gpc = "lines"
  /\ LET l == AsciiStrTokenLine(buffer, mAsciiLineBuffer)
         g == AsciiStrTokenField(l.text, l.begin)
         n == AsciiStrTokenField(g.text, NextField(g))
     IN  /\ mAsciiLineBuffer' = l.next
         /\ buffer' = n.text
         /\ IF l.begin = 0
              THEN gpc' = "ready" /\ UNCHANGED <<mAsciiFieldBuffer, mGuidString>>
              ELSE /\ mAsciiFieldBuffer' = n.next
                   /\ IF g.begin # 0 /\ n.begin # 0
                        THEN /\ gpc' = IF Len(mGuidString) >= mGuidStringCountMax THEN "asserted" ELSE gpc
                             /\ mGuidString' = AddGuidName(g.text[g.begin], n.text[n.begin])
                        ELSE UNCHANGED <<gpc, mGuidString>>
  /\ UNCHANGED <<mGuidStringCountMax, mGuidName, original, guids, printed>>

(* GuidToName: a pointer to an entry's name, or to the one static buffer.  *)
Entries(guid) == {i \in 1..Len(mGuidString) : mGuidString[i].guid = guid}
EntryOf(guid) == CHOOSE i \in Entries(guid) : \A j \in Entries(guid) : i <= j
GuidToName(guid) == IF Entries(guid) = {} THEN 0 ELSE EntryOf(guid)
Pointed(p, static) == IF p = 0 THEN static ELSE mGuidString[p].name

PrintName ==
  /\ gpc = "ready" /\ Len(guids) = 1
  /\ LET static == IF Entries(guids[1]) = {} THEN guids[1] ELSE mGuidName
     IN  /\ mGuidName' = static
         /\ printed' = <<Pointed(GuidToName(guids[1]), static)>>
  /\ gpc' = "done"
  /\ UNCHANGED <<buffer, mAsciiLineBuffer, mAsciiFieldBuffer, mGuidString, mGuidStringCountMax, original, guids>>

(* Both names are arguments of one DEBUG call.  C leaves the order of      *)
(* their evaluation open.                                                  *)
PrintTwoNames ==
  /\ gpc = "ready" /\ Len(guids) = 2
  /\ \E last \in {1, 2} :
       LET unknown == {i \in {1, 2} : Entries(guids[i]) = {}}
           static == IF unknown = {} THEN mGuidName ELSE IF last \in unknown THEN guids[last] ELSE guids[3 - last]
       IN  /\ mGuidName' = static
           /\ printed' = [i \in 1..2 |-> Pointed(GuidToName(guids[i]), static)]
  /\ gpc' = "done"
  /\ UNCHANGED <<buffer, mAsciiLineBuffer, mAsciiFieldBuffer, mGuidString, mGuidStringCountMax, original, guids>>

GuidNext == InitGuid \/ Line \/ PrintName \/ PrintTwoNames

GuidSpec == GuidInit /\ [][GuidNext]_guidVars

-----------------------------------------------------------------------------
(* The words of line n, by positions: what the file says before it is cut. *)
Words(from, to) == {i \in from..to : original[i] \notin LineEnds \cup Space}
Starts == {i \in 1..Len(original) : original[i] \notin LineEnds /\ (i = 1 \/ original[i - 1] \in LineEnds)}
EndOf(i) == CHOOSE j \in i..Len(original) : (j = Len(original) \/ original[j + 1] \in LineEnds) /\ \A k \in i..j : original[k] \notin LineEnds
Least(S) == CHOOSE i \in S : \A j \in S : i <= j
Pairs ==
  {i \in Starts : LET w == Words(i, EndOf(i)) IN Cardinality(w) >= 2 /\ original[Least(w)] \in Guids}
Listed(i) ==
  LET w == Words(i, EndOf(i))
      g == original[Least(w)]
  IN  [guid |-> g, name |-> NameOf(g, original[Least(w \ {Least(w)})])]

(* The table has the lines of the file that name a GUID, in their order:   *)
(* blank lines, leading and repeated spaces, lines of one word and lines   *)
(* after them neither add nor hide an entry.  Nothing is said of a run     *)
(* whose file was read without a buffer.                                   *)
TableExact ==
  gpc \in {"ready", "done"} /\ mAsciiLineBuffer = 0 /\ mGuidStringCountMax > 0 /\ original # NoText =>
    \/ mGuidString = <<>> /\ buffer = Append(original, "NUL")    \* no memory
    \/ mGuidString = [k \in 1..Cardinality(Pairs) |-> Listed(CHOOSE i \in Pairs : Cardinality({j \in Pairs : j < i}) = k - 1)]

(* The entries fit in the array that was sized by counting line ends, so   *)
(* the ASSERT(FALSE) of AddGuidName is not reached.                        *)
TableFits == gpc # "asserted"

(* A GUID is printed with the first name that the file gives it, any other *)
(* GUID as itself; of two such GUIDs in one DEBUG call, which share the    *)
(* static buffer, as one of them.                                          *)
NameRight ==
  gpc = "done" =>
    LET Hits(g) == {k \in 1..Len(mGuidString) : mGuidString[k].guid = g}
        unnamed == {g \in {guids[i] : i \in 1..Len(guids)} : Hits(g) = {}}
    IN  \A i \in 1..Len(guids) :
          IF guids[i] \in unnamed THEN printed[i] \in unnamed ELSE printed[i] = mGuidString[Least(Hits(guids[i]))].name

(* The table of GUID names is the text of Guid.xref, in the array counted  *)
(* for it, and GuidToName answers from it.                                 *)
GuidNamesRight == TableExact /\ TableFits /\ NameRight
=============================================================================

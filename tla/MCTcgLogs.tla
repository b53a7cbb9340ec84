------------------------------ MODULE MCTcgLogs ------------------------------
(***************************************************************************)
(* The two readers of TCG logs.  A behaviour is either runs of Tcg2DumpLog *)
(* or the TCPA part of a run of DumpAcpi; they share nothing, and the one  *)
(* that is not run stays as it is.                                         *)
(***************************************************************************)
EXTENDS Tcg2DumpLog, TcpaLogArea

VARIABLE tool

-----------------------------------------------------------------------------
(* Small logs for Tcg2DumpLog: events of two PCRs with the data layouts of *)
(* variable length, EV_NO_ACTION among them.                               *)
Ev(id, pcr, type, data) ==
  [pcr |-> pcr, type |-> type, data |-> data,
   digest |-> [a \in {TPM_ALG_SHA1, TPM_ALG_SHA256, TPM_ALG_SHA384} |-> 1000 * id + a]]

Separator == Ev(1, 0, EV_SEPARATOR, Word(0))
PlatformId == Ev(2, 1, EV_NO_ACTION, <<Sp800155Signature, Junk, Junk, 1, NUL, 2, Junk, NUL, 1, NUL, 1, NUL, Junk, 1, NUL>>)
OpenStrings == Ev(2, 1, EV_NO_ACTION, <<Sp800155Signature, Junk, Junk, 1, Junk, 0, 2, Junk, Junk, 0, Junk, 1, Junk>>)
Application == Ev(9, 0, EV_EFI_BOOT_SERVICES_APPLICATION, <<2, Junk, EndNode>>)
Locality == Ev(3, 0, EV_NO_ACTION, <<StartupLocalitySignature, 3>>)
Handoff == Ev(4, 1, EV_EFI_HANDOFF_TABLES2, <<2, Junk, Junk, 2, Junk, Junk, Junk, Junk>>)
Variable == Ev(5, 0, EV_EFI_VARIABLE_BOOT, <<1, 2, Junk, Junk, Junk>>)
Blob == Ev(6, 1, EV_EFI_PLATFORM_FIRMWARE_BLOB2, <<1, Junk, Junk, Junk>>)
Spdm == Ev(7, 0, EV_EFI_SPDM_FIRMWARE_BLOB, <<1, Junk, 1, Junk, Junk, Junk>>)
Empty == Ev(8, 1, 14, <<>>)

MCEvents == {Empty, Locality}
MCBoots == { <<PlatformId, Handoff>>, <<Variable, OpenStrings, Application>>, <<Separator>>, <<Blob, Spdm, Locality, Empty>> }
MCSpecAlgs == { <<TPM_ALG_SHA1>>, <<TPM_ALG_SHA384, TPM_ALG_SHA256>> }

Line(pcr, formats, calculate, bin, parse) ==
  [parses |-> TRUE, help |-> FALSE, acpi |-> FALSE, cap |-> FALSE, pcr |-> pcr, formats |-> formats,
   calculate |-> calculate, bin |-> bin, parse |-> parse]
Both == {"TCG_1_2", "TCG_2"}
Refused == { [Line(0, Both, FALSE, FALSE, FALSE) EXCEPT !.parses = FALSE], [Line(0, Both, FALSE, FALSE, FALSE) EXCEPT !.cap = TRUE],
             Line(2, Both, FALSE, FALSE, FALSE) }
MCCommandLines ==
  Refused \cup { Line(PCR_INDEX_ALL, Both, FALSE, TRUE, FALSE), Line(1, Both, FALSE, FALSE, FALSE),
                 Line(0, Both, TRUE, FALSE, FALSE), Line(PCR_INDEX_ALL, {"TCG_2"}, TRUE, TRUE, FALSE),
                 Line(PCR_INDEX_ALL, Both, FALSE, FALSE, TRUE) }
MCExpectAll == { Line(PCR_INDEX_ALL, Both, TRUE, FALSE, FALSE) }

-----------------------------------------------------------------------------
(* Log areas of up to two entries of each layout, full, with 0xFF and with *)
(* zeros in the unused part.                                               *)
Digest == <<7, 7>>
V1Entry(pcr, type, data) == <<1, 1, pcr, type>> \o <<DigestSize>> \o Digest \o <<Len(data)>> \o data
V2Entry(pcr, type, data) == <<pcr, type>> \o Digest \o <<Len(data)>> \o data

Data == { <<>>, <<9>>, <<9, 1, 9>>, <<FF, FF>> }
Specific == { <<3, 0>>, <<3, 2, FF, 0>> }
V1Entries == {V1Entry(p, 5, d) : p \in {0, 7}, d \in Data} \cup {V1Entry(1, EventTypeSpecific, d) : d \in Specific}
V2Entries == {V2Entry(p, t, d) : p \in {0, 7}, t \in {5, EventTypeSpecific}, d \in Data}

UpTo2(S) == {<<>>} \cup {<<x>> : x \in S} \cup {<<x, y>> : x \in S, y \in S}
Starts(es) == [i \in 1..Len(es) |-> Len(Concat(SubSeq(es, 1, i - 1))) + 1]
Table(revision, class, es, unused, n) ==
  [null |-> FALSE, revision |-> revision, class |-> class, unused |-> unused,
   area |-> Concat(es) \o [i \in 1..n |-> unused], entries |-> Starts(es)]

MCTables ==
  {Table(1, "client", es, u, n) : es \in UpTo2(V1Entries), u \in {0, FF}, n \in {0, 1, 7}}
  \cup {Table(2, c, es, u, n) : c \in {"client", "server", "other"}, es \in UpTo2(V2Entries), u \in {0, FF}, n \in {0, 7}}
  \cup {[Table(2, "client", <<>>, FF, 3) EXCEPT !.null = TRUE]}
MCOptions == [data : {FALSE}, verb : BOOLEAN]

-----------------------------------------------------------------------------
Some(S) == CHOOSE x \in S : TRUE
LogRests == events = Some(Boots) /\ algs = Some(SpecAlgs) /\ line = Some(CommandLines) /\ Init
AreaRests == tcpa = Some(TcpaTables) /\ option = Some(Options) /\ TcpaInit

LogsInit ==
  \/ tool = "Tcg2DumpLog" /\ AreaRests /\ Init
  \/ tool = "DumpAcpi" /\ LogRests /\ TcpaInit
Tcg2DumpLogSteps == tool = "Tcg2DumpLog" /\ Next /\ UNCHANGED <<tool, tcpaVars>>
DumpAcpiSteps == tool = "DumpAcpi" /\ TcpaNext /\ UNCHANGED <<tool, vars>>
logsVars == <<tool, vars, tcpaVars>>
LogsSpec ==
  /\ LogsInit /\ [][Tcg2DumpLogSteps \/ DumpAcpiSteps]_logsVars
  /\ WF_logsVars(tool = "Tcg2DumpLog" /\ Program /\ UNCHANGED <<tool, tcpaVars>>)
  /\ WF_logsVars(DumpAcpiSteps)

(* The walks of Tcg2DumpLog end, with events measured while they run, and  *)
(* so does the walk of a log area, with zeros in the unused part too: an   *)
(* entry is never of size 0.                                               *)
LogsEnd ==
  /\ (tool = "Tcg2DumpLog" /\ pc = "UefiMain") ~> pc \in {"done", "undefined"}
  /\ tool = "DumpAcpi" ~> areaPc = "done"
=============================================================================

----------------------------- MODULE TcpaLogArea -----------------------------
(***************************************************************************)
(* The TCPA library of DumpAcpi: the log area of a TPM 1.2 platform, given *)
(* by its address and its maximum length.  Firmware fills the area from    *)
(* the start; nothing but the unused bytes themselves tells where the      *)
(* events end.  There are two entry layouts: revision 1 of the table has   *)
(* a version in front of each entry and a length in front of the digest,   *)
(* revision 2 has neither.                                                 *)
(*                                                                         *)
(* The area is a sequence of cells, an integer takes one cell.             *)
(***************************************************************************)
EXTENDS Integers, Sequences, SequencesExt

CONSTANTS
  TcpaTables,  \* [null, revision, class, area, unused, entries]: tables with their log areas
  Options      \* [data, verb : BOOLEAN]: what GetAcpiDumpProperty... return

FF == 255
MajorOne == 1
DigestSize == 2
V1Size == 4                     \* sizeof(TCPA_PCR_EVENT_STRUCT): major, minor, PCRIndex, EventType
V2Size == 2 + DigestSize          \* sizeof(TCPA_V2_PCR_EVENT_STRUCT)
EventTypeSpecific == 6

(* What is read behind the area is not known; 0 stands for it. *)
AreaCell(t, a) == IF a \in 1..Len(t.area) THEN t.area[a] ELSE 0

(* Which of the two entry layouts a table leads to, 0 when there is none:  *)
(* revision 2 tables are known by their platform class.                    *)
AreaVersion(t) ==
  CASE t.revision < 2 -> 1
    [] t.revision >= 2 /\ t.class \in {"client", "server"} -> 2
    [] OTHER -> 0

(* DumpTcpaPcrEvent, for entries of version v: where the event data is,    *)
(* and the size of the entry; 0 says that this is no entry.                *)
EventData(t, v, a) == IF v < 2 THEN a + V1Size + 1 + AreaCell(t, a + V1Size) ELSE a + V2Size

IsEntry(t, v, a) ==
  IF v < 2 THEN AreaCell(t, a) = MajorOne /\ AreaCell(t, a + 1) # 0 /\ AreaCell(t, a + 2) # FF
           ELSE AreaCell(t, a) # FF

EntrySpan(t, v, a) == EventData(t, v, a) + 1 + AreaCell(t, EventData(t, v, a)) - a

VersionBlindTcpaPcrEventSize(t, v, a) ==   \* mutant: only the PCR index tells the end
  IF AreaCell(t, a) = FF THEN 0 ELSE EntrySpan(t, v, a)

TcpaPcrEventSize(t, v, a) == IF IsEntry(t, v, a) THEN EntrySpan(t, v, a) ELSE 0

EventType(t, v, a) == IF v < 2 THEN AreaCell(t, a + 3) ELSE AreaCell(t, a + 1)

(* The data of a platform specific event begins with an identifier and a   *)
(* size of its own.  The others are printed as they are.                   *)
Interpreted(t, v, a) ==
  LET data == EventData(t, v, a) IN
  IF v < 2 /\ EventType(t, v, a) = EventTypeSpecific
    THEN data + 3 + AreaCell(t, data + 2)
    ELSE data + 1 + AreaCell(t, data)

(***************************************************************************)
(* A log area as firmware fills it: entries from its first cell on, each   *)
(* behind the one before, the data of a platform specific event within its *)
(* entry, and the rest unused.                                             *)
(***************************************************************************)
Entries(t) == Len(t.entries)
EntryEnd(t, n) ==
  IF n = 0 THEN 1 ELSE t.entries[n] + EntrySpan(t, AreaVersion(t), t.entries[n])

AreaForm(t) ==
  LET v == AreaVersion(t) IN
  /\ t.area \in Seq(Nat) /\ t.unused \in {0, FF}
  /\ t.entries \in Seq(1..Len(t.area))
  /\ \A n \in 1..Entries(t) :
       /\ t.entries[n] = EntryEnd(t, n - 1)
       /\ IsEntry(t, v, t.entries[n])
       /\ EntryEnd(t, n) <= Len(t.area) + 1
       /\ Interpreted(t, v, t.entries[n]) <= EntryEnd(t, n)
  /\ \A a \in EntryEnd(t, Entries(t))..Len(t.area) : t.area[a] = t.unused

ASSUME AreasAssumption == \A t \in TcpaTables : AreaVersion(t) # 0 => AreaForm(t)

VARIABLES
  tcpa,      \* the table
  option,
  areaPc,    \* "DumpAcpiTCPA", "area", "done"
  version,   \* argument Version of DumpTcpaLogArea
  PcrEvent,  \* its cursor
  listed     \* [at, type, upto]: events printed and the first cell not interpreted

tcpaVars == <<tcpa, option, areaPc, version, PcrEvent, listed>>

TcpaInit ==
  /\ tcpa \in TcpaTables
  /\ option \in Options
  /\ areaPc = "DumpAcpiTCPA" /\ version = 0 /\ PcrEvent = 0 /\ listed = <<>>

DumpAcpiTCPA ==
  /\ areaPc = "DumpAcpiTCPA"
  /\ IF ~tcpa.null /\ option.verb /\ AreaVersion(tcpa) # 0
       THEN version' = AreaVersion(tcpa) /\ PcrEvent' = 1 /\ areaPc' = "area"
       ELSE areaPc' = "done" /\ UNCHANGED <<version, PcrEvent>>
  /\ UNCHANGED <<tcpa, option, listed>>

-----------------------------------------------------------------------------
(* One turn of the loop of DumpTcpaLogArea. *)
DumpTcpaPcrEvent ==
  /\ areaPc = "area"
  /\ PcrEvent <= Len(tcpa.area)
  /\ TcpaPcrEventSize(tcpa, version, PcrEvent) # 0
  /\ listed' = Append(listed, [at |-> PcrEvent, type |-> EventType(tcpa, version, PcrEvent), upto |-> Interpreted(tcpa, version, PcrEvent)])
  /\ PcrEvent' = PcrEvent + TcpaPcrEventSize(tcpa, version, PcrEvent)
  /\ UNCHANGED <<tcpa, option, areaPc, version>>

LogAreaEnd ==
  /\ areaPc = "area"
  /\ PcrEvent > Len(tcpa.area) \/ TcpaPcrEventSize(tcpa, version, PcrEvent) = 0
  /\ areaPc' = "done"
  /\ UNCHANGED <<tcpa, option, version, PcrEvent, listed>>

TcpaNext == DumpAcpiTCPA \/ DumpTcpaPcrEvent \/ LogAreaEnd

TcpaSpec == TcpaInit /\ [][TcpaNext]_tcpaVars /\ WF_tcpaVars(TcpaNext)

-----------------------------------------------------------------------------
(* The log area is shown as firmware filled it: every entry once, in order *)
(* and nothing of the unused part, whether the area is full or not, when   *)
(* the unused bytes are 0xFF, and with entries of version 1 whatever they  *)
(* are.  (Zeros behind entries of version 2 look like entries.)            *)
LogExact ==
  areaPc = "done" /\ option.verb /\ ~tcpa.null /\ AreaVersion(tcpa) # 0 /\ (AreaVersion(tcpa) = 1 \/ tcpa.unused = FF)
    => [i \in 1..Len(listed) |-> listed[i].at] = tcpa.entries

(* Nothing behind an entry is interpreted as part of it. *)
WithinEntry ==
  \A i \in 1..Len(listed) :
    \A j \in 1..Len(tcpa.entries) :
      listed[i].at = tcpa.entries[j] =>
        listed[i].upto <= IF j < Len(tcpa.entries) THEN tcpa.entries[j + 1] ELSE Len(tcpa.area) + 1

(* The dump of the log area is the log, entry by entry. *)
AreaRight == LogExact /\ WithinEntry
=============================================================================

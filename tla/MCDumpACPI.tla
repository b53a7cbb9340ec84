------------------------------ MODULE MCDumpACPI ------------------------------
(* Small machines for DumpACPI.  Addresses: 1x RSDPs, 2x root tables, the   *)
(* rest tables; 0 is NULL.                                                  *)
EXTENDS DumpACPI, FiniteSets

Table(sig, revision, facs, xfacs, dsdt, xdsdt) ==
  [sig |-> sig, revision |-> revision, firmwareCtrl |-> facs, xFirmwareCtrl |-> xfacs,
   dsdt |-> dsdt, xDsdt |-> xdsdt, len |-> 3]
Plain(sig) == Table(sig, 1, NULL, NULL, NULL, NULL)

(* FADTs of revision 1 and 4, with and without 64-bit pointers. *)
Fadts == { Table("FACP", 1, 40, 41, 50, 51), Table("FACP", 4, 40, 41, 50, 51),
           Table("FACP", 4, 40, NULL, 50, NULL), Table("FACP", 4, NULL, NULL, NULL, 51) }
TablesWith(fadt) ==
  [t \in {30, 31, 32, 33, 34, 40, 41, 50, 51} |->
     CASE t = 30 -> fadt
       [] t \in {31, 32} -> Plain("SSDT")
       [] t = 33 -> Plain("OEMX")
       [] t = 34 -> Plain("PSDT")
       [] t \in {40, 41} -> Plain("FACS")
       [] OTHER -> Plain("DSDT")]

Lists == { <<>>, <<30>>, <<31, 30, 32>>, <<30, 33, 34>>, <<30, NULL, 32>> }
RootOf(entries, width, slack) == [len |-> 36 + width * Len(entries) + slack, entries |-> entries]

(* A 1.0 machine, a 2.0 machine with both or one root table, a 2.0 pointer  *)
(* of revision 1, and a machine without ACPI.                               *)
Rsdps == { [revision |-> 0, rsdt |-> 20, xsdt |-> NULL], [revision |-> 2, rsdt |-> 20, xsdt |-> 21],
           [revision |-> 2, rsdt |-> NULL, xsdt |-> 21], [revision |-> 2, rsdt |-> 20, xsdt |-> NULL] }
MCPlatforms ==
  { [acpi10 |-> a10, acpi20 |-> a20, rsdp |-> [x \in {10, 11} |-> IF x = 10 THEN [r EXCEPT !.revision = 0] ELSE r],
     root |-> [x \in {20, 21} |-> IF x = 20 THEN RootOf(<<31>>, 4, 0) ELSE RootOf(l, 8, IF Len(l) = 1 THEN 4 ELSE 0)],
     table |-> TablesWith(f)] :
      a10 \in {NULL, 10}, a20 \in {11}, r \in Rsdps, l \in Lists, f \in Fadts }
  \cup
  { [acpi10 |-> a10, acpi20 |-> NULL, rsdp |-> [x \in {10} |-> [revision |-> 0, rsdt |-> 20, xsdt |-> NULL]],
     root |-> [x \in {20} |-> RootOf(l, 4, 0)], table |-> TablesWith(f)] : a10 \in {NULL, 10}, l \in Lists, f \in Fadts }

Line(d, v, sign) == [parses |-> TRUE, help |-> FALSE, d |-> d, v |-> v, sign |-> sign]
MCCommandLines ==
  { [Line(FALSE, FALSE, None) EXCEPT !.parses = FALSE], [Line(TRUE, FALSE, None) EXCEPT !.help = TRUE] }
  \cup { Line(d, FALSE, s) : d \in BOOLEAN, s \in {None, "FACS", "DSDT", "SSDT", "OEMX", "XSDT", "RSDT", "RSDP", "FACP"} }

(* Two libraries compete for APIC; with OwnFuncs they fill the array. *)
MCLibraryFuncs == <<"APIC", "HPET", "APIC">>
Old(len) == [x \in {<<"SSDT", 1>>} |-> [table |-> NULL, len |-> len]]
MCOldFiles == {[x \in {} |-> [table |-> NULL, len |-> 0]], Old(2), Old(5)}
=============================================================================

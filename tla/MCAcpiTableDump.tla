---------------------------- MODULE MCAcpiTableDump ----------------------------
(***************************************************************************)
(* Memories for AcpiTableDump: each is one ACPI table, laid out from a     *)
(* tree of structures the way firmware lays it out, and the fixed table    *)
(* that follows it in memory after a gap.                                  *)
(***************************************************************************)
EXTENDS AcpiTableDump, FiniteSets

CONSTANT MaxBody            \* structures at the top level of a table

Base == 4096
Far == 16                   \* the tables behind the FPDT pointers are at Far * address

(* A tree: parts inside, `more' bytes at the end, `domains' of a controller. *)
T(type, parts) == [type |-> type, parts |-> parts, more |-> 0, domains |-> 0]
Long(type, more) == [T(type, <<>>) EXCEPT !.more = more]

RECURSIVE Length(_)
RECURSIVE LengthAll(_)
LengthAll(parts) == IF parts = <<>> THEN 0 ELSE Length(parts[1]) + LengthAll(Tail(parts))
Length(t) ==
  SizeOfType(t.type) + 4 * t.domains + t.more
    + IF t.type \in {"FBPTPTR", "S3PTPTR"} THEN 0 ELSE LengthAll(t.parts)

CountOf(t) ==
  CASE t.type = "MSCT" -> Len(t.parts) - 1
    [] t.type = "MPST" -> Cardinality({i \in 1..Len(t.parts) : t.parts[i].type = "NODE"})
    [] t.type = "CONTROLLER" -> t.domains
    [] OTHER -> Len(t.parts)

RECURSIVE Lay(_, _, _, _)
RECURSIVE LayAll(_, _, _)
LayAll(parts, at, owner) ==
  IF parts = <<>> THEN [x \in {} |-> 0]
  ELSE LET first == Lay(parts[1], at, owner, Len(parts) = 1)
           rest == LayAll(Tail(parts), at + Length(parts[1]), owner)
       IN  [x \in DOMAIN first \cup DOMAIN rest |-> IF x \in DOMAIN first THEN first[x] ELSE rest[x]]
Lay(t, at, owner, last) ==
  LET pointer == t.type \in {"FBPTPTR", "S3PTPTR"}
      head == SizeOfType(t.type) + 4 * t.domains
      inside == IF pointer THEN LayAll(t.parts, Far * at, at) ELSE LayAll(t.parts, at + head, at)
      self == [type |-> t.type, len |-> Length(t), count |-> CountOf(t), last |-> last,
               ptr |-> IF pointer /\ t.parts # <<>> THEN Far * at ELSE NULL,
               offset |-> head, owner |-> owner]
  IN  [x \in {at} \cup DOMAIN inside |-> IF x = at THEN self ELSE inside[x]]

Neighbour == T("SSDT", <<>>)
MemoryOf(t) ==
  LET table == Lay(t, Base, NULL, TRUE)
      next == Base + Length(t) + 4
  IN  [x \in DOMAIN table \cup {next} |->
         IF x = next THEN Lay(Neighbour, next, NULL, TRUE)[next] ELSE table[x]]

Bodies(S) == UNION {[1..n -> S] : n \in 0..MaxBody}
TablesOf(type, S) == {MemoryOf(T(type, b)) : b \in Bodies(S)}

-----------------------------------------------------------------------------
Scopes == {T(t, b) : t \in {"DRHD", "RMRR"}, b \in {<<>>, <<Long("SCOPE", 2), Long("SCOPE", 4)>>}}
Banks == {T("MCE", <<>>), T("CMC", <<T("BANK", <<>>), T("BANK", <<>>)>>)}
Perf == {T("FBPTPTR", <<T("FBPT", <<T("BASICBOOT", <<>>), Long("EXTRA", 12)>>)>>),
         T("S3PTPTR", <<T("S3PT", <<T("S3RESUME", <<>>), T("S3SUSPEND", <<>>)>>)>>),
         T("S3PTPTR", <<>>), Long("EXTRA", 12)}
Power == {T("MPST", [i \in 1..n |-> Long("NODE", 8 * i)] \o <<T("CHARS", [i \in 1..k |-> T("CHAR", <<>>)])>>) :
            n \in 0..MaxBody, k \in 0..MaxBody}

(* Tables whose structures the libraries know, and the ones they skip       *)
(* where the walk allows it.                                                *)
RegularTables ==
  UNION { TablesOf("MADT", {T("LAPIC", <<>>), T("X2APIC", <<>>), Long("GIC", 4)}),
          TablesOf("SRAT", {T("CPU", <<>>), T("MEM", <<>>)}),
          TablesOf("DMAR", Scopes \cup {T("RHSA", <<>>), Long("EXTRA", 12)}),
          TablesOf("NFIT", {T("SPA", <<>>), Long("FLUSH", 16), Long("EXTRA", 12)}),
          TablesOf("FPDT", Perf),
          TablesOf("HEST", Banks \cup {T("GHES", <<>>), Long("EXTRA", 12)}),
          TablesOf("ASFT", {T("INFO", <<>>), Long("ALRT", 12), Long("EXTRA", 12)}) \ {MemoryOf(T("ASFT", <<>>))},
          TablesOf("CPEP", {T("POLL", <<>>)}), TablesOf("MCFG", {T("BASE", <<>>)}),
          TablesOf("MSCT", {T("PROXIMITY", <<>>)}) \ {MemoryOf(T("MSCT", <<>>))},
          {MemoryOf(t) : t \in Power},
          TablesOf("WDAT", {T("WDACTION", <<>>)}), TablesOf("EINJ", {T("INJECT", <<>>)}),
          TablesOf("ERST", {T("SERIALIZE", <<>>)}), TablesOf("DBG2", {Long("PORT", 12), Long("PORT", 20)}),
          {MemoryOf(T("PMTT", <<>>)), MemoryOf(T("LPIT", <<>>)), MemoryOf(T("OEMX", <<>>))} }

(* MADT and SRAT with structures of later ACPI revisions. *)
NewerTables ==
  TablesOf("MADT", {T("LAPIC", <<>>), T("X2APIC", <<>>), Long("ITS", 20), Long("NEW", 8)})
    \cup TablesOf("SRAT", {T("CPU", <<>>), T("MEM", <<>>), Long("X2APICAFFINITY", 24)})

(* PMTT and LPIT with at least one structure. *)
Dimms == <<T("DIMM", <<>>), T("DIMM", <<>>)>>
NestedTables ==
  { MemoryOf(T("PMTT", <<T("SOCKET", <<[T("CONTROLLER", Dimms) EXCEPT !.domains = d]>>)>> \o rest)) :
      d \in 0..1, rest \in {<<>>, Dimms, <<T("CONTROLLER", Dimms), Long("EXTRA", 8)>>} }
  \cup { MemoryOf(T("LPIT", [i \in 1..n |-> T("CSTATE", <<>>)])) : n \in 1..MaxBody }

-----------------------------------------------------------------------------
MCMemories == RegularTables \cup NewerTables \cup NestedTables
=============================================================================

------------------------------ MODULE MCVtdDump ------------------------------
(***************************************************************************)
(* VtdDump: the registration of devices from the DMAR table, and the check *)
(* of the translation tables against the drivers' mappings.  The check     *)
(* reads the exceptions and reserved regions that the registration has     *)
(* recorded, and nothing else of it: a behaviour is one of the two, from   *)
(* any records, and the other stays as it is.                              *)
(***************************************************************************)
EXTENDS VtdUnits, VtdTranslation

VARIABLE part

-----------------------------------------------------------------------------
(* Small platforms: two segments, buses three deep, a function number that *)
(* answers without function 0, and a bridge that has not been numbered.    *)
Ep(device, sub, multi) ==
  [bridge |-> FALSE, secondary |-> 0, multi |-> multi, id |-> [device |-> device, subsystem |-> sub]]
Br(secondary, multi) ==
  [bridge |-> TRUE, secondary |-> secondary, multi |-> multi, id |-> [device |-> 9, subsystem |-> 7]]

BusesTo(second, third) ==
  [loc \in {<<0, 0, 0, 0>>, <<0, 0, 0, 1>>, <<0, 0, 1, 0>>, <<0, 1, 0, 0>>, <<0, 1, 1, 1>>, <<0, 2, 0, 0>>, <<1, 0, 0, 0>>} |->
     CASE loc = <<0, 0, 0, 0>> -> Ep(1, 1, TRUE)
       [] loc = <<0, 0, 0, 1>> -> Ep(2, 1, FALSE)
       [] loc = <<0, 0, 1, 0>> -> Br(second, FALSE)
       [] loc = <<0, 1, 0, 0>> -> Br(third, FALSE)
       [] loc = <<0, 1, 1, 1>> -> Ep(1, 2, FALSE)
       [] loc = <<0, 2, 0, 0>> -> Ep(2, 2, FALSE)
       [] loc = <<1, 0, 0, 0>> -> Ep(3, 1, FALSE)]
MCPlatforms == {BusesTo(1, 2), BusesTo(1, 0)}

Scope(type, onBus, path) == [type |-> type, bus |-> onBus, path |-> path]
Drhd(base, seg, all, scopes) ==
  [type |-> "DRHD", base |-> base, seg |-> seg, all |-> all, limit |-> 0, scopes |-> scopes]
Rmrr(base, limit, scopes) ==
  [type |-> "RMRR", base |-> base, seg |-> 0, all |-> FALSE, limit |-> limit, scopes |-> scopes]
Gfx   == Scope("endpoint", 0, <<<<0, 1>>>>)
RootPort  == Scope("bridge", 0, <<<<1, 0>>>>)
Nvme  == Scope("endpoint", 0, <<<<1, 0>>, <<1, 1>>>>)
Apic  == Scope("ioapic", 0, <<<<0, 0>>>>)
Hpet  == Scope("hpet", 0, <<<<1, 1>>>>)

Atsr == [type |-> "ATSR", base |-> 0, seg |-> 0, all |-> FALSE, limit |-> 0, scopes |-> <<RootPort>>]
Plain(type) == [Atsr EXCEPT !.type = type, !.scopes = <<>>]

\* First units: none, graphics, one endpoint behind a bridge, a hierarchy.
FirstScopes == {<<>>, <<Gfx>>, <<Nvme>>, <<Gfx, Nvme>>, <<RootPort>>, <<Hpet, Gfx>>}
LastScopes  == {<<>>, <<Apic, Hpet>>, <<Apic, Apic>>}
Regions     == {<<>>, <<Rmrr(16, 31, <<Gfx, Nvme>>)>>, <<Rmrr(16, 31, <<Gfx, RootPort>>), Rmrr(64, 64, <<Nvme>>)>>}

MCDmars ==
  {<<Drhd(4096, 0, FALSE, f), Atsr>> \o r \o <<Drhd(8192, 0, TRUE, l)>> : f \in FirstScopes, l \in LastScopes, r \in Regions}
  \cup {<<Drhd(4096, 0, FALSE, <<RootPort, Nvme>>), Plain("RHSA"), Drhd(12288, 1, TRUE, <<>>), Plain("ANDD"), Plain("SATC"), Drhd(8192, 0, TRUE, <<>>)>>,
        <<Drhd(12288, 1, TRUE, <<>>), Drhd(4096, 0, FALSE, <<Gfx>>), Drhd(8192, 0, TRUE, <<Apic>>)>>}

MCRsdps ==
  {[revision |-> 2, xsdt |-> <<"FACP", "DMAR">>, rsdt |-> <<None>>],
   [revision |-> 2, xsdt |-> <<"FACP", None>>, rsdt |-> <<None, "DMAR">>],
   [revision |-> 0, xsdt |-> <<"DMAR">>, rsdt |-> <<"FACP">>]}

Id(device, sub) == [type |-> "id", loc |-> <<>>, id |-> [device |-> device, subsystem |-> sub]]
Loc(loc) == [type |-> "scope", loc |-> loc, id |-> NoId]
MCPolicies ==
  {<<Loc(<<0, 0, 0, 1>>), Id(1, Wild)>>, <<Id(Wild, 1), [type |-> "end", loc |-> <<>>, id |-> NoId], Id(2, 2)>>}

-----------------------------------------------------------------------------
(* Tables of two entries per level with 4KB and 2MB leaves, for two units. *)
E4(page) == [addr |-> page, read |-> TRUE, write |-> TRUE, large |-> FALSE]
Pg(addr, r, w, large) == [addr |-> addr, read |-> r, write |-> w, large |-> large]

\* Tables 101.. below roots 101 and 201: leaves at different levels.
PageTables(leafA, leafB, leafC) ==
  [p \in {101, 102, 103, 104, 105, 201, 202, 203, 204} |->
     CASE p = 101 -> <<Zero, E4(102)>>
       [] p = 102 -> <<E4(103), E4(105)>>
       [] p = 103 -> <<leafB, E4(104)>>
       [] p = 104 -> <<leafA, Zero>>
       [] p = 105 -> <<Zero, Zero>>
       [] p = 201 -> <<E4(202), Zero>>
       [] p = 202 -> <<Zero, E4(203)>>
       [] p = 203 -> <<E4(204), Zero>>
       [] p = 204 -> <<Zero, leafC>>]

D == <<0, 0, 0, 1>>
F == <<0, 1, 1, 0>>
Handle(loc, isPci, access) == [loc |-> loc, pci |-> isPci, access |-> access]
RW == <<TRUE, TRUE>>
RO == <<TRUE, FALSE>>
MapD(access) == [name |-> "D", addr |-> 8, pages |-> 2, handles |-> <<Handle(D, TRUE, access)>>]
MapF == [name |-> "F", addr |-> 20, pages |-> 4, handles |-> <<Handle(F, TRUE, RW), Handle(D, TRUE, RO)>>]
MapX == [name |-> "X", addr |-> 20, pages |-> 4, handles |-> <<Handle(<<>>, FALSE, RW)>>]

Ctx(k, page) == [c \in 1..ContextSize |-> [present |-> c \in k, page |-> page]]
Bus(lower, upper, k, page) == [lower |-> lower, upper |-> upper, contexts |-> Ctx(k, page)]
TwoUnits(ext, upper) ==
  <<[seg |-> 0, ext |-> FALSE, buses |-> <<Bus(TRUE, FALSE, {2}, 101), Bus(FALSE, FALSE, {1}, 101), Bus(TRUE, FALSE, {3}, 201)>>],
    [seg |-> 0, ext |-> ext, buses |-> <<Bus(FALSE, upper, {4}, 201), Bus(TRUE, upper, {1} \cup (IF upper THEN {4} ELSE {}), 101)>>]>>

Machine(iommu, ms, leafA, leafB, leafC, excepted, regions, ext, upper) ==
  [iommu |-> iommu, maps |-> ms, tables |-> PageTables(leafA, leafB, leafC),
   exceptions |-> excepted, rmrr |-> regions, units |-> TwoUnits(ext, upper)]

Large == Pg(16, TRUE, TRUE, TRUE)
Lists == {<<>>, <<MapD(RW), MapF>>, <<MapF, MapD(RO)>>, <<MapD(RW), MapX>>}
LeafA == {Zero, Pg(8, TRUE, TRUE, FALSE), Pg(8, TRUE, FALSE, FALSE), Pg(8, FALSE, FALSE, FALSE) }
LeafB == {Zero, Large}
LeafC == {Pg(21, TRUE, TRUE, FALSE)}
Others == {<<<<>>, <<>>>>, <<<<<<0, 1, 0, 0>>>>, <<[loc |-> F, base |-> 20, pages |-> 2]>>>>,
           <<<<D, <<0, 1, 0, 0>>>>, <<[loc |-> F, base |-> 20, pages |-> 2]>>>>}

FewMachines ==
  {Machine(TRUE, ms, a, b, c, o[1], o[2], ext, FALSE) :
     ms \in Lists, a \in LeafA, b \in LeafB, c \in LeafC, o \in Others, ext \in BOOLEAN}
  \cup {Machine(FALSE, <<>>, a, Zero, Zero, <<>>, <<>>, FALSE, FALSE) : a \in LeafA}

(* A page in no mapping, one of 2MB in a mapping for reading, and contexts *)
(* in the upper half of the extended format.                               *)
OutsideMachines == {Machine(TRUE, <<MapX>>, Pg(30, TRUE, TRUE, FALSE), Zero, Zero, <<>>, <<>>, FALSE, FALSE)}
LargeMachines   == {Machine(TRUE, <<MapD(RO)>>, Zero, Large, Zero, <<>>, <<>>, FALSE, FALSE)}
UpperMachines   == {Machine(TRUE, <<MapX>>, Pg(21, TRUE, TRUE, FALSE), Zero, Zero, <<>>, <<>>, TRUE, TRUE)}
MCMachines == FewMachines \cup OutsideMachines \cup LargeMachines \cup UpperMachines

-----------------------------------------------------------------------------
Some(S) == CHOOSE x \in S : TRUE
UnitsRest == pci = Some(Platforms) /\ dmar = Some(Dmars) /\ rsdp = Some(Rsdps) /\ policy = Some(Policies) /\ Init
TranslationRests == machine = Some(Machines) /\ TranslationInit

DumpInit ==
  \/ part = "units" /\ TranslationRests /\ Init
  \/ part = "translation" /\ UnitsRest /\ TranslationInit
UnitSteps == part = "units" /\ Next /\ UNCHANGED <<part, translationVars>>
TranslationSteps == part = "translation" /\ TranslationNext /\ UNCHANGED <<part, vars>>
dumpVars == <<part, vars, translationVars>>
DumpSpec ==
  /\ DumpInit /\ [][UnitSteps \/ TranslationSteps]_dumpVars
  /\ WF_dumpVars(UnitSteps)
  /\ WF_dumpVars(part = "translation" /\ Application /\ UNCHANGED <<part, vars>>)

(* The scan ends, as buses behind bridges have higher numbers and the      *)
(* recursion of ScanPciBus is finite; the walk of the translation tables   *)
(* ends whatever mappings other drivers make and undo meanwhile.           *)
DumpEnds ==
  /\ part = "units" ~> pc \in {"done", "pool_failed"}
  /\ part = "translation" ~> ~Running
=============================================================================

------------------------------ MODULE MCPcdDump ------------------------------
(***************************************************************************)
(* PcdDump: the way to a database, the dump of a database and the dump of  *)
(* the NvStore.  A behaviour is one of the three; what the first one hands *)
(* to the others, the database and its phase, is any of their inputs.      *)
(***************************************************************************)
EXTENDS PcdDatabase, PcdNvStore, PcdSources, TLC

VARIABLE part

-----------------------------------------------------------------------------
(* Databases of up to two tokens of every type, with two other SKUs.       *)
Size == [UINT8 |-> 1, UINT16 |-> 2, UINT32 |-> 4, UINT64 |-> 8]

(* A token before it is laid out: the default is zeros, SKU 1 changes the  *)
(* first or the last byte, SKU 2 the last one or none.                     *)
Bytes(n, first, last) == [j \in 1..n |-> IF j = 1 /\ first # 0 THEN first ELSE IF j = n /\ last # 0 THEN last ELSE 0]
Token(type, datum, n, sku1, sku2) ==
  [type |-> type, datum |-> datum, init |-> TRUE, default |-> Bytes(n, 0, 0),
   max |-> n + 1, sku |-> [s \in {1, 2} |-> IF s = 1 THEN Bytes(n, sku1, 0) ELSE Bytes(n, 0, sku2)]]
Blank(type, datum) ==
  [type |-> type, datum |-> datum, init |-> FALSE, default |-> <<>>, max |-> 2, sku |-> [s \in {1, 2} |-> <<>>]]

Tokens ==
  {Token("DATA", d, Size[d], s1, s2) : d \in DOMAIN Size, s1 \in {0, 5}, s2 \in {0, 6}}
  \cup {Token(t, "POINTER", n, s1, s2) : t \in {"DATA", "STRING", "HII STRING"}, n \in {1, 3}, s1 \in {0, 5}, s2 \in {0, 6}}
  \cup {Token("HII", "UINT16", 2, s1, 6) : s1 \in {0, 5}}
  \cup {Blank("VPD", "POINTER"), Blank("VPD", "UINT8"), Blank("DATA", "UINT32"), Blank("UNKNOWN", "UINT8")}

(* The layout of the build tool: heads at 0, 8, ..., one cell for the      *)
(* second head of an HII STRING, then the values one behind the other;     *)
(* uninitialized values and the VPD region are behind Length.              *)
HeadOf(i) == 8 * (i - 1)
Cells(t) == IF t.init THEN Len(t.default) ELSE 0
AreaStart(ts) == 8 * Len(ts)
ValueAt(ts, i) ==
  LET S[j \in 0..Len(ts)] == IF j = 0 THEN AreaStart(ts) ELSE LET prev == S[j - 1] IN prev + Cells(ts[j])
  IN  S[i - 1]
LengthOf(ts) == ValueAt(ts, Len(ts)) + (IF ts = <<>> THEN 0 ELSE Cells(ts[Len(ts)]))
HeadRecord(t, i, at, string) ==
  [string |-> at - string, default |-> IF t.type = "HII STRING" THEN HeadOf(i) + 4 ELSE at, vpd |-> 4]
Delta(o, v) == [offset |-> o, value |-> v]
DeltasOf(ts, s) ==
  LET D[i \in 0..Len(ts)] ==
        IF i = 0 THEN <<>>
        ELSE LET prev == D[i - 1]
                 v == ts[i].sku[s]
                 base == ts[i].default
                 at == ValueAt(ts, i)
                 changed == {j \in 1..Len(v) : v[j] # base[j]}
                 first == IF 1 \in changed THEN <<Delta(at, v[1])>> ELSE <<>>
                 last == IF Len(v) > 1 /\ Len(v) \in changed THEN <<Delta(at + Len(v) - 1, v[Len(v)])>> ELSE <<>>
             IN  prev \o first \o last
  IN  D[Len(ts)]
BlockLength(ds) == DeltaHeaderSize + DeltaSize * Len(ds)
Sizes(ts) ==
  LET S[i \in 0..Len(ts)] ==
        IF i = 0 THEN <<>>
        ELSE LET prev == S[i - 1] IN IF ts[i].datum = "POINTER" THEN prev \o <<ts[i].max, Len(ts[i].default)>> ELSE prev
  IN  S[Len(ts)]
Layout(ts, skus, exMap) ==
  LET length == LengthOf(ts)
      d1 == DeltasOf(ts, 1)
      d2 == DeltasOf(ts, 2)
      o1 == ALIGN_VALUE(length, 8)
      o2 == ALIGN_VALUE(o1 + BlockLength(d1), 8)
      string == AreaStart(ts) - 1
      heads == {HeadOf(i) : i \in 1..Len(ts)} \cup {HeadOf(i) + 4 : i \in 1..Len(ts)}
  IN  [signature |-> TRUE, Length |-> length, built |-> ts, skuTable |-> skus, exMap |-> exMap,
       LengthForAllSkus |-> IF skus = <<>> THEN length ELSE o2 + BlockLength(d2),
       block |-> IF skus = <<>> THEN <<>> ELSE (o1 :> [sku |-> 1, length |-> BlockLength(d1), delta |-> d1])
                                            @@ (o2 :> [sku |-> 2, length |-> BlockLength(d2), delta |-> d2]),
       token |-> [i \in 1..Len(ts) |-> [type |-> ts[i].type, datum |-> ts[i].datum,
                    offset |-> CASE ts[i].type = "DATA" /\ ts[i].init -> ValueAt(ts, i)
                                 [] ts[i].type = "DATA" /\ ~ts[i].init -> length + 8
                                 [] OTHER -> HeadOf(i)]],
       head |-> [o \in heads |-> LET i == o \div 8 + 1 IN HeadRecord(ts[i], i, ValueAt(ts, i), string)],
       byte |-> [o \in AreaStart(ts)..length - 1 |->
                   LET i == CHOOSE j \in 1..Len(ts) : ValueAt(ts, j) <= o /\ o < ValueAt(ts, j) + Cells(ts[j])
                   IN  ts[i].default[o - ValueAt(ts, i) + 1]],
       sizeTable |-> Sizes(ts), stringTable |-> string, vpd |-> 4096]

Few == {Token("DATA", "UINT16", 2, 5, 6), Token("STRING", "POINTER", 3, 5, 6), Blank("VPD", "POINTER")}
NoSkus(ts) == [ts EXCEPT ![1].sku = [s \in {1, 2} |-> ts[1].default]]
MCDatabases ==
  {Layout(<<t, u>>, <<1, 2>>, <<[ex |-> 7, token |-> 1]>>) : t \in Tokens, u \in Tokens}
  \cup {Layout(<<t, u, v>>, <<1, 2>>, <<>>) : t \in Few, u \in Few, v \in Few}
  \cup {Layout(<<t>>, <<1, 2>>, <<>>) : t \in Tokens}
  \cup {Layout(NoSkus(<<t>>), <<>>, <<>>) : t \in {u \in Tokens : Len(u.default) > 0}}
  \cup {[Layout(<<t>>, <<1, 2>>, <<>>) EXCEPT !.signature = FALSE] : t \in Few}

-----------------------------------------------------------------------------
(* Files with one or two stores of up to two variables and two delta       *)
(* blocks, both header formats, sizes on and off the alignments; each part *)
(* of a store is for one pair of SKU and default id, or for two.           *)
Info(sku) == [sku |-> sku, default |-> 0]
StoreInfos(sku, n) == [j \in 1..n |-> Info(sku + 10 * (j - 1))]

(* A variable before the layout: its sizes, and the byte (0 for none) that *)
(* each block changes.                                                     *)
Variables == [nameSize : {4, 6}, dataSize : {1, 4, 7}, changed : {<<0, 0>>, <<1, 0>>, <<1, 1>>}]
Value(b) == 4 + b

StoreLayout(format, vs, blocks, n) ==
  LET headerSize == 4 + DefaultInfoSize * n
      header == BufferHeaderSize + 8 + DefaultInfoSize * n
      start == header + StoreHeaderSize
      At[k \in 1..Len(vs) + 1] ==
        IF k = 1 THEN start
        ELSE LET prev == At[k - 1] IN ALIGN_VALUE(prev + HeaderSize[format] + vs[k - 1].nameSize + vs[k - 1].dataSize, 4)
      DataAt(k) == At[k] + HeaderSize[format] + vs[k].nameSize
      end == At[Len(vs) + 1]
      Ds(b) == LET D[k \in 0..Len(vs)] ==
                     IF k = 0 THEN <<>>
                     ELSE LET prev == D[k - 1]
                          IN  IF vs[k].changed[b] = 0 THEN prev
                              ELSE Append(prev, [offset |-> DataAt(k) + vs[k].dataSize - 1 - header, value |-> Value(b)])
               IN  D[Len(vs)]
      BlockSize(b) == 8 + DefaultInfoSize * n + DeltaSize * Len(Ds(b))
      o1 == ALIGN_VALUE(end, 8)
      o2 == ALIGN_VALUE(o1 + BlockSize(1), 8)
      BlockOf(b) == [dataSize |-> BlockSize(b), headerSize |-> headerSize, infos |-> StoreInfos(b, n), delta |-> Ds(b)]
      zeros(k) == [j \in 1..vs[k].dataSize |-> 0]
  IN  [format |-> format, headerSize |-> headerSize, infos |-> StoreInfos(0, n), dataSize |-> end - BufferHeaderSize,
       Length |-> CASE blocks = 0 -> end [] blocks = 1 -> o1 + BlockSize(1) [] OTHER -> o2 + BlockSize(2),
       variable |-> [o \in {At[k] : k \in 1..Len(vs)} |-> LET k == CHOOSE j \in 1..Len(vs) : At[j] = o IN [nameSize |-> vs[k].nameSize, dataSize |-> vs[k].dataSize]],
       block |-> CASE blocks = 0 -> <<>> [] blocks = 1 -> o1 :> BlockOf(1) [] OTHER -> (o1 :> BlockOf(1)) @@ (o2 :> BlockOf(2)),
       byte |-> [o \in UNION {DataAt(k)..DataAt(k) + vs[k].dataSize - 1 : k \in 1..Len(vs)} |-> 0],
       built |-> [k \in 1..Len(vs) |-> zeros(k)],
       skus |-> [k \in 1..Len(vs) |-> {[pairs |-> {StoreInfos(b, n)[j] : j \in 1..n}, bytes |-> [zeros(k) EXCEPT ![vs[k].dataSize] = Value(b)]] : b \in {c \in 1..blocks : vs[k].changed[c] = 1}}]]

Stores ==
  {StoreLayout(f, <<v, w>>, b, 1) : f \in {"normal", "authenticated"}, v \in Variables, w \in Variables, b \in {0, 2}}
  \cup {StoreLayout(f, <<v>>, b, n) : f \in {"normal", "authenticated"}, v \in Variables, b \in {0, 1, 2}, n \in {1, 2}}
  \cup {StoreLayout("normal", <<>>, b, 1) : b \in {0, 1}}
One == StoreLayout("authenticated", <<[nameSize |-> 6, dataSize |-> 7, changed |-> <<1, 1>>]>>, 2, 2)
VpdFile(status, size, store) == [status |-> status, size |-> size, store |-> store]
MCFiles ==
  {VpdFile("success", 6, 1 :> s) : s \in Stores}
  \cup {VpdFile("success", 8, (0 :> One) @@ (2 :> One)), VpdFile("success", 4, 0 :> One), VpdFile("success", 9, <<>>), VpdFile("not found", 0, <<>>)}

-----------------------------------------------------------------------------
(* Volumes of up to two files with up to two sections, laid out with the   *)
(* sizes of the headers; they erase to 1, as GetFfsByName assumes.         *)
(* Sections before the layout.                                             *)
Sec(raw, pcd, n, large) == [raw |-> raw, pcd |-> pcd, size |-> n + (IF large THEN 8 ELSE 4), large |-> large]
Secs == {Sec(FALSE, FALSE, 17, FALSE), Sec(TRUE, FALSE, 3, FALSE), Sec(TRUE, FALSE, 20, TRUE), Sec(TRUE, TRUE, 33, FALSE), Sec(TRUE, TRUE, 36, TRUE)}
SecSeqs == {<<>>} \cup {<<s>> : s \in Secs} \cup {<<s, u>> : s \in Secs, u \in Secs}
FileOf(name, large, ss) ==
  LET start == IF large THEN 32 ELSE 24
      At[i \in 1..Len(ss) + 1] == IF i = 1 THEN start ELSE LET prev == At[i - 1] IN prev + ALIGN_VALUE(ss[i - 1].size, 4)
  IN  [name |-> name, large |-> large,
       size |-> IF ss = <<>> THEN start ELSE At[Len(ss)] + ss[Len(ss)].size,
       section |-> [o \in {At[i] : i \in 1..Len(ss)} |-> ss[CHOOSE i \in 1..Len(ss) : At[i] = o]]]
Volume(fs, ext, free, polarity) ==
  LET start == ALIGN_VALUE(IF ext THEN 72 + 21 ELSE 72, 8)
      At[i \in 1..Len(fs) + 1] == IF i = 1 THEN start ELSE LET prev == At[i - 1] IN prev + ALIGN_VALUE(fs[i - 1].size, 8)
  IN  [signature |-> TRUE, length |-> At[Len(fs) + 1] + free, headerLength |-> 72, polarity |-> polarity,
       extOffset |-> IF ext THEN 72 ELSE 0, extSize |-> 21,
       file |-> [o \in {At[i] : i \in 1..Len(fs)} |-> fs[CHOOSE i \in 1..Len(fs) : At[i] = o]]]

Other == FileOf("other", FALSE, <<Sec(TRUE, TRUE, 33, FALSE)>>)
FfsFiles == {FileOf(n, l, ss) : n \in {"pei", "dxe"}, l \in BOOLEAN, ss \in SecSeqs}
Volumes == {Volume(<<f>>, e, 64, p) : f \in FfsFiles, e \in BOOLEAN, p \in {1}}
           \cup {Volume(<<Other, f>>, FALSE, free, p) : f \in FfsFiles, free \in {0, 64}, p \in {1}}
Simple == Volume(<<Other>>, FALSE, 8, 1)
Hob == [kind |-> "hob", tokens |-> 3]
Base == [hob |-> Hob, volumes |-> <<>>, memory |-> Simple, binary |-> [kind |-> "file"], spaces |-> <<{1, 2}, {5}, {2, 7}>>, protocols |-> TRUE]
MCPlatforms ==
  {[Base EXCEPT !.memory = v] : v \in Volumes}
  \cup {[Base EXCEPT !.memory.signature = FALSE]}
  \cup {[Base EXCEPT !.volumes = <<Simple, v, w>>] : v \in {Simple} \cup {Volume(<<f>>, FALSE, 8, 1) : f \in FfsFiles},
                                                    w \in {Volume(<<f>>, FALSE, 8, 1) : f \in {FileOf("pei", FALSE, <<Sec(TRUE, TRUE, 33, FALSE)>>), FileOf("dxe", TRUE, <<>>)}}}
  \cup {[Base EXCEPT !.hob = Nowhere, !.binary = Nowhere, !.protocols = FALSE]}
  \cup {[Base EXCEPT !.spaces = s] : s \in {<<{}>>, <<{}, {3}>>, <<{1}, {}, {4, 5}>>, <<{1, 3}>>}}
MCCommandLines ==
  [option : {"-HOB", "-PROTOCOL", "-BIN(PEI)", "-BIN(DXE)", "-DB(PEI)", "-DB(DXE)", "-BIN(NvStore)"}, argc : {1, 2, 3}, zero : {FALSE}]
  \cup {[option |-> "-DB(PEI)", argc |-> 3, zero |-> TRUE]}

-----------------------------------------------------------------------------
Some(S) == CHOOSE x \in S : TRUE
DatabaseRests == db = Some(Databases) /\ isPei = TRUE /\ peiCount = Some(PeiTokenCounts) /\ Init
NvStoreRests == file = Some(Files) /\ NvInit
SourcesRest == platform = Some(Platforms) /\ command = Some(CommandLines) /\ SourcesInit

PcdInit ==
  \/ part = "database" /\ NvStoreRests /\ SourcesRest /\ Init
  \/ part = "NvStore" /\ DatabaseRests /\ SourcesRest /\ NvInit
  \/ part = "sources" /\ DatabaseRests /\ NvStoreRests /\ SourcesInit
DatabaseSteps == part = "database" /\ Next /\ UNCHANGED <<part, nvVars, sourcesVars>>
NvStoreSteps == part = "NvStore" /\ NvNext /\ UNCHANGED <<part, vars, sourcesVars>>
SourcesSteps == part = "sources" /\ SourcesNext /\ UNCHANGED <<part, vars, nvVars>>
PcdNext == DatabaseSteps \/ NvStoreSteps \/ SourcesSteps
pcdVars == <<part, vars, nvVars, sourcesVars>>
PcdSpec == PcdInit /\ [][PcdNext]_pcdVars /\ WF_pcdVars(PcdNext)

(* The walks over tokens and delta blocks, over the stores of a file and   *)
(* files and sections of a volume end: each size read moves on.  Nothing   *)
(* is said where a file is read with success but without a buffer.         *)
PcdDumpEnds ==
  /\ part = "database" ~> pc = "done"
  /\ part = "NvStore" ~> npc \in {"done", "undefined"}
  /\ part = "sources" ~> spc \in {"done", "undefined"}
=============================================================================

----------------------------- MODULE MCCoreDumps -----------------------------
(***************************************************************************)
(* DxeCoreDumpApp, and PeiCoreDump with PeiCoreDumpApp.  They share        *)
(* nothing: a behaviour is that of one of them, the other stays as it is.  *)
(***************************************************************************)
EXTENDS DxeCoreDump, PeiCoreDump

CONSTANTS h0, h1, h2, p1, p2, e1, e2, e3, dummy

VARIABLE tool

-----------------------------------------------------------------------------
(* The application's handle and another one, with one or two protocols, a  *)
(* notification, two signal events and up to three timers; a handle, a     *)
(* protocol and events are left for the handlers to enter.                 *)
Empty == [l \in Lists |-> <<>>]
Base == [Empty EXCEPT ![HandleList] = <<ImageHandle, h1>>, ![OnHandle(ImageHandle)] = <<p1>>, ![OnHandle(h1)] = <<p1>>, ![ProtocolDatabase] = <<p1>>, ![ByProtocol(p1)] = <<ImageHandle, h1>>]
Rich == [Base EXCEPT ![HandleList] = <<h1, ImageHandle>>, ![OnHandle(h1)] = <<p2, p1>>, ![ProtocolDatabase] = <<p1, p2>>, ![ByProtocol(p2)] = <<h1>>, ![NotifyOf(p1)] = <<e1>>, ![SignalQueue] = <<e1, e2>>, ![TimerList] = <<e2, e1, e3>>]
MCPlatforms == {Base, Rich}
MCHidings == {{}, {ProtocolDatabase}, {SignalQueue}}

-----------------------------------------------------------------------------
(* Up to two volumes of up to two files, some of them NULL or without a    *)
(* GUID, and lists of up to two PPIs with holes.                           *)
Named == [guid |-> "g1", base |-> 100, pdb |-> "pdb", ui |-> "ui"]
NoPdb == [guid |-> "g2", base |-> 200, pdb |-> None, ui |-> "ui"]
NoImage == [guid |-> "g3", base |-> 0, pdb |-> None, ui |-> None]
NoInfo == [guid |-> None, base |-> 300, pdb |-> "pdb", ui |-> None]
Volumes == UNION {[1..n -> {Named, NoPdb, NoImage, NoInfo, None}] : n \in 0..2}
Ppis == {None, [flags |-> "ppi", guid |-> "p", addr |-> 105, func |-> 0], [flags |-> "ppi", guid |-> "known", addr |-> 7, func |-> 205]}
Notify == [flags |-> "notify", guid |-> "n", addr |-> 105, func |-> 0]
ListsOf(S, m) == UNION {[1..n -> S] : n \in 0..m}
MCPeiPlatforms ==
  {[fvs |-> f, ppis |-> p, callbacks |-> c, dispatches |-> d] :
     f \in {<<v>> : v \in Volumes} \cup {<<v, <<Named>> >> : v \in Volumes}, p \in ListsOf(Ppis, 2), c \in {<<>>, <<None, Notify>>, <<Notify>>}, d \in {<<>>, <<None, [flags |-> "notify", guid |-> "d", addr |-> 1, func |-> 0]>>}}

-----------------------------------------------------------------------------
Some(S) == CHOOSE x \in S : TRUE
DxeRests == lists = Some(Platforms) /\ hidden = {} /\ Init
PeiRests == platform = Some(PeiPlatforms) /\ PeiInit

CoreInit ==
  \/ tool = "DXE" /\ PeiRests /\ Init
  \/ tool = "PEI" /\ DxeRests /\ PeiInit
DxeSteps == tool = "DXE" /\ Next /\ UNCHANGED <<tool, peiVars>>
PeiSteps == tool = "PEI" /\ PeiNext /\ UNCHANGED <<tool, vars>>
coreVars == <<tool, vars, peiVars>>
CoreSpec ==
  /\ CoreInit /\ [][DxeSteps \/ PeiSteps]_coreVars
  /\ WF_coreVars(tool = "DXE" /\ App /\ UNCHANGED <<tool, peiVars>>)
  /\ WF_coreVars(PeiSteps)

(* The dump of the DXE core ends, or stops on a freed entry or a NULL      *)
(* head, once handlers leave the lists alone; the three walks of the HOB   *)
(* end.                                                                    *)
CoreDumpsEnd ==
  /\ tool = "DXE" ~> pc \in {"done", "null", "freed"}
  /\ tool = "PEI" ~> ppc = "done"
=============================================================================

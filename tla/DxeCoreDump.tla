------------------------------ MODULE DxeCoreDump ------------------------------
(***************************************************************************)
(* DxeCoreDump on the live lists of the DXE core: it finds the head of a   *)
(* list as the entry without the signature, starting from an entry of its  *)
(* own, and then walks the list while it prints.  It runs at application   *)
(* level, so event handlers change the lists between any two of its steps. *)
(*                                                                         *)
(* A list is the sequence of its entries from the head's forward link on.  *)
(* An interface is a handle on the list of a protocol and a protocol on    *)
(* the list of a handle.                                                   *)
(***************************************************************************)
EXTENDS Integers, Sequences, FiniteSets, SequencesExt

CONSTANTS
  Handles, Protocols, Events,
  Platforms,          \* what is on the lists when the application starts
  ImageHandle,        \* the application's own handle
  Dummy,              \* DummyEvent
  MaxHandlers,        \* bound on the changes made by event handlers
  Hidings,            \* sets of lists whose head looks like an entry
  NULL

VARIABLES
  lists,              \* the lists of the DXE core
  back,               \* the back links that timers kept when they left their list
  hidden,             \* the lists whose head is preceded by the signature of an entry
  pc, list,           \* what the application does, and to which list
  origin, at,         \* the entry a search began at, and ListEntry
  inner,              \* the lists to walk inside of this round: [list, at]
  heads,              \* the lists whose head has been found
  printed, again,     \* what has been printed, <<list, entry>>, and what more than once
  due,                \* entries a walk has yet to print: on its list when it began, untouched, and not left behind
  moved,              \* the interfaces that were entered again, <<list, entry>>
  freed,              \* the interfaces, handles and events that were removed
  handlers            \* the number of changes made

vars == <<lists, back, hidden, pc, list, origin, at, inner, heads, printed, again, due, moved, freed, handlers>>

HandleList == <<"gHandleList", NULL>>
ProtocolDatabase == <<"mProtocolDatabase", NULL>>
SignalQueue == <<"gEventSignalQueue", NULL>>
TimerList == <<"mEfiTimerList", NULL>>
OnHandle(h) == <<"Handle->Protocols", h>>
ByProtocol(p) == <<"ProtocolEntry->Protocols", p>>
NotifyOf(p) == <<"ProtocolEntry->Notify", p>>
Lists == {HandleList, ProtocolDatabase, SignalQueue, TimerList} \cup {OnHandle(h) : h \in Handles} \cup {ByProtocol(p) : p \in Protocols} \cup {NotifyOf(p) : p \in Protocols}

-----------------------------------------------------------------------------
ListHead == "head"
In(l, x) == \E i \in 1..Len(lists[l]) : lists[l][i] = x
Position(l, x) == CHOOSE i \in 1..Len(lists[l]) : lists[l][i] = x

(* ForwardLink and BackLink of an entry or of the head.  A timer that was  *)
(* cancelled or has expired for good is out of the list: its forward link  *)
(* is NULL and its back link is the one it had.                            *)
ForwardLink(l, x) ==
  IF x = ListHead THEN IF lists[l] = <<>> THEN ListHead ELSE lists[l][1]
  ELSE IF ~In(l, x) THEN NULL
  ELSE IF Position(l, x) = Len(lists[l]) THEN ListHead ELSE lists[l][Position(l, x) + 1]
BackLink(l, x) ==
  IF x = ListHead THEN IF lists[l] = <<>> THEN ListHead ELSE lists[l][Len(lists[l])]
  ELSE IF ~In(l, x) THEN IF x \in Events THEN back[x] ELSE NULL
  ELSE IF Position(l, x) = 1 THEN ListHead ELSE lists[l][Position(l, x) - 1]

(* The link that the walk of a list follows.                               *)
LinkForward(l, x) == ForwardLink(l, x)
Link(l, x) == IF l \in {SignalQueue, TimerList} THEN BackLink(l, x) ELSE ForwardLink(l, x)

(* What a freed entry says of its neighbours is not known.                 *)
Readable(l, x) == x = ListHead \/ In(l, x) \/ (l = TimerList /\ x \in Events /\ <<x>> \notin freed)

(* BASE_CR (...)->Signature is that of an entry.                           *)
HasSignature(l, x) == x # ListHead \/ l \in hidden

Entries(l) == {<<l, lists[l][i]>> : i \in 1..Len(lists[l])}

(* The lists as the DXE core keeps them: of handles, protocols or events,  *)
(* none twice on one list, and an interface on both of its lists.          *)
EntriesOf(l) ==
  CASE l[1] \in {"gHandleList", "ProtocolEntry->Protocols"} -> Handles
    [] l[1] \in {"mProtocolDatabase", "Handle->Protocols"} -> Protocols
    [] OTHER -> Events
WellFormed(platform) ==
  /\ DOMAIN platform = Lists
  /\ \A l \in Lists : platform[l] \in Seq(EntriesOf(l)) /\ IsInjective(platform[l])
  /\ \A h \in Handles, p \in Protocols :
       (\E i \in 1..Len(platform[OnHandle(h)]) : platform[OnHandle(h)][i] = p)
         <=> (\E i \in 1..Len(platform[ByProtocol(p)]) : platform[ByProtocol(p)][i] = h)

ASSUME ListsAssumption ==
  /\ ImageHandle \in Handles
  /\ Handles \cap Events = {}
  /\ Dummy \notin Handles \cup Protocols \cup Events
  /\ {ListHead, NULL} \cap (Handles \cup Protocols \cup Events \cup {Dummy}) = {} /\ ListHead # NULL
  /\ \A platform \in Platforms : WellFormed(platform)

-----------------------------------------------------------------------------
Init ==
  /\ lists \in Platforms /\ back = [e \in Events |-> NULL] /\ hidden \in Hidings
  /\ pc = "images" /\ list = HandleList /\ origin = ImageHandle /\ at = ImageHandle
  /\ inner = <<>> /\ heads = {} /\ printed = {} /\ again = {} /\ due = {} /\ moved = {} /\ freed = {} /\ handlers = 0

Goto(where, l) == pc' = where /\ list' = l
Walk(l) == Goto("walk", l) /\ at' = ListHead /\ inner' = <<>> /\ due' = due \cup Entries(l)

(* The images are shown.  The dump ends at once when the DXE core's own is *)
(* not among them, or when the handles or the table cannot be had.         *)
GetLoadedImage ==
  /\ pc = "images" /\ (Goto("find", list) \/ Goto("done", list))
  /\ UNCHANGED <<lists, back, hidden, origin, at, inner, heads, printed, again, due, moved, freed, handlers>>

(* After the search for the head of a list.                                *)
AfterFind(found) ==
  /\ heads' = found
  /\ CASE list = HandleList -> Goto("firstProtocol", list) /\ UNCHANGED <<at, inner, due>>
       [] list = ProtocolDatabase ->
            IF HandleList \in found THEN Walk(HandleList) ELSE Goto("done", list) /\ UNCHANGED <<at, inner, due>>
       [] OTHER -> Goto("closeDummy", list) /\ UNCHANGED <<at, inner, due>>

(* GetDxeCoreHandleList, the second half of GetDxeCoreProtocolDatabase,    *)
(* GetDxeCoreEventSignalQueue and GetDxeCoreTimerList: one round.          *)
NeverBack(x) == FALSE
Back(x) == x = origin
Find ==
  /\ pc = "find" /\ Readable(list, at)
  /\ LET next == ForwardLink(list, at)
     IN  CASE Back(next) -> AfterFind(heads)
           [] ~Back(next) /\ ~HasSignature(list, next) -> AfterFind(heads \cup {list})
           [] OTHER -> at' = next /\ UNCHANGED <<pc, list, inner, heads, due>>
  /\ UNCHANGED <<lists, back, hidden, origin, printed, again, moved, freed, handlers>>

(* The first half of GetDxeCoreProtocolDatabase: the protocol of the first *)
(* interface on the first other handle.                                    *)
FirstProtocol ==
  /\ pc = "firstProtocol"
  /\ LET next == ForwardLink(HandleList, ImageHandle)
         other == IF next = ListHead THEN ForwardLink(HandleList, ListHead) ELSE next
     IN  IF other = ImageHandle
           THEN /\ IF HandleList \in heads THEN Walk(HandleList) ELSE Goto("done", list) /\ UNCHANGED <<at, inner, due>>
                /\ UNCHANGED origin
           ELSE /\ Goto("find", ProtocolDatabase)
                /\ origin' = lists[OnHandle(other)][1] /\ at' = lists[OnHandle(other)][1]
                /\ UNCHANGED <<inner, due>>
  /\ UNCHANGED <<lists, back, hidden, heads, printed, again, moved, freed, handlers>>

-----------------------------------------------------------------------------
Show(l, x) ==
  /\ printed' = printed \cup {<<l, x>>}
  /\ again' = IF <<l, x>> \in printed THEN again \cup {<<l, x>>} ELSE again
  /\ due' = due \ {<<l, x>>}

(* The lists printed below an entry: DumpProtocolInterfacesOnHandle;       *)
(* DumpProtocolInterfacesOnProtocolEntry and then                          *)
(* DumpProtocolNotifyOnProtocolEntry.                                      *)
InnerOf(l, x) ==
  CASE l = HandleList -> <<OnHandle(x)>>
    [] l = ProtocolDatabase -> <<ByProtocol(x), NotifyOf(x)>>
    [] OTHER -> <<>>

(* One round of DumpHandleList, DumpProtocolDatabase, DumpEventSignalQueue *)
(* or DumpEventTimerList.                                                  *)
DumpEntry ==
  /\ pc = "walk" /\ inner = <<>> /\ list \in heads /\ Readable(list, at)
  /\ Link(list, at) # ListHead /\ Readable(list, Link(list, at))
  /\ at' = Link(list, at)
  /\ Show(list, at')
  /\ LET below == InnerOf(list, at') IN inner' = [i \in 1..Len(below) |-> [list |-> below[i], at |-> NULL]]
  /\ UNCHANGED <<lists, back, hidden, pc, list, origin, heads, moved, freed, handlers>>
DumpEnd ==
  /\ pc = "walk" /\ inner = <<>> /\ list \in heads /\ Readable(list, at)
  /\ Link(list, at) = ListHead
  /\ CASE list = HandleList -> Walk(ProtocolDatabase)
       [] list = ProtocolDatabase -> Goto("createSignal", list) /\ UNCHANGED <<at, inner, due>>
       [] list = SignalQueue -> Goto("createTimer", list) /\ UNCHANGED <<at, inner, due>>
       [] list = TimerList -> Goto("done", list) /\ UNCHANGED <<at, inner, due>>
  /\ UNCHANGED <<lists, back, hidden, origin, heads, printed, again, moved, freed, handlers>>

(* A list below an entry: its loop begins, goes round and ends.            *)
DumpInnerBegin ==
  /\ pc = "walk" /\ inner # <<>> /\ inner[1].at = NULL
  /\ inner' = [inner EXCEPT ![1].at = ListHead]
  /\ due' = due \cup Entries(inner[1].list)
  /\ UNCHANGED <<lists, back, hidden, pc, list, origin, at, heads, printed, again, moved, freed, handlers>>
DumpInner ==
  /\ pc = "walk" /\ inner # <<>> /\ inner[1].at # NULL /\ Readable(inner[1].list, inner[1].at)
  /\ LET next == Link(inner[1].list, inner[1].at)
     IN  IF next = ListHead
           THEN inner' = Tail(inner) /\ UNCHANGED <<printed, again, due>>
           ELSE inner' = [inner EXCEPT ![1].at = next] /\ Show(inner[1].list, next)
  /\ UNCHANGED <<lists, back, hidden, pc, list, origin, at, heads, moved, freed, handlers>>

(* The head of the protocol database was not found, and is walked.         *)
DumpNull ==
  /\ pc = "walk" /\ list \notin heads
  /\ pc' = "null" /\ UNCHANGED <<lists, back, hidden, list, origin, at, inner, heads, printed, again, due, moved, freed, handlers>>

(* A link or a signature is read from an entry that was freed.             *)
ReadFreed ==
  /\ \/ pc = "find" /\ ~Readable(list, at)
     \/ pc = "walk" /\ inner = <<>> /\ list \in heads /\ ~(Readable(list, at) /\ Readable(list, Link(list, at)))
     \/ pc = "walk" /\ inner # <<>> /\ inner[1].at # NULL /\ ~Readable(inner[1].list, inner[1].at)
  /\ pc' = "freed" /\ UNCHANGED <<lists, back, hidden, list, origin, at, inner, heads, printed, again, due, moved, freed, handlers>>

-----------------------------------------------------------------------------
(* DxeCoreDumpEntrypoint: DummyEvent is made to find a list, and closed    *)
(* before the list is dumped.  A timer goes anywhere among the others.     *)
Inserted(s, k, x) == SubSeq(s, 1, k) \o <<x>> \o SubSeq(s, k + 1, Len(s))
CreateDummy(l, k) ==
  /\ \/ pc = "createSignal" /\ l = SignalQueue /\ k = 0
     \/ pc = "createTimer" /\ l = TimerList
  /\ lists' = [lists EXCEPT ![l] = Inserted(@, k, Dummy)]
  /\ Goto("find", l) /\ origin' = Dummy /\ at' = Dummy
  /\ UNCHANGED <<back, hidden, inner, heads, printed, again, due, moved, freed, handlers>>
CreateSignalFails ==
  /\ pc = "createSignal" /\ Goto("createTimer", list)
  /\ UNCHANGED <<lists, back, hidden, origin, at, inner, heads, printed, again, due, moved, freed, handlers>>
(* CreateEvent fails, or SetTimer: then the list is not found.             *)
CreateTimerFails ==
  /\ pc = "createTimer" /\ Goto("done", list)
  /\ UNCHANGED <<lists, back, hidden, origin, at, inner, heads, printed, again, due, moved, freed, handlers>>

ClosedDummy(s) == RemoveFirst(s, Dummy)
CloseDummy ==
  /\ pc = "closeDummy"
  /\ lists' = [lists EXCEPT ![list] = ClosedDummy(@)]
  /\ IF list \in heads
       THEN Goto("walk", list) /\ at' = ListHead /\ due' = due \cup (Entries(list) \ {<<list, Dummy>>})
       ELSE Goto("done", list) /\ UNCHANGED <<at, due>>
  /\ UNCHANGED <<back, hidden, origin, inner, heads, printed, again, moved, freed, handlers>>

App ==
  \/ GetLoadedImage \/ Find \/ FirstProtocol \/ DumpEntry \/ DumpEnd \/ DumpInnerBegin \/ DumpInner \/ DumpNull \/ ReadFreed
  \/ \E l \in {SignalQueue, TimerList}, k \in 0..Cardinality(Events) : k <= Len(lists[l]) /\ CreateDummy(l, k)
  \/ CreateSignalFails \/ CreateTimerFails \/ CloseDummy

-----------------------------------------------------------------------------
(* What the DXE core does for event handlers, which run at a higher TPL    *)
(* between two steps of the application.  The memory of a freed entry is  *)
(* not used for another one within the bound.                              *)
Handler == /\ pc # "done" /\ handlers < MaxHandlers /\ handlers' = handlers + 1
           /\ UNCHANGED <<hidden, pc, list, origin, at, inner, heads, printed, again>>
WithProtocol(p) == IF In(ProtocolDatabase, p) THEN lists[ProtocolDatabase] ELSE Append(lists[ProtocolDatabase], p)

InstallProtocolInterface(h, p) ==
  /\ Handler /\ ~In(OnHandle(h), p) /\ {<<h>>, <<h, p>>} \cap freed = {}
  /\ lists' = [lists EXCEPT ![HandleList] = IF In(HandleList, h) THEN @ ELSE Append(@, h),
                            ![OnHandle(h)] = <<p>> \o @,
                            ![ProtocolDatabase] = WithProtocol(p),
                            ![ByProtocol(p)] = Append(@, h)]
  /\ UNCHANGED <<back, freed, moved, due>>
RegisterProtocolNotify(p, e) ==
  /\ Handler /\ In(SignalQueue, e) /\ e # Dummy /\ ~In(NotifyOf(p), e)
  /\ lists' = [lists EXCEPT ![ProtocolDatabase] = WithProtocol(p), ![NotifyOf(p)] = Append(@, e)]
  /\ UNCHANGED <<back, freed, moved, due>>
CreateEvent(e) ==
  /\ Handler /\ ~In(SignalQueue, e) /\ ~In(TimerList, e) /\ back[e] = NULL /\ <<e>> \notin freed
  /\ lists' = [lists EXCEPT ![SignalQueue] = <<e>> \o @]
  /\ UNCHANGED <<back, freed, moved, due>>
(* SetTimer arms a timer, wherever it was before.  So does the tick for a  *)
(* periodic timer that expires.  A walk that stands on it, or comes back   *)
(* to it from timers that left the list, is now at its new place and will  *)
(* not see what lies behind: the one way to hide entries left alone.       *)
Trail ==
  {e \in Events : /\ at \in Events
                  /\ \A C \in SUBSET Events : at \in C /\ (\A x \in C : ~In(TimerList, x) /\ back[x] \in Events => back[x] \in C) => e \in C}
SetTimer(e, k) ==
  /\ Handler /\ <<e>> \notin freed
  /\ LET others == RemoveFirst(lists[TimerList], e)
         t == Inserted(others, k, e)
     IN  /\ k <= Len(others)
         /\ lists' = [lists EXCEPT ![TimerList] = t]
         /\ due' = due \ ({<<TimerList, e>>} \cup (IF e \in Trail THEN {<<TimerList, t[i]>> : i \in k + 1..Len(t)} ELSE {}))
  /\ UNCHANGED <<back, freed, moved>>
(* SetTimer with TimerCancel, or the first timer expires for good.         *)
(* DummyEvent does not: it is set to a second, its list is searched sooner.*)
CancelTimer(e) ==
  /\ Handler /\ In(TimerList, e)
  /\ lists' = [lists EXCEPT ![TimerList] = RemoveFirst(@, e)]
  /\ back' = [back EXCEPT ![e] = BackLink(TimerList, e)]
  /\ due' = due \ {<<TimerList, e>>}
  /\ UNCHANGED <<freed, moved>>
(* ReinstallProtocolInterface puts an interface last on the list of its    *)
(* protocol.  A walk that stands on it has left the others behind.         *)
StandsOn(l, x) == inner # <<>> /\ inner[1].list = l /\ inner[1].at = x
ReinstallProtocolInterface(h, p) ==
  /\ Handler /\ In(OnHandle(h), p)
  /\ lists' = [lists EXCEPT ![ByProtocol(p)] = Append(RemoveFirst(@, h), h)]
  /\ moved' = moved \cup {<<ByProtocol(p), h>>}
  /\ due' = {d \in due : d[1] = ByProtocol(p) => d[2] # h /\ ~StandsOn(ByProtocol(p), h)}
  /\ UNCHANGED <<back, freed>>
UninstallProtocolInterface(h, p) ==
  /\ Handler /\ h # ImageHandle /\ In(OnHandle(h), p)
  /\ lists' = [lists EXCEPT ![HandleList] = IF Len(lists[OnHandle(h)]) = 1 THEN RemoveFirst(@, h) ELSE @,
                            ![OnHandle(h)] = RemoveFirst(@, p),
                            ![ByProtocol(p)] = RemoveFirst(@, h)]
  /\ due' = due \ {<<HandleList, h>>, <<OnHandle(h), p>>, <<ByProtocol(p), h>>}
  /\ freed' = freed \cup {<<h, p>>} \cup (IF Len(lists[OnHandle(h)]) = 1 THEN {<<h>>} ELSE {})
  /\ UNCHANGED <<back, moved>>
CloseEvent(e) ==
  /\ Handler /\ <<e>> \notin freed /\ (In(SignalQueue, e) \/ In(TimerList, e) \/ back[e] # NULL)
  /\ lists' = [l \in Lists |-> IF l[1] \in {"gEventSignalQueue", "mEfiTimerList", "ProtocolEntry->Notify"} THEN RemoveFirst(lists[l], e) ELSE lists[l]]
  /\ due' = {d \in due : d[2] # e} /\ freed' = freed \cup {<<e>>}
  /\ UNCHANGED <<back, moved>>

Handlers ==
  \/ \E h \in Handles, p \in Protocols :
       InstallProtocolInterface(h, p) \/ UninstallProtocolInterface(h, p) \/ ReinstallProtocolInterface(h, p)
  \/ \E e \in Events, p \in Protocols : RegisterProtocolNotify(p, e)
  \/ \E e \in Events : CreateEvent(e) \/ CancelTimer(e) \/ CloseEvent(e)
  \/ \E e \in Events, k \in 0..Cardinality(Events) : SetTimer(e, k)

Next == App \/ Handlers

Spec == Init /\ [][Next]_vars

-----------------------------------------------------------------------------
(* Every entry that is in a list when its walk begins, and that no handler *)
(* touches, has been printed when the walk ends, whatever else handlers    *)
(* enter, remove, cancel or move meanwhile: unless the walk stops on a     *)
(* freed entry, or a handler moves the very entry it stands on (or goes    *)
(* back to) past it.                                                       *)
NothingMissed ==
  \A d \in due : (pc \in {"walk", "freed", "null"} /\ d[1] = list) \/ \E k \in 1..Len(inner) : inner[k].list = d[1]

(* Nothing is printed twice, but for timers, of which one that is armed    *)
(* again may take the walk back, and for interfaces installed again.       *)
ShownOnce == \A d \in again : d[1] = TimerList \/ d \in moved

(* The application's own DummyEvent is in no dump.                         *)
DummyUnlisted == \A d \in printed : d[2] # Dummy

(* Handlers that run between two entries hide no untouched entry unless    *)
(* they move the one the walk stands on, repeat none that cannot move, and *)
(* the application does not show itself.                                   *)
ListsShown == NothingMissed /\ ShownOnce /\ DummyUnlisted
=============================================================================

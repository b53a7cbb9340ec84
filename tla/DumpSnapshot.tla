---------------------------- MODULE DumpSnapshot ----------------------------
(***************************************************************************)
(* What a dump application expects of the agent that built a database in   *)
(* memory it cannot read: the database does not change while it is being   *)
(* fetched, and the application ends up with all of it or with none of it. *)
(***************************************************************************)
CONSTANT Nothing     \* the copy before, or without, a delivery

VARIABLES
  source,   \* the agent's database
  status,   \* "pending", "delivered", "refused" or "stopped"
  copy      \* the application's copy

vars == <<source, status, copy>>

Init == status = "pending" /\ copy = Nothing

Deliver ==
  /\ status = "pending"
  /\ status' = "delivered"
  /\ copy' = source
  /\ UNCHANGED source

(* The agent or the platform says no; the application prints and returns. *)
Refuse ==
  /\ status = "pending"
  /\ status' = "refused"
  /\ UNCHANGED <<source, copy>>

(* The application does not come back: a failed ASSERT. *)
Stop ==
  /\ status = "pending"
  /\ status' = "stopped"
  /\ UNCHANGED <<source, copy>>

Next == Deliver \/ Refuse \/ Stop

Spec == Init /\ [][Next]_vars
=============================================================================

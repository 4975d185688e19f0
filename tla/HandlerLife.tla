----------------------------- MODULE HandlerLife -----------------------------
(***************************************************************************)
(* What the handler cache promises about the life of one file handler, seen *)
(* by the threads that use it.                                             *)
(*                                                                         *)
(* A handler is constructed, handed to the cache, leased to any number of  *)
(* users at a time, retired once nobody leases it, and then deleted. It is *)
(* never deleted under a user, a retired handler is never leased again, and *)
(* a handler that is retired, or constructed and not wanted, does go away. *)
(***************************************************************************)
EXTENDS Naturals

VARIABLES
  status,   \* none: does not exist; created; cached; retired
  leases    \* how many users hold the handler

life_vars == <<status, leases>>

TypeOK == /\ status \in {"none", "created", "cached", "retired"}
          /\ leases \in Nat

Init == status = "none" /\ leases = 0

Create  == status = "none" /\ status' = "created" /\ UNCHANGED leases
Discard == status = "created" /\ status' = "none" /\ UNCHANGED leases

\* The cache hands a handler back, pinned, in the step that files it.
Insert == status = "created" /\ status' = "cached" /\ leases' = 1
Lease  == status = "cached" /\ leases' = leases + 1 /\ UNCHANGED status
Return ==
  /\ status = "cached"
  /\ leases > 0
  /\ leases' = leases - 1
  /\ status' \in IF leases = 1 THEN {"cached", "retired"} ELSE {"cached"}

Retire == status = "cached" /\ leases = 0 /\ status' = "retired" /\ UNCHANGED leases
Delete == status = "retired" /\ status' = "none" /\ UNCHANGED leases

Next ==
  Create \/ Discard \/ Insert \/ Lease \/ Return \/ Retire \/ Delete

Spec ==
  /\ Init /\ [][Next]_life_vars
  /\ WF_life_vars(Insert \/ Discard)
  /\ WF_life_vars(Delete)
=============================================================================

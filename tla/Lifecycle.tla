------------------------------ MODULE Lifecycle ------------------------------
(***************************************************************************)
(* What a user of mcv4fwdd may expect of it, without interfaces, rules or  *)
(* system calls.  A process waits until it can forward, and then forwards: *)
(* it never goes back to waiting.  It stops only when it is told to; if it *)
(* fails, a new process takes its place.  The test of a configuration is a *)
(* process that never forwards, that stops by itself, and that nobody      *)
(* replaces.                                                               *)
(*                                                                         *)
(* Application.tla is shown to implement this specification.               *)
(***************************************************************************)
VARIABLES
  phase,   \* "waiting", "forwarding", "stopped" or "failed"
  testing, \* the process tests a configuration
  told     \* it was told to stop

lifecycleVars == <<phase, testing, told>>

Alive == phase \in {"waiting", "forwarding"}

Init ==
  /\ phase = "waiting"
  /\ testing \in BOOLEAN
  /\ told = FALSE

Forward ==
  /\ phase = "waiting"
  /\ ~testing
  /\ phase' = "forwarding"
  /\ UNCHANGED <<testing, told>>

Tell ==
  /\ Alive
  /\ ~testing
  /\ told' = TRUE
  /\ UNCHANGED <<phase, testing>>

Stop ==
  /\ Alive
  /\ told \/ testing
  /\ phase' = "stopped"
  /\ UNCHANGED <<testing, told>>

Fail ==
  /\ Alive
  /\ phase' = "failed"
  /\ UNCHANGED <<testing, told>>

Replace ==
  /\ phase = "failed"
  /\ ~testing
  /\ phase' = "waiting"
  /\ told' = FALSE
  /\ UNCHANGED testing

Next == Forward \/ Tell \/ Stop \/ Fail \/ Replace

Spec == Init /\ [][Next]_lifecycleVars
=============================================================================

------------------------------- MODULE Service -------------------------------
(***************************************************************************)
(* What whoever invokes mcv4fwdd several times may expect, without forks,  *)
(* system calls or locks.  Each invocation starts, serves at most once,    *)
(* and is then over; or it is over without having served.  While one       *)
(* serves, none serves that would leave its PID in the same file.          *)
(*                                                                         *)
(* Daemon.tla is shown to implement this specification.                    *)
(***************************************************************************)
CONSTANTS Invocations, PidFiles

VARIABLES
  phase, \* "starting", "serving" or "over", of each invocation
  files  \* the PID files that it holds while it serves: none in the foreground

serviceVars == <<phase, files>>

Init ==
  /\ phase = [i \in Invocations |-> "starting"]
  /\ files \in [Invocations -> SUBSET PidFiles]

Serve(i) ==
  /\ phase[i] = "starting"
  /\ \A j \in Invocations : phase[j] = "serving" => files[i] \cap files[j] = {}
  /\ phase' = [phase EXCEPT ![i] = "serving"]
  /\ UNCHANGED files

Finish(i) ==
  /\ phase[i] # "over"
  /\ phase' = [phase EXCEPT ![i] = "over"]
  /\ UNCHANGED files

Next == \E i \in Invocations : Serve(i) \/ Finish(i)

Spec == Init /\ [][Next]_serviceVars
=============================================================================

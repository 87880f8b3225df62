------------------------------ MODULE MCDaemon ------------------------------
(***************************************************************************)
(* Some invocations of the program, for TLC.                               *)
(***************************************************************************)
EXTENDS Daemon

CONSTANTS first, second, third, usual, other, relative

MCInvocations == {first, second, third}
MCPidFiles == {usual, other, relative}
MCRelativeNames == {relative}

\* Daemons that end up with the same PID file, one in the foreground, a test, and a line
\* that is refused.
MCCommandLines ==
  {<< >>, <<other, usual>>, <<"-c", "-f">>, <<"-n">>, <<relative>>}

\* Help, on its own and after another option.
HelpLines == {<<"-h">>, <<"-f", "-h">>}
=============================================================================

------------------------------- MODULE Daemon -------------------------------
(***************************************************************************)
(* The program around the Application (mcv4fwdd.cc, commandline.cc): the   *)
(* command line, the test of a configuration, the double fork that makes a *)
(* daemon, and the PID file that it leaves open and locked.  The program   *)
(* may be invoked several times, and all processes share the files.        *)
(*                                                                         *)
(* An invocation has up to three processes: 1, which was invoked, 2, which *)
(* it forks, and 3, which that forks.  A process is at the system call or  *)
(* the function that it will perform next.                                 *)
(***************************************************************************)
EXTENDS Naturals, Sequences, SequencesExt

CONSTANTS
  Invocations,    \* the times that the program is invoked
  CommandLines,   \* their arguments
  PidFiles,       \* names of PID files; as an argument, "-p" with that name
  RelativeNames,  \* those that are relative
  DefaultPidFile, \* PID_FILE
  Nobody,         \* no process
  Debug           \* assertions are enabled

Arguments == {"-c", "-f", "-h", "-n", "unknown option", "operand"} \cup PidFiles

ASSUME DaemonAssumption ==
  /\ CommandLines \subseteq Seq(Arguments)
  /\ RelativeNames \subseteq PidFiles
  /\ DefaultPidFile \in PidFiles \ RelativeNames
  /\ Nobody \notin Invocations \X (1..3)
  /\ Debug \in BOOLEAN

Processes == Invocations \X (1..3)

VARIABLES
  arguments, \* argv of each invocation
  at,        \* where each process is
  status,    \* how each process ended
  session,   \* the leader of each process's session
  pidFile,   \* the PID that each PID file holds: its first line
  lock       \* who holds the lock on it

daemonVars == <<arguments, at, status, session, pidFile, lock>>

Places == {"none", "main", "setsid", "redirect", "open", "lock", "write", "run", "ended"}

\* Application::test prints "Test succeeded." for a status of 0.
Statuses == {"none", "0", "1", "aborted"}

DaemonInit ==
  /\ arguments \in [Invocations -> CommandLines]
  /\ at = [p \in Processes |-> IF p[2] = 1 THEN "main" ELSE "none"]
  /\ status = [p \in Processes |-> "none"]
  /\ session = [p \in Processes |-> Nobody]
  /\ pidFile = [f \in PidFiles |-> Nobody]
  /\ lock = [f \in PidFiles |-> Nobody]

(***************************************************************************)
(* The command line.                                                       *)
(***************************************************************************)

\* doParse returns at once at these options.
Stops(argument) == argument \in {"-h", "unknown option"} \cup RelativeNames

\* The index of the option at which doParse returns; 0 if there is none.
StoppedAt(i) == SelectInSeq(arguments[i], Stops)

\* The options that doParse looks at and takes.
Taken(i) ==
  IF StoppedAt(i) = 0 THEN arguments[i] ELSE SubSeq(arguments[i], 1, StoppedAt(i) - 1)

Given(i, argument) == \E k \in DOMAIN Taken(i) : Taken(i)[k] = argument

\* The help is printed for -h, with result 0; getopt leaves operands for the end.
ParseResult(i) ==
  IF \/ StoppedAt(i) # 0 /\ arguments[i][StoppedAt(i)] # "-h"
     \/ StoppedAt(i) = 0 /\ Given(i, "operand")
  THEN "1"
  ELSE "0"

IsPidFile(argument) == argument \in PidFiles

\* The last -p counts.
PidFileOf(i) ==
  LET k == SelectLastInSeq(Taken(i), IsPidFile)
  IN  IF k = 0 THEN DefaultPidFile ELSE Taken(i)[k]

(***************************************************************************)
(* Processes.                                                              *)
(***************************************************************************)

\* A process ends, and with it its lock.
End(p, how) ==
  /\ at' = [at EXCEPT ![p] = "ended"]
  /\ status' = [status EXCEPT ![p] = how]
  /\ lock' = [f \in PidFiles |-> IF lock[f] = p THEN Nobody ELSE lock[f]]

Goto(p, place) ==
  /\ at' = [at EXCEPT ![p] = place]
  /\ UNCHANGED <<status, lock>>

Child(p) == <<p[1], p[2] + 1>>

\* Mutant of Fork: the parent goes on, to run the application itself.
ForkAndRun(p, place) ==
  at' = [at EXCEPT ![p] = "run", ![Child(p)] = place] /\ UNCHANGED <<status, lock>>

\* fork succeeds: the parent exits with status 0.
Fork(p, place) ==
  /\ at' = [at EXCEPT ![p] = "ended", ![Child(p)] = place]
  /\ status' = [status EXCEPT ![p] = "0"]
  /\ UNCHANGED lock

\* main: the command line is refused, no configuration could be loaded, the test of
\* one throws, or the primary fork fails.
MainFails(i) ==
  /\ at[<<i, 1>>] = "main"
  /\ End(<<i, 1>>, "1")
  /\ UNCHANGED <<arguments, session, pidFile>>

\* The parser crashes on a configuration (see module Parser).
MainCrashes(i) ==
  /\ at[<<i, 1>>] = "main"
  /\ ParseResult(i) = "0"
  /\ End(<<i, 1>>, "aborted")
  /\ UNCHANGED <<arguments, session, pidFile>>

\* main -n: if some interface is down, Application::test looks no further, and
\* succeeds; otherwise it fails if an interface of a rule has no address.
MainTests(i) ==
  /\ at[<<i, 1>>] = "main"
  /\ ParseResult(i) = "0"
  /\ Given(i, "-n")
  /\ \E allUp, allHaveAddresses \in BOOLEAN :
       End(<<i, 1>>, IF allUp /\ ~allHaveAddresses THEN "1" ELSE "0")
  /\ UNCHANGED <<arguments, session, pidFile>>

\* main -f: run the application in this process.
MainRuns(i) ==
  /\ at[<<i, 1>>] = "main"
  /\ ParseResult(i) = "0"
  /\ ~Given(i, "-n")
  /\ Given(i, "-f")
  /\ Goto(<<i, 1>>, "run")
  /\ UNCHANGED <<arguments, session, pidFile>>

\* main: daemonize, with the primary fork.
MainForks(i) ==
  /\ at[<<i, 1>>] = "main"
  /\ ParseResult(i) = "0"
  /\ ~Given(i, "-n")
  /\ ~Given(i, "-f")
  /\ Fork(<<i, 1>>, "setsid")
  /\ UNCHANGED <<arguments, session, pidFile>>

\* Mutant of NewSession: the session stays that of the invocation.
NoSession(i) == UNCHANGED session

\* setsid: the process leads a session, which its child will be in.
NewSession(i) ==
  session' = [session EXCEPT ![<<i, 2>>] = <<i, 2>>, ![<<i, 3>>] = <<i, 2>>]

\* Process 2: setsid, chdir, umask, and the secondary fork.
SecondForks(i) ==
  /\ at[<<i, 2>>] = "setsid"
  /\ NewSession(i)
  /\ Fork(<<i, 2>>, "redirect")
  /\ UNCHANGED <<arguments, pidFile>>

\* Mutant of DaemonizeFails: the failure is logged, and 0 is returned.
DaemonizeFailsQuietly(p) ==
  /\ at[p] \in {"setsid", "redirect"}
  /\ End(p, "0")
  /\ UNCHANGED <<arguments, session, pidFile>>

\* A system call of process 2 or 3 fails, before the PID file.
DaemonizeFails(p) ==
  /\ at[p] \in {"setsid", "redirect"}
  /\ End(p, "1")
  /\ UNCHANGED <<arguments, session, pidFile>>

\* Process 3: standard input and output become /dev/null.
Redirect(i) ==
  /\ at[<<i, 3>>] = "redirect"
  /\ Goto(<<i, 3>>, "open")
  /\ UNCHANGED <<arguments, session, pidFile>>

\* open(O_CREAT | O_TRUNC | O_WRONLY): whoever holds the lock, the file is emptied.
OpenPidFile(i) ==
  /\ at[<<i, 3>>] = "open"
  /\ pidFile' = [pidFile EXCEPT ![PidFileOf(i)] = Nobody]
  /\ Goto(<<i, 3>>, "lock")
  /\ UNCHANGED <<arguments, session>>

\* Mutant of MayLock: the result of lockf is not looked at.
AlwaysLocks(i) == TRUE

\* lockf succeeds if no other process holds the lock.
MayLock(i) == lock[PidFileOf(i)] \in {Nobody, <<i, 3>>}

LockPidFile(i) ==
  /\ at[<<i, 3>>] = "lock"
  /\ MayLock(i)
  /\ at' = [at EXCEPT ![<<i, 3>>] = "write"]
  /\ lock' = [lock EXCEPT ![PidFileOf(i)] = <<i, 3>>]
  /\ UNCHANGED <<arguments, status, session, pidFile>>

\* Mutant of IsLocked: F_LOCK, which waits for the lock, in place of F_TLOCK.
NeverRefused(i) == FALSE

\* lockf fails at once while another process holds the lock.
IsLocked(i) == ~MayLock(i)

\* The errors that follow a failed open, lockf or write: an assertion, or status 1.
PidFileFails(i) ==
  /\ \/ at[<<i, 3>>] \in {"open", "write"}
     \/ at[<<i, 3>>] = "lock" /\ IsLocked(i)
  /\ End(<<i, 3>>, IF Debug THEN "aborted" ELSE "1")
  /\ UNCHANGED <<arguments, session, pidFile>>

\* lockf fails for another reason (ENOLCK, EIO), also when nobody holds the lock.
LockFaults(i) ==
  /\ at[<<i, 3>>] = "lock"
  /\ End(<<i, 3>>, IF Debug THEN "aborted" ELSE "1")
  /\ UNCHANGED <<arguments, session, pidFile>>

\* The PID is written; the file stays open, and locked.
WritePidFile(i) ==
  /\ at[<<i, 3>>] = "write"
  /\ pidFile' = [pidFile EXCEPT ![PidFileOf(i)] = <<i, 3>>]
  /\ Goto(<<i, 3>>, "run")
  /\ UNCHANGED <<arguments, session>>

\* Application::run returns or throws (see module Application).
RunEnds(p) ==
  /\ at[p] = "run"
  /\ \E how \in {"0", "1", "aborted"} : End(p, how)
  /\ UNCHANGED <<arguments, session, pidFile>>

StartUp(i) ==
  \/ MainFails(i)
  \/ MainCrashes(i)
  \/ MainTests(i)
  \/ MainRuns(i)
  \/ MainForks(i)
  \/ SecondForks(i)
  \/ \E g \in 2..3 : DaemonizeFails(<<i, g>>)
  \/ Redirect(i)
  \/ OpenPidFile(i)
  \/ LockPidFile(i)
  \/ PidFileFails(i)
  \/ WritePidFile(i)

DaemonNext ==
  \/ \E i \in Invocations : StartUp(i) \/ LockFaults(i)
  \/ \E p \in Processes : RunEnds(p)

\* The system runs every process; the application may run for ever, and no fault of
\* lockf is ever due.
DaemonFairness == \A i \in Invocations : WF_daemonVars(StartUp(i))

DaemonSpec == DaemonInit /\ [][DaemonNext]_daemonVars /\ DaemonFairness

(***************************************************************************)
(* Properties.                                                             *)
(***************************************************************************)

\* Type correctness of the processes and files.
DaemonTypeOK ==
  /\ arguments \in [Invocations -> CommandLines]
  /\ at \in [Processes -> Places]
  /\ status \in [Processes -> Statuses]
  /\ session \in [Processes -> Processes \cup {Nobody}]
  /\ pidFile \in [PidFiles -> Processes \cup {Nobody}]
  /\ lock \in [PidFiles -> Processes \cup {Nobody}]

\* The process is a daemon, and runs the application.
RunsAsDaemon(p) == at[p] = "run" /\ p[2] = 3

\* Two daemons with one PID file never run at the same time, however their starts
\* interleave and whoever dies meanwhile (mcv4fwdd.cc:110-142).
OneDaemonPerPidFile ==
  \A i, j \in Invocations :
    RunsAsDaemon(<<i, 3>>) /\ RunsAsDaemon(<<j, 3>>) /\ PidFileOf(i) = PidFileOf(j) => i = j

\* While a daemon runs, its PID file holds its own PID or nothing; never that of a
\* process that has ended, or that never ran (mcv4fwdd.cc:110-134).
PidFileNeverLies ==
  \A i \in Invocations :
    RunsAsDaemon(<<i, 3>>) => pidFile[PidFileOf(i)] \in {Nobody, <<i, 3>>}

\* At most one process of an invocation runs the application: every other process
\* of daemonize leaves with its exit flag set (mcv4fwdd.cc:47, 144, 195).
OneRunner ==
  \A p, q \in Processes : at[p] = "run" /\ at[q] = "run" /\ p[1] = q[1] => p = q

\* A daemon has left the session of its invoker, and does not lead its new one, so
\* that it can never get a controlling terminal (mcv4fwdd.cc:63-87).
Detached == \A p \in Processes : RunsAsDaemon(p) => session[p] \notin {p, Nobody}

\* The start of an invocation comes to an end: no process is left behind waiting,
\* for the lock or for another process (mcv4fwdd.cc:117: F_TLOCK, not F_LOCK).
StartUpEnds == \A p \in Processes : <>[](at[p] \in {"none", "run", "ended"})

\* The launching process exits before anything is known of the daemon, so that its
\* status 0 means little (mcv4fwdd.cc:54); but a process exits with status 0 only if
\* the application ran in it, or a test, or a process that it forked goes on: the
\* chain of zeros never ends in a daemon that failed.
ZeroIsEarned ==
  [][\A p \in Processes : status[p] # "0" /\ status'[p] = "0" =>
       \/ at[p] = "run"
       \/ p[2] = 1 /\ Given(p[1], "-n")
       \/ p[2] < 3 /\ at'[Child(p)] \notin {"none", "ended"}]_daemonVars

\* An invocation is what Service says, though it is three processes: it serves when
\* one of them runs the application, and is over when none is left; a fork hands its
\* start on, and only who may lock the PID file comes to serve (mcv4fwdd.cc:45-146).
PhaseOf(i) ==
  CASE \E g \in 1..3 : at[<<i, g>>] = "run" -> "serving"
    [] \A g \in 1..3 : at[<<i, g>>] \in {"none", "ended"} -> "over"
    [] OTHER -> "starting"
FilesOf(i) == IF Given(i, "-f") THEN {} ELSE {PidFileOf(i)}
Served ==
  INSTANCE Service WITH phase <- [i \in Invocations |-> PhaseOf(i)],
                        files <- [i \in Invocations |-> FilesOf(i)]
ImplementsService == Served!Spec

(***************************************************************************)
(* What the help says, and the code does not.                              *)
(***************************************************************************)

\* "-h  Print this help message" (commandline.cc:108), which the usage lists as a use
\* of its own (commandline.cc:104): with -h nothing else is done.
HelpOnly ==
  \A p \in Processes :
    at[p] = "run" => \A k \in DOMAIN arguments[p[1]] : arguments[p[1]][k] # "-h"
=============================================================================

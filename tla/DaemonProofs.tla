---------------------------- MODULE DaemonProofs ----------------------------
(***************************************************************************)
(* Proofs about Daemon, for any number of invocations, any arguments and   *)
(* any PID files.                                                          *)
(***************************************************************************)
EXTENDS Daemon, WellFoundedInduction, TLAPS

(***************************************************************************)
(* The command line.                                                       *)
(***************************************************************************)

\* A set of indices that is not empty has a maximum, which Max gives.
LEMMA MaxIsMember ==
  ASSUME NEW n \in Nat, NEW S \in SUBSET (1..n), S # {}
  PROVE  Max(S) \in S
<1> DEFINE T == {n - k : k \in S}
<1>1. T \subseteq Nat /\ T # {}
  <2>1. PICK k \in S : TRUE
    OBVIOUS
  <2>2. n - k \in T
    OBVIOUS
  <2>3. \A j \in 1..n : n - j \in Nat
    OBVIOUS
  <2> QED BY <2>2, <2>3
<1> DEFINE R == OpToRel(<, Nat)
<1>2. IsWellFoundedOn(R, Nat)
  BY NatLessThanWellFounded, Zenon
<1>3. \A x, y \in Nat : y < x => <<y, x>> \in R
  BY DEF OpToRel
<1> HIDE DEF R
<1>4. PICK x \in T : \A y \in T : ~ (<<y, x>> \in R)
  <2> HIDE DEF T
  <2> QED BY <1>1, <1>2, WFMin, Zenon
<1>5. \A y \in T : x <= y
  <2> HIDE DEF T
  <2>1. \A y \in T : ~ (y < x)
    BY <1>1, <1>3, <1>4, Zenon
  <2> QED BY <1>1, <2>1
<1>6. PICK m \in S : x = n - m
  OBVIOUS
<1>7. \A k \in S : m >= k
  BY <1>5, <1>6
<1> QED BY <1>7 DEF Max

\* A set of indices that is not empty has a minimum, which Min gives.
LEMMA MinIsMember ==
  ASSUME NEW n \in Nat, NEW S \in SUBSET (1..n), S # {}
  PROVE  Min(S) \in S
<1> DEFINE R == OpToRel(<, Nat)
<1>1. IsWellFoundedOn(R, Nat)
  BY NatLessThanWellFounded, Zenon
<1>2. \A x, y \in Nat : y < x => <<y, x>> \in R
  BY DEF OpToRel
<1> HIDE DEF R
<1>3. S \subseteq Nat
  OBVIOUS
<1>4. PICK x \in S : \A y \in S : ~ (<<y, x>> \in R)
  BY <1>1, <1>3, WFMin, Zenon
<1>5. \A y \in S : ~ (y < x)
  BY <1>2, <1>3, <1>4, Zenon
<1>6. \A y \in S : x =< y
  BY <1>3, <1>5
<1> QED BY <1>6 DEF Min

\* What doParse takes of the arguments are arguments.
LEMMA TakenType ==
  ASSUME NEW i \in Invocations, arguments[i] \in Seq(Arguments)
  PROVE  Taken(i) \in Seq(Arguments)
<1>1. CASE StoppedAt(i) = 0
  BY <1>1 DEF Taken
<1>2. CASE StoppedAt(i) # 0
  <2> DEFINE n == Len(arguments[i])
             I == {k \in 1..n : Stops(arguments[i][k])}
  <2>1. n \in Nat /\ I \in SUBSET (1..n)
    OBVIOUS
  <2>2. StoppedAt(i) = IF I # {} THEN Min(I) ELSE 0
    BY DEF StoppedAt, SelectInSeq
  <2>3. I # {} /\ StoppedAt(i) = Min(I)
    BY <1>2, <2>2
  <2>4. StoppedAt(i) \in 1..n
    BY <2>1, <2>3, MinIsMember
  <2> QED BY <1>2, <2>4 DEF Taken
<1> QED BY <1>1, <1>2

\* The PID file is one of those named, or the default.
LEMMA PidFileOfType ==
  ASSUME NEW i \in Invocations, arguments[i] \in Seq(Arguments)
  PROVE  PidFileOf(i) \in PidFiles
<1> DEFINE n == Len(Taken(i))
           I == {k \in 1..n : IsPidFile(Taken(i)[k])}
           last == SelectLastInSeq(Taken(i), IsPidFile)
<1>1. n \in Nat /\ I \in SUBSET (1..n)
  BY TakenType
<1>2. last = IF I # {} THEN Max(I) ELSE 0
  BY DEF SelectLastInSeq
<1>3. PidFileOf(i) = IF last = 0 THEN DefaultPidFile ELSE Taken(i)[last]
  BY DEF PidFileOf
<1> HIDE DEF last
<1>4. CASE I = {}
  BY <1>2, <1>3, <1>4, DaemonAssumption DEF DaemonAssumption
<1>5. CASE I # {}
  <2>1. last \in I
    BY <1>1, <1>2, <1>5, MaxIsMember
  <2>2. IsPidFile(Taken(i)[last]) /\ last \in 1..n
    BY <2>1
  <2>3. last # 0
    BY <1>1, <2>2
  <2> QED BY <1>3, <2>2, <2>3 DEF IsPidFile
<1> QED BY <1>4, <1>5

\* The PID file depends on the arguments alone.
LEMMA PidFileOfStable ==
  ASSUME NEW i \in Invocations, arguments' = arguments
  PROVE  PidFileOf(i)' = PidFileOf(i)
BY DEF PidFileOf, Taken, StoppedAt, SelectLastInSeq, SelectInSeq, IsPidFile, Stops

(***************************************************************************)
(* The inductive invariant.                                                *)
(***************************************************************************)

\* Where each process of an invocation may be; a process exists only when the one
\* that forked it has ended, and the third is in the session that the second leads.
InSuccession(i) ==
  /\ at[<<i, 1>>] \in {"main", "run", "ended"}
  /\ at[<<i, 2>>] \in {"none", "setsid", "ended"}
  /\ at[<<i, 3>>] \in {"none", "redirect", "open", "lock", "write", "run", "ended"}
  /\ at[<<i, 2>>] # "none" => at[<<i, 1>>] = "ended"
  /\ at[<<i, 3>>] # "none" => at[<<i, 2>>] = "ended" /\ session[<<i, 3>>] = <<i, 2>>

Succession == \A i \in Invocations : InSuccession(i)

\* A process that writes the PID file, or has, holds the lock on it.
HoldsLock ==
  \A i \in Invocations :
    at[<<i, 3>>] \in {"write", "run"} => lock[PidFileOf(i)] = <<i, 3>>

DaemonInv == DaemonTypeOK /\ Succession /\ HoldsLock /\ PidFileNeverLies

LEMMA DaemonInvInit == DaemonInit => DaemonInv
<1> SUFFICES ASSUME DaemonInit PROVE DaemonInv
  OBVIOUS
<1>1. DaemonTypeOK
  BY DEF DaemonInit, DaemonTypeOK, Processes, Places, Statuses
<1>2. Succession /\ HoldsLock /\ PidFileNeverLies
  BY DEF DaemonInit, Processes, Succession, InSuccession, HoldsLock, PidFileNeverLies, RunsAsDaemon
<1> QED BY <1>1, <1>2 DEF DaemonInv

\* Every PID file that is used is one of those declared.
LEMMA PidFilesDeclared ==
  ASSUME DaemonTypeOK PROVE \A i \in Invocations : PidFileOf(i) \in PidFiles
BY PidFileOfType, DaemonAssumption DEF DaemonAssumption, DaemonTypeOK

\* Steps that keep what the invariant says of the lock and of the PID files.
LEMMA FilesKept ==
  ASSUME DaemonInv, UNCHANGED <<arguments, pidFile>>,
         \A i \in Invocations :
           /\ at'[<<i, 3>>] \in {"write", "run"} => at[<<i, 3>>] \in {"write", "run"}
           /\ at'[<<i, 3>>] = "run" => at[<<i, 3>>] = "run"
           /\ lock[PidFileOf(i)] = <<i, 3>> /\ at'[<<i, 3>>] \in {"write", "run"}
                => lock'[PidFileOf(i)] = <<i, 3>>
  PROVE  HoldsLock' /\ PidFileNeverLies'
<1>1. \A i \in Invocations : PidFileOf(i)' = PidFileOf(i)
  BY PidFileOfStable
<1>. QED  BY <1>1 DEF DaemonInv, HoldsLock, PidFileNeverLies, RunsAsDaemon

\* A process that ends gives up its own lock only.
LEMMA EndKeepsInv ==
  ASSUME DaemonInv, NEW p \in Processes, at[p] # "none", NEW how \in Statuses, End(p, how),
         UNCHANGED <<arguments, session, pidFile>>
  PROVE  DaemonInv'
<1>. USE DEF DaemonInv
<1>1. /\ at \in [Processes -> Places]
      /\ at' = [at EXCEPT ![p] = "ended"]
      /\ \A i \in Invocations : <<i, 1>> \in Processes /\ <<i, 2>> \in Processes /\ <<i, 3>> \in Processes
  BY DEF DaemonTypeOK, End, Processes
<1>2. DaemonTypeOK'
  BY DEF DaemonTypeOK, Places, End
<1>3. ASSUME NEW i \in Invocations PROVE InSuccession(i)'
  <2>1. InSuccession(i)
    BY DEF Succession
  <2>. QED  BY <1>1, <2>1 DEF InSuccession
<1>4. HoldsLock' /\ PidFileNeverLies'
  <2>1. \A i \in Invocations : at'[<<i, 3>>] \in {"write", "run"} => <<i, 3>> # p /\ at'[<<i, 3>>] = at[<<i, 3>>]
    BY <1>1
  <2>2. \A i \in Invocations : PidFileOf(i) \in PidFiles
    BY PidFilesDeclared
  <2>3. \A f \in PidFiles : lock'[f] = IF lock[f] = p THEN Nobody ELSE lock[f]
    BY DEF End
  <2>. QED  BY <2>1, <2>2, <2>3, FilesKept
<1>. QED  BY <1>2, <1>3, <1>4 DEF Succession

\* A step of main or daemonize before the PID file, which a fork may end.
LEMMA EarlyStepKeepsInv ==
  ASSUME DaemonInv, NEW i \in Invocations,
         MainRuns(i) \/ MainForks(i) \/ SecondForks(i) \/ Redirect(i)
  PROVE  DaemonInv'
<1>. USE DEF DaemonInv
<1>1. /\ at \in [Processes -> Places] /\ session \in [Processes -> Processes \cup {Nobody}]
      /\ \A j \in Invocations : <<j, 1>> \in Processes /\ <<j, 2>> \in Processes /\ <<j, 3>> \in Processes
  BY DEF DaemonTypeOK, Processes
<1>. USE DEF MainRuns, MainForks, SecondForks, Redirect, Goto, Fork, Child
<1>2. DaemonTypeOK'
  <2>1. CASE MainRuns(i) \/ Redirect(i)
    BY <1>1, <2>1 DEF DaemonTypeOK, Places
  <2>2. CASE MainForks(i)
    BY <1>1, <2>2 DEF DaemonTypeOK, Places, Statuses
  <2>3. CASE SecondForks(i)
    BY <1>1, <2>3 DEF DaemonTypeOK, Places, Statuses, NewSession
  <2>. QED  BY <2>1, <2>2, <2>3
<1>3. ASSUME NEW j \in Invocations PROVE InSuccession(j)'
  <2>1. InSuccession(i) /\ InSuccession(j)
    BY DEF Succession
  <2>. QED  BY <1>1, <2>1 DEF InSuccession, NewSession
<1>4. HoldsLock' /\ PidFileNeverLies'
  <2>1. UNCHANGED <<arguments, pidFile, lock>>
    OBVIOUS
  <2>2. \A j \in Invocations : at'[<<j, 3>>] \in {"write", "run"} => at'[<<j, 3>>] = at[<<j, 3>>]
    <3>1. CASE MainRuns(i)
      BY <1>1, <3>1
    <3>2. CASE MainForks(i) \/ SecondForks(i)
      BY <1>1, <3>2
    <3>3. CASE Redirect(i)
      <4>1. at'[<<i, 3>>] = "open" /\ \A p \in Processes \ {<<i, 3>>} : at'[p] = at[p]
        BY <1>1, <3>3
      <4>. QED  BY <1>1, <4>1
    <3>. QED  BY <3>1, <3>2, <3>3
  <2>. QED  BY <2>1, <2>2, FilesKept
<1>. QED  BY <1>2, <1>3, <1>4 DEF Succession

\* The third process opens, locks and writes the PID file.  Only who holds the lock
\* writes: to open the file merely empties it.
LEMMA PidFileStepKeepsInv ==
  ASSUME DaemonInv, NEW i \in Invocations, OpenPidFile(i) \/ LockPidFile(i) \/ WritePidFile(i)
  PROVE  DaemonInv'
<1>. USE DEF DaemonInv
<1>1. /\ at \in [Processes -> Places]
      /\ \A j \in Invocations : <<j, 1>> \in Processes /\ <<j, 2>> \in Processes /\ <<j, 3>> \in Processes
      /\ \A j \in Invocations : PidFileOf(j) \in PidFiles
  BY PidFilesDeclared DEF DaemonTypeOK, Processes
<1>2. \A j \in Invocations : PidFileOf(j)' = PidFileOf(j)
  BY PidFileOfStable DEF OpenPidFile, LockPidFile, WritePidFile
<1>3. DaemonTypeOK'
  <2>1. CASE OpenPidFile(i)
    BY <1>1, <2>1 DEF DaemonTypeOK, Places, OpenPidFile, Goto
  <2>2. CASE LockPidFile(i)
    BY <1>1, <2>2 DEF DaemonTypeOK, Places, LockPidFile
  <2>3. CASE WritePidFile(i)
    BY <1>1, <2>3 DEF DaemonTypeOK, Places, WritePidFile, Goto
  <2>. QED  BY <2>1, <2>2, <2>3
<1>4. ASSUME NEW j \in Invocations PROVE InSuccession(j)'
  <2>1. InSuccession(j)
    BY DEF Succession
  <2>. QED  BY <1>1, <2>1 DEF InSuccession, OpenPidFile, LockPidFile, WritePidFile, Goto
<1>5. HoldsLock'
  <2>1. CASE OpenPidFile(i) \/ WritePidFile(i)
    BY <1>1, <1>2, <2>1 DEF HoldsLock, OpenPidFile, WritePidFile, Goto
  <2>2. CASE LockPidFile(i)
    <3>1. lock[PidFileOf(i)] \in {Nobody, <<i, 3>>} /\ \A j \in Invocations : <<j, 3>> # Nobody
      BY <2>2, DaemonAssumption DEF LockPidFile, MayLock
    <3>2. \A j \in Invocations :
            j # i /\ at[<<j, 3>>] \in {"write", "run"} => PidFileOf(j) # PidFileOf(i)
      BY <3>1 DEF HoldsLock
    <3>. QED  BY <1>1, <1>2, <2>2, <3>2 DEF DaemonTypeOK, HoldsLock, LockPidFile
  <2>. QED  BY <2>1, <2>2
<1>6. PidFileNeverLies'
  <2>1. CASE OpenPidFile(i) \/ LockPidFile(i)
    BY <1>1, <1>2, <2>1 DEF DaemonTypeOK, PidFileNeverLies, RunsAsDaemon, OpenPidFile, LockPidFile, Goto
  <2>2. CASE WritePidFile(i)
    BY <1>1, <1>2, <2>2 DEF DaemonTypeOK, HoldsLock, PidFileNeverLies, RunsAsDaemon, WritePidFile, Goto
  <2>. QED  BY <2>1, <2>2
<1>. QED  BY <1>3, <1>4, <1>5, <1>6 DEF Succession

\* Every step preserves the invariant.
LEMMA DaemonInvStep == DaemonInv /\ [DaemonNext]_daemonVars => DaemonInv'
<1> SUFFICES ASSUME DaemonInv, [DaemonNext]_daemonVars PROVE DaemonInv'
  OBVIOUS
<1>1. ASSUME NEW i \in Invocations,
             \/ MainFails(i) \/ MainCrashes(i) \/ MainTests(i) \/ PidFileFails(i) \/ LockFaults(i)
             \/ \E g \in 2..3 : DaemonizeFails(<<i, g>>)
      PROVE  DaemonInv'
  <2>1. \E g \in 1..3 : \E how \in Statuses :
          /\ at[<<i, g>>] # "none" /\ End(<<i, g>>, how)
          /\ UNCHANGED <<arguments, session, pidFile>>
    BY <1>1 DEF MainFails, MainCrashes, MainTests, PidFileFails, LockFaults, DaemonizeFails, Statuses
  <2>. QED  BY <2>1, EndKeepsInv DEF Processes
<1>2. ASSUME NEW p \in Processes, RunEnds(p) PROVE DaemonInv'
  BY <1>2, EndKeepsInv DEF RunEnds, Statuses
<1>3. CASE UNCHANGED daemonVars
  <2>1. HoldsLock' /\ PidFileNeverLies'
    BY <1>3, FilesKept DEF daemonVars
  <2>. QED  BY <1>3, <2>1 DEF daemonVars, DaemonInv, DaemonTypeOK, Succession, InSuccession
<1>. QED  BY <1>1, <1>2, <1>3, EarlyStepKeepsInv, PidFileStepKeepsInv DEF DaemonNext, StartUp

LEMMA DaemonInvariant == DaemonSpec => []DaemonInv
BY DaemonInvInit, DaemonInvStep, PTL DEF DaemonSpec

(***************************************************************************)
(* Theorems.                                                               *)
(***************************************************************************)

\* The processes and the files keep their types (mcv4fwdd.cc:45-146).
THEOREM DaemonTypeCorrect == DaemonSpec => []DaemonTypeOK
<1>1. DaemonInv => DaemonTypeOK
  BY DEF DaemonInv
<1> QED BY <1>1, DaemonInvariant, PTL

\* Two daemons with one PID file never run at the same time, however many are
\* started: both would hold the lock (mcv4fwdd.cc:110-142).
THEOREM DaemonsExclusive == DaemonSpec => []OneDaemonPerPidFile
<1>1. DaemonInv => OneDaemonPerPidFile
  BY DEF DaemonInv, HoldsLock, OneDaemonPerPidFile, RunsAsDaemon
<1> QED BY <1>1, DaemonInvariant, PTL

\* The PID file of a daemon that runs is empty or holds its PID: whoever else writes
\* the file would hold the lock (mcv4fwdd.cc:110-134).
THEOREM PidFilesNeverLie == DaemonSpec => []PidFileNeverLies
<1>1. DaemonInv => PidFileNeverLies
  BY DEF DaemonInv
<1> QED BY <1>1, DaemonInvariant, PTL

\* At most one process of an invocation runs the application (mcv4fwdd.cc:47-61, 144).
THEOREM OneRunsAtMost == DaemonSpec => []OneRunner
<1>1. DaemonInv => OneRunner
  <2> SUFFICES ASSUME DaemonInv, NEW p \in Processes, NEW q \in Processes,
                      at[p] = "run", at[q] = "run", p[1] = q[1]
               PROVE  p = q
    BY DEF OneRunner
  <2>1. PICK i \in Invocations, g \in 1..3 : p = <<i, g>>
    BY DEF Processes
  <2>2. PICK h \in 1..3 : q = <<i, h>>
    BY <2>1 DEF Processes
  <2>3. InSuccession(i)
    BY DEF DaemonInv, Succession
  <2>4. (g = 1 \/ g = 2 \/ g = 3) /\ (h = 1 \/ h = 2 \/ h = 3)
    OBVIOUS
  <2> QED BY <2>1, <2>2, <2>3, <2>4 DEF InSuccession
<1> QED BY <1>1, DaemonInvariant, PTL

\* A daemon is in the session of a process that has ended, not its own nor that of
\* its invoker (mcv4fwdd.cc:63-87).
THEOREM DaemonsDetached == DaemonSpec => []Detached
<1>1. DaemonInv => Detached
  <2> SUFFICES ASSUME DaemonInv, NEW i \in Invocations, at[<<i, 3>>] = "run"
               PROVE  session[<<i, 3>>] \notin {<<i, 3>>, Nobody}
    BY DEF Detached, RunsAsDaemon, Processes
  <2>1. InSuccession(i)
    BY DEF DaemonInv, Succession
  <2>2. <<i, 2>> # Nobody
    BY DaemonAssumption DEF DaemonAssumption
  <2> QED BY <2>1, <2>2 DEF InSuccession
<1> QED BY <1>1, DaemonInvariant, PTL

\* A process that ends otherwise than by forking changes its own status only.
LEMMA EndsAlone ==
  ASSUME DaemonTypeOK, NEW p \in Processes, NEW how, End(p, how)
  PROVE  /\ \A q \in Processes \ {p} : status'[q] = status[q]
         /\ status'[p] = how
BY DEF DaemonTypeOK, End

\* A fork is the parent's success, and its child goes on.
LEMMA ForkIsEarned ==
  ASSUME DaemonTypeOK, NEW p \in Processes, Child(p) \in Processes, Child(p) # p,
         NEW place \in {"setsid", "redirect"}, Fork(p, place)
  PROVE  /\ \A q \in Processes \ {p} : status'[q] = status[q]
         /\ at'[Child(p)] \notin {"none", "ended"}
BY DEF DaemonTypeOK, Fork

\* Status 0 stands for a run, a test, or a process that goes on, along the whole chain
\* of forks (mcv4fwdd.cc:47-104, 195-215).
THEOREM ZerosAreEarned == DaemonSpec => ZeroIsEarned
<1> DEFINE Earned(p) == \/ at[p] = "run"
                        \/ p[2] = 1 /\ Given(p[1], "-n")
                        \/ p[2] < 3 /\ at'[Child(p)] \notin {"none", "ended"}
           Step == \A p \in Processes : status[p] # "0" /\ status'[p] = "0" => Earned(p)
<1>1. ASSUME DaemonInv, DaemonNext PROVE Step
  <2> SUFFICES ASSUME NEW p \in Processes, status[p] # "0", status'[p] = "0" PROVE Earned(p)
    OBVIOUS
  <2>. USE DEF Processes
  <2>1. DaemonTypeOK
    BY <1>1 DEF DaemonInv
  <2>2. ASSUME NEW i \in Invocations, MainFails(i) \/ MainCrashes(i) PROVE FALSE
    BY <2>1, <2>2, EndsAlone DEF MainFails, MainCrashes
  <2>3. ASSUME NEW i \in Invocations, MainTests(i) PROVE Earned(p)
    <3>1. PICK how : End(<<i, 1>>, how)
      BY <2>3 DEF MainTests
    <3>2. p = <<i, 1>>
      BY <2>1, <3>1, EndsAlone
    <3>. QED  BY <2>3, <3>2 DEF MainTests
  <2>4. ASSUME NEW i \in Invocations, MainForks(i) PROVE Earned(p)
    <3>1. Fork(<<i, 1>>, "setsid") /\ Child(<<i, 1>>) = <<i, 2>>
      BY <2>4 DEF MainForks, Child
    <3>2. p = <<i, 1>> /\ at'[Child(p)] \notin {"none", "ended"}
      BY <2>1, <3>1, ForkIsEarned
    <3>. QED  BY <3>2
  <2>5. ASSUME NEW i \in Invocations, SecondForks(i) PROVE Earned(p)
    <3>1. Fork(<<i, 2>>, "redirect") /\ Child(<<i, 2>>) = <<i, 3>>
      BY <2>5 DEF SecondForks, Child
    <3>2. p = <<i, 2>> /\ at'[Child(p)] \notin {"none", "ended"}
      BY <2>1, <3>1, ForkIsEarned
    <3>. QED  BY <3>2
  <2>6. ASSUME NEW i \in Invocations, NEW g \in 2..3, DaemonizeFails(<<i, g>>) PROVE FALSE
    BY <2>1, <2>6, EndsAlone DEF DaemonizeFails
  <2>7. ASSUME NEW i \in Invocations, PidFileFails(i) \/ LockFaults(i) PROVE FALSE
    <3>1. PICK how \in {"1", "aborted"} : End(<<i, 3>>, how)
      BY <2>7 DEF PidFileFails, LockFaults
    <3>. QED  BY <2>1, <3>1, EndsAlone
  <2>8. ASSUME NEW i \in Invocations,
               \/ MainRuns(i) \/ Redirect(i) \/ OpenPidFile(i) \/ LockPidFile(i) \/ WritePidFile(i)
        PROVE  FALSE
    BY <2>8 DEF MainRuns, Redirect, OpenPidFile, LockPidFile, WritePidFile, Goto
  <2>9. ASSUME NEW q \in Processes, RunEnds(q) PROVE Earned(p)
    <3>1. PICK how : End(q, how)
      BY <2>9 DEF RunEnds
    <3>2. p = q
      BY <2>1, <3>1, EndsAlone
    <3>. QED  BY <2>9, <3>2 DEF RunEnds
  <2>. QED  BY <1>1, <2>2, <2>3, <2>4, <2>5, <2>6, <2>7, <2>8, <2>9 DEF DaemonNext, StartUp
<1>2. DaemonInv /\ [DaemonNext]_daemonVars => [Step]_daemonVars
  BY <1>1
<1>. QED  BY <1>2, DaemonInvariant, PTL DEF DaemonSpec, ZeroIsEarned

(***************************************************************************)
(* The processes of an invocation implement the service.                   *)
(***************************************************************************)

\* What was given depends on the arguments alone, and so do the files.
LEMMA FilesOfStable ==
  ASSUME arguments' = arguments
  PROVE  \A i \in Invocations :
           Given(i, "-f")' = Given(i, "-f") /\ FilesOf(i)' = FilesOf(i)
<1>1. \A i \in Invocations : Given(i, "-f")' = Given(i, "-f")
  BY DEF Given, Taken, StoppedAt, SelectInSeq, Stops
<1>2. \A i \in Invocations : PidFileOf(i)' = PidFileOf(i)
  BY PidFileOfStable
<1>. QED  BY <1>1, <1>2 DEF FilesOf

\* The first process runs the application in the foreground only.
Foreground == \A i \in Invocations : at[<<i, 1>>] = "run" => Given(i, "-f")

ServiceInv == DaemonInv /\ Foreground

\* The phase of an invocation, by the processes of it that there may be.
LEMMA Phases ==
  ASSUME NEW i \in Invocations, InSuccession(i)
  PROVE  /\ PhaseOf(i) = "serving" <=> at[<<i, 1>>] = "run" \/ at[<<i, 3>>] = "run"
         /\ PhaseOf(i) = "over" <=> /\ at[<<i, 1>>] = "ended"
                                    /\ at[<<i, 2>>] \in {"none", "ended"}
                                    /\ at[<<i, 3>>] \in {"none", "ended"}
         /\ PhaseOf(i) \in {"starting", "serving", "over"}
<1>1. (\E g \in 1..3 : at[<<i, g>>] = "run") <=> at[<<i, 1>>] = "run" \/ at[<<i, 3>>] = "run"
  BY DEF InSuccession
<1>2. (\A g \in 1..3 : at[<<i, g>>] \in {"none", "ended"}) <=>
        /\ at[<<i, 1>>] = "ended"
        /\ at[<<i, 2>>] \in {"none", "ended"}
        /\ at[<<i, 3>>] \in {"none", "ended"}
  BY DEF InSuccession
<1>. QED  BY <1>1, <1>2 DEF PhaseOf

\* A step in which one invocation alone changes its phase, or none does.
LEMMA OthersWait ==
  ASSUME NEW i \in Invocations, arguments' = arguments,
         \A j \in Invocations \ {i} : \A g \in 1..3 : at'[<<j, g>>] = at[<<j, g>>]
  PROVE  /\ UNCHANGED [j \in Invocations |-> FilesOf(j)]
         /\ [j \in Invocations |-> PhaseOf(j)]' =
              [[j \in Invocations |-> PhaseOf(j)] EXCEPT ![i] = PhaseOf(i)']
<1>1. \A j \in Invocations : FilesOf(j)' = FilesOf(j)
  BY FilesOfStable
<1>2. \A j \in Invocations \ {i} : PhaseOf(j)' = PhaseOf(j)
  BY DEF PhaseOf
<1>. QED  BY <1>1, <1>2

\* A process that ends otherwise than by forking is the last of its invocation.
LEMMA EndFinishes ==
  ASSUME ServiceInv, DaemonInv', NEW i \in Invocations, NEW g \in 1..3, NEW how,
         at[<<i, g>>] \notin {"none", "ended"}, End(<<i, g>>, how),
         UNCHANGED <<arguments, session, pidFile>>
  PROVE  Served!Finish(i) /\ Foreground'
<1>1. /\ at \in [Processes -> Places]
      /\ at' = [at EXCEPT ![<<i, g>>] = "ended"]
      /\ \A j \in Invocations : \A h \in 1..3 : <<j, h>> \in Processes
  BY DEF ServiceInv, DaemonInv, DaemonTypeOK, End, Processes
<1>2. InSuccession(i) /\ InSuccession(i)'
  BY DEF ServiceInv, DaemonInv, Succession
<1>3. PhaseOf(i) # "over"
  BY <1>2, Phases DEF PhaseOf
<1>4. PhaseOf(i)' = "over"
  <2>1. g = 1 \/ g = 2 \/ g = 3
    OBVIOUS
  <2>2. \A h \in 1..3 : at'[<<i, h>>] \in {"none", "ended"}
    BY <1>1, <1>2, <2>1 DEF InSuccession
  <2>. QED  BY <2>2 DEF PhaseOf
<1>5. Served!Finish(i)
  BY <1>1, <1>3, <1>4, OthersWait DEF Served!Finish
<1>6. Foreground'
  BY <1>1, FilesOfStable DEF ServiceInv, Foreground
<1>. QED  BY <1>5, <1>6

\* A fork, and what daemonize does before it has written its PID, goes on starting.
LEMMA StartGoesOn ==
  ASSUME ServiceInv, DaemonInv', NEW i \in Invocations,
         \/ MainForks(i) \/ SecondForks(i) \/ Redirect(i)
         \/ OpenPidFile(i) \/ LockPidFile(i)
  PROVE  UNCHANGED Served!serviceVars /\ Foreground'
<1>1. /\ at \in [Processes -> Places] /\ arguments' = arguments
      /\ \A j \in Invocations : \A h \in 1..3 : <<j, h>> \in Processes
  BY DEF ServiceInv, DaemonInv, DaemonTypeOK, Processes,
         MainForks, SecondForks, Redirect, OpenPidFile, LockPidFile
<1>2. InSuccession(i) /\ InSuccession(i)'
  BY DEF ServiceInv, DaemonInv, Succession
<1>3. \/ /\ at[<<i, 1>>] = "main"
         /\ at' = [at EXCEPT ![<<i, 1>>] = "ended", ![<<i, 2>>] = "setsid"]
      \/ /\ at[<<i, 2>>] = "setsid"
         /\ at' = [at EXCEPT ![<<i, 2>>] = "ended", ![<<i, 3>>] = "redirect"]
      \/ /\ at[<<i, 3>>] \in {"redirect", "open", "lock"}
         /\ \E place \in {"open", "lock", "write"} : at' = [at EXCEPT ![<<i, 3>>] = place]
  BY DEF MainForks, SecondForks, Redirect, OpenPidFile, LockPidFile, Fork, Goto, Child
<1>4. /\ \A j \in Invocations \ {i} : \A h \in 1..3 : at'[<<j, h>>] = at[<<j, h>>]
      /\ at'[<<i, 1>>] # "run"
  BY <1>1, <1>2, <1>3 DEF InSuccession
<1>5. PhaseOf(i) = "starting" /\ PhaseOf(i)' = "starting"
  <2>1. \A h \in 1..3 : at[<<i, h>>] # "run" /\ at'[<<i, h>>] # "run"
    BY <1>1, <1>2, <1>3 DEF InSuccession
  <2>2. \E h \in 1..3 : at[<<i, h>>] \notin {"none", "ended"}
    BY <1>3
  <2>3. \E h \in 1..3 : at'[<<i, h>>] \notin {"none", "ended"}
    BY <1>1, <1>3
  <2>. QED  BY <2>1, <2>2, <2>3 DEF PhaseOf
<1>6. Foreground'
  <2>1. ASSUME NEW j \in Invocations, at'[<<j, 1>>] = "run" PROVE at[<<j, 1>>] = "run"
    <3>1. j # i /\ 1 \in 1..3
      BY <1>4, <2>1
    <3>. QED  BY <1>4, <2>1, <3>1
  <2>. QED  BY <1>1, <2>1, FilesOfStable DEF ServiceInv, Foreground
<1>7. UNCHANGED Served!serviceVars
  BY <1>1, <1>4, <1>5, OthersWait DEF Served!serviceVars
<1>. QED  BY <1>6, <1>7

\* Who comes to run the application shares its PID file with none that does: in the
\* foreground there is no file, and a daemon holds the lock on its own.
LEMMA RunServes ==
  ASSUME ServiceInv, DaemonInv', NEW i \in Invocations, MainRuns(i) \/ WritePidFile(i)
  PROVE  Served!Serve(i) /\ Foreground'
<1>1. /\ at \in [Processes -> Places] /\ arguments' = arguments
      /\ \A j \in Invocations : \A h \in 1..3 : <<j, h>> \in Processes
  BY DEF ServiceInv, DaemonInv, DaemonTypeOK, Processes, MainRuns, WritePidFile
<1>2. InSuccession(i) /\ InSuccession(i)'
  BY DEF ServiceInv, DaemonInv, Succession
<1>3. PICK g \in {1, 3} :
        /\ at[<<i, g>>] = (IF g = 1 THEN "main" ELSE "write")
        /\ at' = [at EXCEPT ![<<i, g>>] = "run"]
        /\ g = 1 => Given(i, "-f")
  BY DEF MainRuns, WritePidFile, Goto
<1>4. \A j \in Invocations \ {i} : \A h \in 1..3 : at'[<<j, h>>] = at[<<j, h>>]
  BY <1>1, <1>3
<1>5. PhaseOf(i) = "starting" /\ PhaseOf(i)' = "serving"
  <2>1. \A h \in 1..3 : at[<<i, h>>] # "run"
    BY <1>2, <1>3 DEF InSuccession
  <2>2. \E h \in 1..3 : at[<<i, h>>] \notin {"none", "ended"}
    BY <1>3
  <2>3. g \in 1..3 /\ at'[<<i, g>>] = "run"
    <3>1. g = 1 \/ g = 3
      OBVIOUS
    <3>2. <<i, g>> \in Processes
      BY <3>1 DEF Processes
    <3>. QED  BY <1>1, <1>3, <3>1, <3>2
  <2>. QED  BY <2>1, <2>2, <2>3 DEF PhaseOf
<1>6. ASSUME NEW j \in Invocations, PhaseOf(j) = "serving"
      PROVE  FilesOf(i) \cap FilesOf(j) = {}
  <2>1. CASE Given(i, "-f") \/ at[<<j, 1>>] = "run"
    BY <2>1 DEF ServiceInv, Foreground, FilesOf
  <2>2. CASE g = 3 /\ at[<<j, 3>>] = "run"
    <3>1. lock[PidFileOf(i)] = <<i, 3>> /\ lock[PidFileOf(j)] = <<j, 3>>
      BY <1>3, <2>2 DEF ServiceInv, DaemonInv, HoldsLock
    <3>2. PidFileOf(i) # PidFileOf(j)
      BY <1>5, <1>6, <3>1
    <3>. QED  BY <3>2 DEF FilesOf
  <2>3. InSuccession(j)
    BY DEF ServiceInv, DaemonInv, Succession
  <2>. QED  BY <1>3, <1>6, <2>1, <2>2, <2>3, Phases
<1>7. Served!Serve(i)
  BY <1>1, <1>4, <1>5, <1>6, OthersWait DEF Served!Serve
<1>8. Foreground'
  BY <1>1, <1>3, FilesOfStable DEF ServiceInv, Foreground
<1>. QED  BY <1>7, <1>8

\* Every step of a process is a step of the service, or none.
LEMMA ServiceStep ==
  ASSUME ServiceInv, [DaemonNext]_daemonVars
  PROVE  [Served!Next]_(Served!serviceVars) /\ ServiceInv'
<1>1. DaemonInv'
  BY DaemonInvStep DEF ServiceInv
<1>2. ASSUME NEW i \in Invocations,
             \/ MainFails(i) \/ MainCrashes(i) \/ MainTests(i) \/ PidFileFails(i) \/ LockFaults(i)
             \/ \E g \in 2..3 : DaemonizeFails(<<i, g>>)
             \/ \E g \in 1..3 : RunEnds(<<i, g>>)
      PROVE  Served!Next /\ Foreground'
  <2>1. \E g \in 1..3 : \E how :
          /\ at[<<i, g>>] \notin {"none", "ended"} /\ End(<<i, g>>, how)
          /\ UNCHANGED <<arguments, session, pidFile>>
    BY <1>2 DEF MainFails, MainCrashes, MainTests, PidFileFails, LockFaults, DaemonizeFails, RunEnds
  <2>. QED  BY <1>1, <2>1, EndFinishes DEF Served!Next
<1>3. ASSUME NEW i \in Invocations,
             \/ MainForks(i) \/ SecondForks(i) \/ Redirect(i)
             \/ OpenPidFile(i) \/ LockPidFile(i)
      PROVE  UNCHANGED Served!serviceVars /\ Foreground'
  BY <1>1, <1>3, StartGoesOn
<1>4. ASSUME NEW i \in Invocations, MainRuns(i) \/ WritePidFile(i)
      PROVE  Served!Next /\ Foreground'
  BY <1>1, <1>4, RunServes DEF Served!Next
<1>5. CASE UNCHANGED daemonVars
  <2>1. \A i \in Invocations : FilesOf(i)' = FilesOf(i) /\ PhaseOf(i)' = PhaseOf(i)
    BY <1>5, FilesOfStable DEF daemonVars, PhaseOf
  <2>2. UNCHANGED Served!serviceVars
    BY <2>1 DEF Served!serviceVars
  <2>3. Foreground'
    BY <1>5, FilesOfStable DEF daemonVars, ServiceInv, Foreground
  <2>. QED  BY <1>1, <2>2, <2>3 DEF ServiceInv
<1>6. CASE DaemonNext
  <2>1. PICK i \in Invocations : StartUp(i) \/ LockFaults(i) \/ \E g \in 1..3 : RunEnds(<<i, g>>)
    BY <1>6 DEF DaemonNext, Processes
  <2>. QED  BY <1>1, <1>2, <1>3, <1>4, <2>1 DEF StartUp, ServiceInv
<1>. QED  BY <1>5, <1>6

\* The service's initial states are those of the invocations.
LEMMA ServiceInit == DaemonInit => ServiceInv /\ Served!Init
<1>. SUFFICES ASSUME DaemonInit PROVE ServiceInv /\ Served!Init
  OBVIOUS
<1>1. \A i \in Invocations :
        at[<<i, 1>>] = "main" /\ at[<<i, 2>>] = "none" /\ at[<<i, 3>>] = "none"
  BY DEF DaemonInit, Processes
<1>2. ServiceInv
  BY <1>1, DaemonInvInit DEF ServiceInv, Foreground
<1>3. \A i \in Invocations : PhaseOf(i) = "starting"
  <2>1. \A i \in Invocations : InSuccession(i)
    BY <1>2 DEF ServiceInv, DaemonInv, Succession
  <2>. QED  BY <1>1, <2>1, Phases
<1>4. \A i \in Invocations : FilesOf(i) \in SUBSET PidFiles
  BY <1>2, PidFilesDeclared DEF ServiceInv, DaemonInv, FilesOf
<1>. QED  BY <1>2, <1>3, <1>4 DEF Served!Init

\* However the processes of several invocations interleave, fail and die, each
\* invocation serves at most once, none serves with its PID in the file of another
\* that does, and none that is over comes back (mcv4fwdd.cc:45-146, 165-222).
THEOREM InvocationsImplementService == DaemonSpec => ImplementsService
<1>1. ServiceInv /\ [DaemonNext]_daemonVars => [Served!Next]_(Served!serviceVars) /\ ServiceInv'
  BY ServiceStep
<1>. QED  BY ServiceInit, <1>1, PTL DEF DaemonSpec, ImplementsService, Served!Spec
=============================================================================

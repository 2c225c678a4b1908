------------------------------ MODULE PidLock ------------------------------
(***************************************************************************)
(* evfd/evfd_lock.c and the part of evfd's main() around it: the pid file  *)
(* that is to keep a second evfd from running.                             *)
(*                                                                         *)
(* An instance reads the file, looks for the pid it names in /proc, then   *)
(* truncates the file, writes its own pid into it, initialises itself,     *)
(* possibly turns into a daemon (a new process with a new pid), runs until *)
(* a signal, unlinks the file and exits.  Any process may die at any       *)
(* moment and leave the file as it is.                                     *)
(***************************************************************************)
CONSTANTS
  Instance,    \* the launches of evfd
  Pid,         \* process identifiers
  NoPid,       \* 0, what load_pid returns for a missing, empty or garbled file
  Daemonize    \* what main()'s variable daemonize may be: FALSE is the foreground

ASSUME PidAssumption == NoPid \notin Pid
ASSUME ModeAssumption == Daemonize \subseteq BOOLEAN

VARIABLES
  file,      \* the pid /var/run/evfd.pid names, NoPid if it names none
  pc,        \* where each instance is
  pid,       \* the pid of its process
  seen,      \* the local variable pid of evfd_try_lock
  linked,    \* its open stream is on the file /var/run/evfd.pid names
  forked,    \* the instances that daemon() has given another process
  others,    \* pids of unrelated processes
  used,      \* history: pids that have been handed out
  reused,    \* history: pids that have been handed out more than once
  raced,     \* history: attempts overlapped since evfd was last not there at all
  beside     \* history: one was made beside a daemon, likewise

history == <<used, reused>>
vars == <<file, pc, pid, seen, linked, forked, others, used, reused, raced, beside>>

Starting == {"load", "check", "create", "write", "locked"}
State == {"off", "running", "released"} \cup Starting

Alive(i) == pc[i] # "off"
Present == \E i \in Instance : Alive(i)
Running == {pid[i] : i \in {j \in Instance : Alive(j)}} \cup others

TypeOK ==
  /\ file \in Pid \cup {NoPid}
  /\ pc \in [Instance -> State]
  /\ pid \in [Instance -> Pid \cup {NoPid}]
  /\ seen \in [Instance -> Pid \cup {NoPid}]
  /\ linked \in [Instance -> BOOLEAN]
  /\ forked \subseteq Instance
  /\ others \subseteq Pid
  /\ used \subseteq Pid
  /\ reused \subseteq Pid
  /\ raced \in BOOLEAN
  /\ beside \in BOOLEAN

Init ==
  /\ file = NoPid
  /\ pc = [i \in Instance |-> "off"]
  /\ pid = [i \in Instance |-> NoPid]
  /\ seen = [i \in Instance |-> NoPid]
  /\ linked = [i \in Instance |-> FALSE]
  /\ forked = {}
  /\ others = {}
  /\ used = {}
  /\ reused = {}
  /\ raced = FALSE
  /\ beside = FALSE

Go(i, state) == pc' = [pc EXCEPT ![i] = state]

\* A new process gets a pid nobody has, perhaps one that somebody had.
FreshPid == Pid \ Running

Spend(p) == /\ used' = used \cup {p}
            /\ reused' = IF p \in used THEN reused \cup {p} ELSE reused

\* The process of an instance is gone, and its variables with it.
Gone(i) ==
  /\ Go(i, "off")
  /\ pid' = [pid EXCEPT ![i] = NoPid]
  /\ seen' = [seen EXCEPT ![i] = NoPid]
  /\ forked' = forked \ {i}

Launch(i) ==
  /\ pc[i] = "off"
  /\ \E p \in FreshPid :
       /\ pid' = [pid EXCEPT ![i] = p]
       /\ Spend(p)
  /\ Go(i, "load")
  /\ UNCHANGED <<file, seen, linked, forked, others>>

\* load_pid
Load(i) ==
  /\ pc[i] = "load"
  /\ seen' = [seen EXCEPT ![i] = file]
  /\ Go(i, "check")
  /\ UNCHANGED <<file, pid, linked, forked, others, history>>

\* Mutants: the test of /proc is inverted in its error case, or left out.
PidIsRunningNever(p) == FALSE
PidIsRunningAlways(p) == TRUE

\* pid_is_running: a directory of that name in /proc.
PidIsRunning(p) == p \in Running

\* evfd_try_lock gives up: main() returns 1.
Refuse(i) ==
  /\ pc[i] = "check"
  /\ seen[i] # NoPid
  /\ PidIsRunning(seen[i])
  /\ Gone(i)
  /\ UNCHANGED <<file, linked, others, history>>

Proceed(i) ==
  /\ pc[i] = "check"
  /\ seen[i] = NoPid \/ ~PidIsRunning(seen[i])
  /\ Go(i, "create")
  /\ UNCHANGED <<file, pid, seen, linked, forked, others, history>>

\* fopen(LOCKFILE, "w") creates or truncates.
Create(i) ==
  /\ pc[i] = "create"
  /\ file' = NoPid
  /\ linked' = [linked EXCEPT ![i] = TRUE]
  /\ Go(i, "write")
  /\ UNCHANGED <<pid, seen, forked, others, history>>

\* Mutant: the pid found in the file is written back.
WrittenStale(i) == IF linked[i] THEN seen[i] ELSE file

\* The pid reaches the file with fclose(), if the file is still linked.
Written(i) == IF linked[i] THEN pid[i] ELSE file

Write(i) ==
  /\ pc[i] = "write"
  /\ file' = Written(i)
  /\ linked' = [linked EXCEPT ![i] = FALSE]
  /\ Go(i, "locked")
  /\ UNCHANGED <<pid, seen, forked, others, history>>

\* Initialisation is over.  daemon() forks: the child goes on, the process
\* whose pid is in the file exits.
Run(i) ==
  /\ pc[i] = "locked"
  /\ Go(i, "running")
  /\ \/ /\ FALSE \in Daemonize
        /\ UNCHANGED <<pid, forked, history>>
     \/ /\ TRUE \in Daemonize
        /\ forked' = forked \cup {i}
        /\ \E p \in FreshPid :
             /\ pid' = [pid EXCEPT ![i] = p]
             /\ Spend(p)
  /\ UNCHANGED <<file, seen, linked, others>>

\* A signal ends the loop; evfd_release_lock unlinks whatever file is there.
Release(i) ==
  /\ pc[i] = "running"
  /\ file' = NoPid
  /\ linked' = [j \in Instance |-> FALSE]
  /\ Go(i, "released")
  /\ UNCHANGED <<pid, seen, forked, others, history>>

\* The end of a process: after its release, but also by a crash, or by an error
\* of the initialisation or of writing the lock, after which main() returns
\* without releasing it.
Exit(i) ==
  /\ Alive(i)
  /\ Gone(i)
  /\ linked' = [linked EXCEPT ![i] = FALSE]
  /\ UNCHANGED <<file, others, history>>

\* Unrelated processes come and go.
OtherStarts == \E p \in FreshPid :
  /\ others' = others \cup {p}
  /\ Spend(p)
  /\ UNCHANGED <<file, pc, pid, seen, linked, forked>>

OtherEnds == \E p \in others :
  /\ others' = others \ {p}
  /\ UNCHANGED <<file, pc, pid, seen, linked, forked, history>>

Step(i) == \/ Launch(i) \/ Load(i) \/ Refuse(i) \/ Proceed(i) \/ Create(i)
           \/ Write(i) \/ Run(i) \/ Release(i) \/ Exit(i)

\* An attempt at the lock, from load_pid to the fclose() in pid_save.
Attempting(i) == pc[i] \in {"check", "create", "write"}

Overlap == \E i, j \in Instance : i # j /\ Attempting(i) /\ Attempting(j)

\* A daemon runs, under a pid that it has not saved.
Daemon(i) == pc[i] = "running" /\ i \in forked

BesideDaemon == \E i, j \in Instance : i # j /\ Daemon(i) /\ Attempting(j)

\* What has gone wrong is forgotten when the last instance is gone.
Record ==
  /\ raced' = (Present' /\ (raced \/ Overlap'))
  /\ beside' = (Present' /\ (beside \/ BesideDaemon'))

Next == /\ \/ \E i \in Instance : Step(i)
           \/ OtherStarts \/ OtherEnds
        /\ Record

Spec == Init /\ [][Next]_vars

---------------------------------------------------------------------------

\* Instances that work on the input devices, or are about to.
Holding(i) == pc[i] \in {"create", "write", "locked", "running"}

\* "Lock we want only one instance of evfd running" (evfd_lock.h).  That is more
\* than the code achieves: two instances that start together both read the file
\* before either writes it.
OneInstance == \A i, j \in Instance :
                 pc[i] = "running" /\ pc[j] = "running" => i = j

\* "if there is evfd allready running exit" (evfd.c), where no two attempts at the
\* lock overlapped.  Refuted: the pid of a daemon is not the one it has saved.
OneDaemon == raced \/ OneInstance

\* What the lock does achieve, for daemons and in the foreground: two instances
\* run only if, since evfd was last not there at all, two attempts at the lock
\* overlapped or one was made beside a running daemon.  Whatever the file said
\* when the first of them came, crashes, aborted starts, instances that leave and
\* pids used again are no reason.
Exclusive == raced \/ beside \/ OneInstance

\* The file names the process that runs, so that whoever comes next finds it,
\* and it is not taken away by an instance that leaves.
FileNamesOwner == \A i \in Instance :
                    pc[i] = "running" /\ i \notin forked => file = pid[i]

\* A start is refused only while another instance is alive: a file left behind
\* by a crash, an aborted start or a previous life does not lock evfd out,
\* unless its pid has been given to another process since.
RefusedByInstance ==
  [][\A i \in Instance :
       Refuse(i) => seen[i] \in reused \/ \E j \in Instance \ {i} : Alive(j)]_vars

\* As long as nothing has gone wrong: at most one instance is past the check;
\* from the moment it has written its pid until it forks, that pid is in the file
\* and is what anyone at the check has read.
LockHeld ==
  /\ \A i, j \in Instance : Holding(i) /\ Holding(j) => i = j
  /\ \A i \in Instance : pc[i] = "write" => linked[i]
  /\ \A i \in Instance :
       pc[i] \in {"locked", "running"} /\ i \notin forked =>
         /\ file = pid[i]
         /\ \A j \in Instance : pc[j] = "check" => seen[j] = pid[i]

\* The inductive invariant.
LockInv ==
  /\ TypeOK
  /\ \A i \in Instance : Alive(i) => pid[i] # NoPid
  /\ \A i \in forked : pc[i] \in {"running", "released"}
  /\ Overlap => raced
  /\ BesideDaemon => beside
  /\ raced \/ beside \/ LockHeld
=============================================================================

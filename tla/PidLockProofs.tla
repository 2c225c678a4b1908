--------------------------- MODULE PidLockProofs ---------------------------
(* Theorems about PidLock: what the pid file does achieve, in any mode and  *)
(* however starts overlap.                                                 *)
EXTENDS PidLock, TLAPS

\* Every step keeps the types, for any number of instances.
LEMMA TypeStep == TypeOK /\ [Next]_vars => TypeOK'
<1> SUFFICES ASSUME TypeOK, [Next]_vars PROVE TypeOK'
  OBVIOUS
<1>0. raced' \in BOOLEAN /\ beside' \in BOOLEAN
  <2>1. CASE Record
    BY <2>1, Zenon DEF Record
  <2>2. CASE UNCHANGED vars
    BY <2>2 DEF vars, TypeOK
  <2>3. QED BY <2>1, <2>2 DEF Next
<1> USE <1>0, PidAssumption DEF TypeOK, State, Starting, Go, Gone, history
<1>1. FreshPid \subseteq Pid
      /\ \A p \in FreshPid : Spend(p) => used' \subseteq Pid /\ reused' \subseteq Pid
  BY DEF FreshPid, Spend
<1>2. ASSUME NEW i \in Instance, Launch(i) PROVE TypeOK'
  BY <1>1, <1>2 DEF Launch
<1>3. ASSUME NEW i \in Instance, Load(i) PROVE TypeOK'
  BY <1>3 DEF Load
<1>4. ASSUME NEW i \in Instance, Refuse(i) PROVE TypeOK'
  BY <1>4 DEF Refuse
<1>5. ASSUME NEW i \in Instance, Proceed(i) PROVE TypeOK'
  BY <1>5 DEF Proceed
<1>6. ASSUME NEW i \in Instance, Create(i) PROVE TypeOK'
  BY <1>6 DEF Create
<1>7. ASSUME NEW i \in Instance, Write(i) PROVE TypeOK'
  BY <1>7 DEF Write, Written
<1>8. ASSUME NEW i \in Instance, Run(i) PROVE TypeOK'
  <2>1. CASE UNCHANGED <<pid, forked, history>>
    BY <1>8, <2>1 DEF Run
  <2>2. CASE /\ forked' = forked \cup {i}
             /\ \E p \in FreshPid : pid' = [pid EXCEPT ![i] = p] /\ Spend(p)
    BY <1>1, <1>8, <2>2 DEF Run
  <2>3. QED BY <1>8, <2>1, <2>2 DEF Run
<1>9. ASSUME NEW i \in Instance, Release(i) PROVE TypeOK'
  BY <1>9 DEF Release
<1>10. ASSUME NEW i \in Instance, Exit(i) PROVE TypeOK'
  BY <1>10 DEF Exit
<1>11. CASE OtherStarts
  BY <1>1, <1>11 DEF OtherStarts
<1>12. CASE OtherEnds
  BY <1>12 DEF OtherEnds
<1>13. CASE UNCHANGED vars
  BY <1>13 DEF vars
<1>14. QED
  BY <1>2, <1>3, <1>4, <1>5, <1>6, <1>7, <1>8, <1>9, <1>10, <1>11, <1>12, <1>13
     DEF Next, Step

\* A running instance is found in /proc under its pid.
LEMMA RunningIsFound ==
  ASSUME NEW i \in Instance, Alive(i)
  PROVE  PidIsRunning(pid[i])
BY DEF Alive, PidIsRunning, Running

\* The unconditional parts of LockInv: who has a pid, who is a daemon, and that
\* what has gone wrong is on record.
Recorded ==
  /\ TypeOK
  /\ \A i \in Instance : Alive(i) => pid[i] # NoPid
  /\ \A i \in forked : pc[i] \in {"running", "released"}
  /\ Overlap => raced
  /\ BesideDaemon => beside

\* They are inductive of themselves.
LEMMA RecordedStep ==
  ASSUME Recorded, [Next]_vars
  PROVE  Recorded'
<1>0. TypeOK' /\ TypeOK
  BY TypeStep DEF Recorded
<1>1. (\A i \in Instance : Alive(i) => pid[i] # NoPid)'
      /\ (\A i \in forked : pc[i] \in {"running", "released"})'
  <2> DEFINE Goal == /\ \A i \in Instance : Alive(i) => pid[i] # NoPid
                     /\ \A i \in forked : pc[i] \in {"running", "released"}
  <2> USE <1>0, PidAssumption DEF TypeOK, Alive, Go, Gone, Recorded, FreshPid, history
  <2>1. ASSUME NEW k \in Instance, Launch(k) PROVE Goal'
    BY <2>1 DEF Launch
  <2>2. ASSUME NEW k \in Instance, Load(k) \/ Proceed(k) PROVE Goal'
    BY <2>2 DEF Load, Proceed
  <2>3. ASSUME NEW k \in Instance, Refuse(k) \/ Exit(k) PROVE Goal'
    BY <2>3 DEF Refuse, Exit
  <2>4. ASSUME NEW k \in Instance, Create(k) \/ Write(k) \/ Release(k) PROVE Goal'
    BY <2>4 DEF Create, Write, Release
  <2>5. ASSUME NEW k \in Instance, Run(k) PROVE Goal'
    <3>1. CASE UNCHANGED <<pid, forked, history>>
      BY <2>5, <3>1 DEF Run
    <3>2. CASE forked' = forked \cup {k}
               /\ \E p \in FreshPid : pid' = [pid EXCEPT ![k] = p] /\ Spend(p)
      BY <2>5, <3>2 DEF Run
    <3>3. QED BY <2>5, <3>1, <3>2 DEF Run
  <2>6. CASE OtherStarts \/ OtherEnds
    BY <2>6 DEF OtherStarts, OtherEnds
  <2>7. CASE UNCHANGED vars
    BY <2>7 DEF vars
  <2>8. QED
    BY <2>1, <2>2, <2>3, <2>4, <2>5, <2>6, <2>7 DEF Next, Step
<1>2. CASE Record
  BY <1>0, <1>1, <1>2 DEF Recorded, Record, Present, Overlap, BesideDaemon,
     Attempting, Daemon, Alive
<1>3. CASE UNCHANGED vars
  BY <1>0, <1>1, <1>3 DEF vars, Recorded, Overlap, BesideDaemon, Attempting, Daemon
<1>4. QED BY <1>2, <1>3 DEF Next

\* The lock keeps its promise in a step with no overlap and no attempt beside a
\* daemon before or after it.
LEMMA HeldStep ==
  ASSUME Recorded, Recorded', LockHeld, ~Overlap, ~Overlap', ~BesideDaemon, ~BesideDaemon',
         [Next]_vars
  PROVE  LockHeld'
<1> USE DEF Recorded, TypeOK, Holding, Alive, Go, Gone, LockHeld, history
<1>1. ASSUME NEW k \in Instance, Launch(k) PROVE LockHeld'
  BY <1>1 DEF Launch
<1>2. ASSUME NEW k \in Instance, Load(k) PROVE LockHeld'
  BY <1>2 DEF Load
<1>3. ASSUME NEW k \in Instance, Refuse(k) PROVE LockHeld'
  BY <1>3 DEF Refuse
<1>4. ASSUME NEW k \in Instance, Proceed(k) PROVE LockHeld'
  <2>1. ASSUME NEW i \in Instance, Holding(i) PROVE FALSE
    <3>1. i # k /\ pc[k] = "check"
      BY <1>4, <2>1 DEF Proceed
    <3>2. pc[i] \notin {"create", "write"}
      BY <3>1 DEF Overlap, Attempting
    <3>3. i \notin forked
      BY <2>1, <3>1, <3>2 DEF BesideDaemon, Daemon, Attempting
    <3>4. seen[k] = pid[i] /\ pid[i] # NoPid
      BY <2>1, <3>1, <3>2, <3>3
    <3>5. PidIsRunning(pid[i])
      BY <2>1, RunningIsFound
    <3>6. QED BY <1>4, <3>4, <3>5 DEF Proceed
  <2>2. QED BY <1>4, <2>1 DEF Proceed
<1>5. ASSUME NEW k \in Instance, Create(k) PROVE LockHeld'
  BY <1>5 DEF Create
<1>6. ASSUME NEW k \in Instance, Write(k) PROVE LockHeld'
  <2>1. \A j \in Instance : pc'[j] # "check"
    BY <1>6 DEF Write, Overlap, Attempting
  <2>2. QED BY <1>6, <2>1 DEF Write, Written
<1>7. ASSUME NEW k \in Instance, Run(k) PROVE LockHeld'
  <2>1. CASE UNCHANGED <<pid, forked, history>>
    BY <1>7, <2>1 DEF Run
  <2>2. CASE forked' = forked \cup {k}
    BY <1>7, <2>2 DEF Run
  <2>3. QED BY <1>7, <2>1, <2>2 DEF Run
<1>8. ASSUME NEW k \in Instance, Release(k) PROVE LockHeld'
  BY <1>8 DEF Release
<1>9. ASSUME NEW k \in Instance, Exit(k) PROVE LockHeld'
  BY <1>9 DEF Exit
<1>10. CASE OtherStarts \/ OtherEnds
  BY <1>10 DEF OtherStarts, OtherEnds
<1>11. CASE UNCHANGED vars
  BY <1>11 DEF vars
<1>12. QED
  BY <1>1, <1>2, <1>3, <1>4, <1>5, <1>6, <1>7, <1>8, <1>9, <1>10, <1>11
     DEF Next, Step

\* The inductive step.
LEMMA LockStep == LockInv /\ [Next]_vars => LockInv'
<1> SUFFICES ASSUME LockInv, [Next]_vars PROVE LockInv'
  OBVIOUS
<1>1. Recorded
  BY DEF LockInv, Recorded
<1>2. Recorded'
  BY <1>1, RecordedStep
<1>3. (raced \/ beside \/ LockHeld)'
  <2> SUFFICES ASSUME ~raced', ~beside' PROVE LockHeld'
    OBVIOUS
  <2>1. CASE ~Present'  \* nobody is left to break the promise
    BY <2>1 DEF Present, LockHeld, Holding, Alive
  <2>2. CASE Present'
    <3>1. ~raced /\ ~beside
      <4>1. CASE Record
        BY <2>2, <4>1, Zenon DEF Record
      <4>2. CASE UNCHANGED vars
        BY <4>2 DEF vars
      <4>3. QED BY <4>1, <4>2 DEF Next
    <3>2. LockHeld /\ ~Overlap /\ ~BesideDaemon /\ ~Overlap' /\ ~BesideDaemon'
      BY <1>1, <1>2, <3>1 DEF LockInv, Recorded
    <3>3. QED BY <1>1, <1>2, <3>2, HeldStep
  <2>3. QED BY <2>1, <2>2
<1>4. QED BY <1>2, <1>3 DEF LockInv, Recorded

\* LockInv is invariant, for any number of instances and pids, in either mode,
\* with crashes, and however starts overlap.
THEOREM LockInvariant == Spec => []LockInv
<1>1. Init => LockInv
  BY DEF Init, LockInv, TypeOK, State, Starting, Alive, Overlap, BesideDaemon, Attempting,
     Daemon, LockHeld, Holding
<1>2. QED BY <1>1, LockStep, PTL DEF Spec

\* What the pid file is for: two instances run only after overlapping attempts or
\* an attempt beside a daemon, and else the file names the one that runs in the
\* foreground.  Nothing is assumed of the mode, of the moments of the starts, or of
\* the file that the first instance finds.
THEOREM LockExcludes == Spec => [](Exclusive /\ (raced \/ beside \/ FileNamesOwner))
<1>1. LockInv => Exclusive /\ (raced \/ beside \/ FileNamesOwner)
  BY DEF LockInv, LockHeld, Exclusive, OneInstance, FileNamesOwner, Holding
<1>2. QED BY <1>1, LockInvariant, PTL

---------------------------------------------------------------------------
(* Refusals.  This holds in any mode, daemon or not, also for starts that   *)
(* overlap.                                                                 *)

\* Why refusals are justified, in any mode of operation: processes have different
\* pids; a pid that the file names, or an instance has read, was handed out, and
\* if an unrelated process, or the reader itself, has it now, for the second time.
RefuseInv ==
  /\ TypeOK
  /\ \A i \in Instance : Alive(i) => pid[i] \in used /\ pid[i] \notin others /\ pid[i] # NoPid
  /\ \A i, j \in Instance : Alive(i) /\ Alive(j) /\ pid[i] = pid[j] => i = j
  /\ others \subseteq used
  /\ \A p \in {file} \cup {seen[i] : i \in Instance} :
       p # NoPid => p \in used /\ (p \in others => p \in reused)
  /\ \A i \in Instance :
       /\ pc[i] \in {"load", "check"} /\ file = pid[i] => pid[i] \in reused
       /\ pc[i] = "check" /\ seen[i] = pid[i] => pid[i] \in reused

\* A pid that is handed out: nobody has it, and it may only be one that the file
\* names or somebody has read if that was handed out before.
LEMMA FreshFacts ==
  ASSUME RefuseInv, NEW p \in FreshPid, Spend(p)
  PROVE  /\ p \in Pid /\ p # NoPid /\ p \notin others
         /\ \A i \in Instance : Alive(i) => pid[i] # p
         /\ used' = used \cup {p} /\ used' \subseteq Pid
         /\ reused \subseteq reused' /\ reused' \subseteq Pid
         /\ p \in {file} \cup {seen[i] : i \in Instance} => p \in reused'
BY PidAssumption DEF RefuseInv, TypeOK, FreshPid, Running, Spend

\* The invariant is inductive.
LEMMA RefuseStep == RefuseInv /\ [Next]_vars => RefuseInv'
<1> SUFFICES ASSUME RefuseInv, [Next]_vars PROVE RefuseInv'
  OBVIOUS
<1>0. TypeOK' /\ TypeOK
  BY TypeStep DEF RefuseInv
<1> USE <1>0 DEF TypeOK, Alive, Starting, Go, Gone, RefuseInv, history
<1>1. ASSUME NEW k \in Instance, Launch(k) PROVE RefuseInv'
  <2>1. PICK p \in FreshPid : pid' = [pid EXCEPT ![k] = p] /\ Spend(p)
    BY <1>1 DEF Launch
  <2>2. QED BY <1>1, <2>1, FreshFacts DEF Launch
<1>2. ASSUME NEW k \in Instance, Load(k) PROVE RefuseInv'
  BY <1>2 DEF Load
<1>3. ASSUME NEW k \in Instance, Refuse(k) PROVE RefuseInv'
  BY <1>3 DEF Refuse
<1>4. ASSUME NEW k \in Instance, Proceed(k) PROVE RefuseInv'
  BY <1>4 DEF Proceed
<1>5. ASSUME NEW k \in Instance, Create(k) PROVE RefuseInv'
  BY <1>5, PidAssumption DEF Create
<1>6. ASSUME NEW k \in Instance, Write(k) PROVE RefuseInv'
  BY <1>6 DEF Write, Written
<1>7. ASSUME NEW k \in Instance, Run(k) PROVE RefuseInv'
  <2>1. CASE UNCHANGED <<pid, forked, history>>
    BY <1>7, <2>1 DEF Run
  <2>2. CASE \E p \in FreshPid : pid' = [pid EXCEPT ![k] = p] /\ Spend(p)
    <3>1. PICK p \in FreshPid : pid' = [pid EXCEPT ![k] = p] /\ Spend(p)
      BY <2>2
    <3>2. QED BY <1>7, <3>1, FreshFacts DEF Run
  <2>3. QED BY <1>7, <2>1, <2>2 DEF Run
<1>8. ASSUME NEW k \in Instance, Release(k) PROVE RefuseInv'
  BY <1>8, PidAssumption DEF Release
<1>9. ASSUME NEW k \in Instance, Exit(k) PROVE RefuseInv'
  BY <1>9 DEF Exit
<1>10. CASE OtherStarts
  <2>1. PICK p \in FreshPid : others' = others \cup {p} /\ Spend(p)
    BY <1>10 DEF OtherStarts
  <2>2. QED BY <1>10, <2>1, FreshFacts DEF OtherStarts
<1>11. CASE OtherEnds
  BY <1>11 DEF OtherEnds
<1>12. CASE UNCHANGED vars
  BY <1>12 DEF vars
<1>13. QED
  BY <1>1, <1>2, <1>3, <1>4, <1>5, <1>6, <1>7, <1>8, <1>9, <1>10, <1>11, <1>12
     DEF Next, Step

\* A start is refused only while another instance is alive, or because of a pid
\* that was handed out again: for any number of instances, in either mode, also
\* when starts overlap and processes crash.
THEOREM RefusalsJustified == Spec => RefusedByInstance
<1>1. Init => RefuseInv
  BY PidAssumption DEF Init, RefuseInv, TypeOK, State, Starting, Alive
<1>2. RefuseInv /\ [Next]_vars =>
        [\A i \in Instance :
           Refuse(i) => seen[i] \in reused \/ \E j \in Instance \ {i} : Alive(j)]_vars
  <2> SUFFICES ASSUME RefuseInv, NEW i \in Instance, Refuse(i)
               PROVE  seen[i] \in reused \/ \E j \in Instance \ {i} : Alive(j)
    OBVIOUS
  <2>1. CASE seen[i] \in others
    BY <2>1 DEF Refuse, RefuseInv
  <2>2. CASE \E j \in Instance : Alive(j) /\ seen[i] = pid[j]
    BY <2>2 DEF Refuse, RefuseInv
  <2>3. QED BY <2>1, <2>2 DEF Refuse, PidIsRunning, Running
<1>3. QED BY <1>1, <1>2, RefuseStep, PTL DEF Spec, RefusedByInstance
=============================================================================

----------------------------- MODULE EvfdProofs -----------------------------
(***************************************************************************)
(* Proofs about Evfd, for every number of descriptors and of devices: the  *)
(* daemon's queue stays sound and a line keeps its own virtual device;     *)
(* and, on top of that, nothing is filtered twice, events are delivered    *)
(* once, a device goes unnoticed only if it was plugged in between walk    *)
(* and watch, and evfd blocks only where it may.                           *)
(*                                                                         *)
(* The queue is not proved about again: the steps of the daemon that go    *)
(* through it are steps of IoQueue, and the lemmas of IoQueueProofs say    *)
(* what those preserve.  What is left is what the queue takes for granted, *)
(* that nobody closes the descriptor of a member behind its back.          *)
(***************************************************************************)
EXTENDS Evfd, ListLemmas, FiniteSetTheorems

Q == INSTANCE IoQueueProofs WITH
       AddInCallback <- TRUE, RemInCallback <- FALSE, Timeout <- FALSE,
       CntModulus <- 1, ReturnFlags <- {{}, {"REM", "CLOSE"}},
       open <- OpenFds, ready <- ReadyFds, watched <- ToSet(members)

---------------------------------------------------------------------------
(* The inductive invariant.                                                *)

\* What device_plugged holds in its locals, and where the queue is.
Control ==
  /\ pc # "destroyed" /\ (mpc # "wait" => pc = "idle")
  /\ at \in {"create", "line", "add"} => todo # <<>>
  /\ at \in {"line", "add"} => ufd \in Fd /\ file[ufd].kind = "uinput"
  /\ at = "line" => \A f \in Fd : line[f] # ufd
  /\ at = "add" => /\ lfd \in Fd /\ lfd \notin ToSet(members)
                   /\ file[lfd].kind \in {"event", "gone"}
                   /\ line[lfd] = ufd

\* Nothing but the watch and the lines' input devices is queued.
MembersRead == \A f \in ToSet(members) : file[f].kind \in {"inotify", "event", "gone"}

\* Events wait in, and grabs are held by, descriptors of devices that are there.
AliveOnly == data \subseteq Alive(file) /\ grabbed \subseteq Alive(file)

Inv == TypeOK /\ Q!CoreInv /\ Control /\ MembersRead /\ AliveOnly /\ OwnOutput

---------------------------------------------------------------------------
(* The queue.                                                              *)

\* The steps of the daemon's queue are those of the proved one.
LEMMA SameQueue ==
  /\ \A f : Queue!Add(f) <=> Q!Add(f)
  /\ \A flags : Queue!Return(flags) <=> Q!Return(flags)
  /\ Queue!SelectReturn <=> Q!SelectReturn
  /\ Queue!Walk <=> Q!Walk
  /\ \A s, f : Queue!InsertPos(s, f) = Q!InsertPos(s, f)
  /\ Queue!Sorted <=> Q!Sorted
  /\ Queue!WatchesAll <=> Q!WatchesAll
<1>1. \A s, f : Queue!InsertPos(s, f) = Q!InsertPos(s, f)
  BY DEF Queue!InsertPos, Q!InsertPos
<1>2. \A f : Queue!Add(f) <=> Q!Add(f)
  BY <1>1 DEF Queue!Add, Q!Add, Queue!InApplication, Q!InApplication,
     Queue!HereAfterInsert, Q!HereAfterInsert, Queue!InsertAt, Q!InsertAt,
     Queue!kernel, Q!kernel
<1>3. \A flags : Queue!Return(flags) <=> Q!Return(flags)
  BY DEF Queue!Return, Q!Return, Queue!ClearBit, Q!ClearBit, Queue!DeletePos,
     Q!DeletePos, Queue!RemoveAt, Q!RemoveAt,
     Queue!HereAfterReturn, Q!HereAfterReturn
<1>4. Queue!SelectReturn <=> Q!SelectReturn
  BY DEF Queue!SelectReturn, Q!SelectReturn, Queue!Selected, Q!Selected,
     Queue!SelectResult, Q!SelectResult, Queue!kernel, Q!kernel
<1>5. Queue!Walk <=> Q!Walk
  BY DEF Queue!Walk, Q!Walk, Queue!VisitSkip, Q!VisitSkip, Queue!VisitCall,
     Q!VisitCall, Queue!WalkEnd, Q!WalkEnd, Queue!Rearm, Q!Rearm,
     Queue!kernel, Q!kernel, Queue!queue, Q!queue
<1>6. Queue!Sorted <=> Q!Sorted
  BY DEF Queue!Sorted, Q!Sorted
<1>7. Queue!WatchesAll <=> Q!WatchesAll
  BY DEF Queue!WatchesAll, Q!WatchesAll, Queue!Selected, Q!Selected,
     Queue!Members, Q!Members, Queue!ToSet, Q!ToSet
<1>8. QED BY <1>1, <1>2, <1>3, <1>4, <1>5, <1>6, <1>7

\* A step of the queue keeps the queue's invariant.
LEMMA QueueStep ==
  ASSUME Q!CoreInv,
         \/ \E f \in Fd : Queue!Add(f)
         \/ Queue!Return({}) \/ Queue!Return({"REM", "CLOSE"})
         \/ Queue!SelectReturn \/ Queue!Walk
  PROVE  Q!CoreInv'
<1> DEFINE Flags == {{}, {"REM", "CLOSE"}}
<1>1. \/ \E f \in Fd : Q!Add(f)
      \/ \E flags \in Flags : Q!Return(flags)
      \/ Q!SelectReturn \/ Q!Walk
  BY SameQueue
<1>2. Q!Next
  BY <1>1 DEF Q!Next, Q!Application, Q!Returns
<1>3. Q!TypeOK
  BY DEF Q!CoreInv
<1>4. Q!TypeOK'
  BY <1>2, <1>3, Q!TypeStep, FdAssumption DEF Q!TypeStep, Q!Flag, Q!vars
<1>5. CASE \E f \in Fd : Q!Add(f)
  BY <1>4, <1>5, Q!AddStep, FdAssumption DEF Q!AddStep, Q!Flag
<1>6. CASE \E flags \in Flags : Q!Return(flags)
  BY <1>4, <1>6, Q!ReturnStep, FdAssumption DEF Q!ReturnStep, Q!Flag
<1>7. CASE Q!SelectReturn
  BY <1>4, <1>7, Q!SelectStep, FdAssumption DEF Q!SelectStep, Q!Flag
<1>8. CASE Q!Walk
  BY <1>4, <1>8, Q!WalkStep, FdAssumption DEF Q!WalkStep, Q!Flag
<1>9. QED BY <1>1, <1>5, <1>6, <1>7, <1>8

\* What the daemon and the world do besides leaves the queue as it is, as long
\* as its members stay open.
LEMMA QueueKept ==
  ASSUME Q!CoreInv, TypeOK', UNCHANGED queueVars, MembersRead'
  PROVE  Q!CoreInv'
<1>1. ReadyFds' \subseteq OpenFds' /\ OpenFds' \subseteq Fd
  BY DEF ReadyFds, OpenFds, Free
<1>2. ToSet(members)' \subseteq OpenFds'
  <2>1. \A f \in ToSet(members)' : f \in Fd
    BY DEF queueVars, Q!CoreInv, Q!TypeOK, Q!ListIsWatched, Q!Members, Q!ToSet, ToSet
  <2>2. QED BY <2>1 DEF MembersRead, OpenFds, Free
<1>3. Q!TypeOK'
  BY <1>1, <1>2 DEF Q!CoreInv, Q!TypeOK, queueVars
<1>4. Q!Sorted' /\ Q!VisitedArmed' /\ Q!Members' = Q!Members
  BY DEF Q!CoreInv, Q!Sorted, Q!VisitedArmed, Q!Members, queueVars
<1>5. Q!ListIsWatched'
  BY <1>2, <1>4 DEF Q!ListIsWatched, Q!Members, Q!ToSet, ToSet
<1>6. QED BY <1>3, <1>4, <1>5 DEF Q!CoreInv, queueVars

---------------------------------------------------------------------------
(* The list of nodes.                                                      *)

LEMMA AppendSet ==
  ASSUME NEW S, NEW s \in Seq(S), NEW e \in S
  PROVE  ToSet(Append(s, e)) = ToSet(s) \cup {e}
BY LenProperties, ElementOfSeq, AppendProperties DEF ToSet

LEMMA TailSet ==
  ASSUME NEW S, NEW s \in Seq(S), s # <<>>
  PROVE  ToSet(s) = {Head(s)} \cup ToSet(Tail(s))
<1>1. /\ Head(s) = s[1] /\ Tail(s) \in Seq(S) /\ Len(s) \in Nat \ {0}
      /\ Len(Tail(s)) = Len(s) - 1
      /\ \A i \in 1 .. Len(Tail(s)) : Tail(s)[i] = s[i + 1]
  BY HeadTailProperties, EmptySeq, LenProperties
<1>2. DOMAIN s = 1 .. Len(s) /\ DOMAIN Tail(s) = 1 .. Len(s) - 1
  BY <1>1, LenProperties
<1>3. \A i \in 2 .. Len(s) : i - 1 \in 1 .. Len(s) - 1 /\ s[i] = Tail(s)[i - 1]
  BY <1>1
<1>4. \A i \in 1 .. Len(s) - 1 : i + 1 \in 1 .. Len(s) /\ Tail(s)[i] = s[i + 1]
  BY <1>1
<1>5. ToSet(s) \subseteq {Head(s)} \cup ToSet(Tail(s))
  <2> SUFFICES ASSUME NEW i \in 1 .. Len(s), i # 1 PROVE s[i] \in ToSet(Tail(s))
    BY <1>1, <1>2 DEF ToSet
  <2>1. i \in 2 .. Len(s)
    BY <1>1
  <2>2. QED BY <1>2, <1>3, <2>1 DEF ToSet
<1>6. {Head(s)} \cup ToSet(Tail(s)) \subseteq ToSet(s)
  BY <1>1, <1>2, <1>4 DEF ToSet
<1>7. QED BY <1>5, <1>6

\* readdir() adds to the end of what device_plugged is called for, if at all.
LEMMA ListedFacts ==
  ASSUME todo \in Seq(Node), NEW n \in Node, NEW t \in Listed(n)
  PROVE  /\ t \in Seq(Node) /\ ToSet(todo) \subseteq ToSet(t)
         /\ todo # <<>> => /\ t # <<>> /\ Head(t) = Head(todo)
                           /\ ToSet(Tail(todo)) \subseteq ToSet(Tail(t))
<1>1. CASE t = todo
  BY <1>1
<1>2. CASE t = Append(todo, n)
  <2>1. t \in Seq(Node) /\ ToSet(t) = ToSet(todo) \cup {n}
    BY <1>2, AppendSet, AppendProperties
  <2>2. ASSUME todo # <<>>
        PROVE  /\ t # <<>> /\ Head(t) = Head(todo)
               /\ ToSet(Tail(todo)) \subseteq ToSet(Tail(t))
    <3>1. Len(todo) \in Nat \ {0} /\ Len(t) = Len(todo) + 1 /\ t # <<>>
      BY <1>2, <2>2, AppendProperties, LenProperties, EmptySeq
    <3>2. \A i \in 1 .. Len(todo) : t[i] = todo[i]
      BY <1>2, AppendProperties
    <3>3. /\ Head(t) = t[1] /\ Head(todo) = todo[1]
          /\ Len(Tail(t)) = Len(t) - 1 /\ Len(Tail(todo)) = Len(todo) - 1
          /\ \A i \in 1 .. Len(Tail(t)) : Tail(t)[i] = t[i + 1]
          /\ \A i \in 1 .. Len(Tail(todo)) : Tail(todo)[i] = todo[i + 1]
          /\ Tail(t) \in Seq(Node) /\ Tail(todo) \in Seq(Node)
      BY <2>1, <2>2, <3>1, HeadTailProperties
    <3>4. /\ DOMAIN Tail(t) = 1 .. Len(todo) /\ DOMAIN Tail(todo) = 1 .. Len(todo) - 1
      BY <3>1, <3>3, LenProperties
    <3>5. \A i \in 1 .. Len(todo) - 1 : i \in 1 .. Len(todo) /\ Tail(todo)[i] = Tail(t)[i]
      <4> SUFFICES ASSUME NEW i \in 1 .. Len(todo) - 1
                   PROVE  i \in 1 .. Len(todo) /\ Tail(todo)[i] = Tail(t)[i]
        OBVIOUS
      <4>1. i + 1 \in 1 .. Len(todo) /\ i \in 1 .. Len(todo)
        BY <3>1
      <4>2. Tail(todo)[i] = todo[i + 1] /\ Tail(t)[i] = t[i + 1]
        BY <3>1, <3>3, <4>1
      <4>3. QED BY <3>2, <4>1, <4>2
    <3>6. ToSet(Tail(todo)) \subseteq ToSet(Tail(t))
      BY <3>4, <3>5 DEF ToSet
    <3>7. QED BY <3>1, <3>2, <3>3, <3>6
  <2>3. QED BY <2>1, <2>2
<1>3. QED BY <1>1, <1>2 DEF Listed

---------------------------------------------------------------------------
(* The kernel.                                                             *)

FileTable == [Fd -> [kind : Kind, node : Node \cup {NoNode}]]

\* What the queue's invariant says in terms of the daemon.
LEMMA QueueFacts ==
  ASSUME Q!CoreInv, Control
  PROVE  /\ members \in Seq(Fd) /\ ToSet(members) \subseteq OpenFds
         /\ pc = "call" => here \in DOMAIN members /\ Called \in ToSet(members)
<1>1. members \in Seq(Fd) /\ (pc = "call" => here \in DOMAIN members)
  BY DEF Q!CoreInv, Q!TypeOK
<1>2. ToSet(members) \subseteq OpenFds
  BY DEF Q!CoreInv, Q!ListIsWatched, Control
<1>3. pc = "call" => Called \in ToSet(members)
  <2>1. members \in [1 .. Len(members) -> Fd]
    BY <1>1, LenProperties
  <2>2. QED BY <1>1, <2>1 DEF ToSet, Called
<1>4. QED BY <1>1, <1>2, <1>3

\* An unplugged device changes the kind of its descriptors and nothing else.
LEMMA OrphanFacts ==
  ASSUME NEW fs \in FileTable, NEW n
  PROVE  /\ Orphan(fs, n) \in FileTable
         /\ \A f \in Fd : Orphan(fs, n)[f] = fs[f]
                          \/ (fs[f].kind = "event" /\ Orphan(fs, n)[f].kind = "gone")
BY DEF Orphan, FileTable, Kind

\* evf_uinput_destroy closes its own descriptor only.
LEMMA DestroyFacts ==
  ASSUME TypeOK, NEW fs \in FileTable, NEW u \in Fd, DestroyUinput(fs, u)
  PROVE  /\ file' \in FileTable
         /\ node' \in [Node -> {"none", "phys", "ours"}]
         /\ AliveOnly'
         /\ file'[u] = Free
         /\ \A f \in Fd \ {u} : file'[f] = fs[f]
                                \/ (fs[f].kind = "event" /\ file'[f].kind = "gone")
<1> DEFINE o == Orphan(fs, file[u].node)
<1>1. /\ o \in FileTable
      /\ \A f \in Fd : o[f] = fs[f] \/ (fs[f].kind = "event" /\ o[f].kind = "gone")
  BY OrphanFacts
<1>2. file' = [o EXCEPT ![u] = Free]
  BY DEF DestroyUinput
<1>3. Free \in [kind : Kind, node : Node \cup {NoNode}]
  BY DEF Free, Kind
<1> HIDE DEF o
<1>4. /\ file' \in FileTable /\ file'[u] = Free
      /\ \A f \in Fd \ {u} : file'[f] = o[f]
  BY <1>1, <1>2, <1>3 DEF FileTable
<1>5. node' \in [Node -> {"none", "phys", "ours"}]
  BY DEF DestroyUinput, TypeOK
<1>6. AliveOnly'
  BY DEF DestroyUinput, AliveOnly
<1>7. QED BY <1>1, <1>4, <1>5, <1>6

\* Devices come and go and produce events.
LEMMA KernelStep ==
  ASSUME Inv, Kernel
  PROVE  Inv'
<1>0. TypeOK /\ Control /\ MembersRead /\ AliveOnly /\ OwnOutput /\ Q!CoreInv
  BY DEF Inv
<1>1. CASE Plug
  <2>1. PICK n \in Lowest(FreeNodes) : /\ node' = [node EXCEPT ![n] = "phys"]
                                       /\ events' = Report(n)
                                       /\ todo' \in Listed(n)
                                       /\ between' \in {between, between \cup {n}}
    BY <1>1 DEF Plug
  <2>2. n \in Node
    BY <2>1 DEF Lowest, FreeNodes
  <2>3. UNCHANGED <<queueVars, at, ufd, lfd, errno, file, data, grabbed, line, mpc, looping,
                    noticed>>
    BY <1>1 DEF Plug
  <2>4. events' \in Seq(Node) /\ between' \subseteq Node
    BY <1>0, <2>1, <2>2 DEF Report, TypeOK
  <2>8. todo' \in Seq(Node) /\ (todo # <<>> => todo' # <<>>)
    BY <1>0, <2>1, <2>2, ListedFacts DEF TypeOK
  <2>5. TypeOK'
    BY <1>0, <2>1, <2>3, <2>4, <2>8 DEF TypeOK, OpenFds, queueVars
  <2>6. Control' /\ MembersRead' /\ AliveOnly' /\ OwnOutput'
    BY <1>0, <2>3, <2>8 DEF Control, MembersRead, AliveOnly, OwnOutput, Lines, Alive,
       queueVars
  <2>7. QED BY <1>0, <2>3, <2>5, <2>6, QueueKept DEF Inv
<1>2. ASSUME NEW n \in Node, Unplug(n) PROVE Inv'
  <2>1. file \in FileTable
    BY <1>0 DEF TypeOK, FileTable
  <2>2. /\ file' \in FileTable
        /\ \A f \in Fd : file'[f] = file[f]
                         \/ (file[f].kind = "event" /\ file'[f].kind = "gone")
    BY <1>2, <2>1, OrphanFacts DEF Unplug
  <2>3. UNCHANGED <<queueVars, plugVars, events, line, mpc, looping>>
    BY <1>2 DEF Unplug
  <2>4. AliveOnly'
    BY <1>2 DEF Unplug, AliveOnly
  <2>5. TypeOK'
    <3>1. Alive(file') \subseteq OpenFds'
      BY DEF Alive, OpenFds, Free
    <3>2. QED BY <1>0, <1>2, <2>2, <2>3, <2>4, <3>1
                 DEF TypeOK, Unplug, FileTable, AliveOnly, queueVars, plugVars
  <2>6. MembersRead' /\ Control' /\ OwnOutput'
    <3>1. \A f \in ToSet(members) : f \in Fd
      BY <1>0, QueueFacts DEF OpenFds
    <3>2. MembersRead'
      BY <1>0, <2>2, <2>3, <3>1 DEF MembersRead, queueVars
    <3>3. Control'
      BY <1>0, <2>2, <2>3 DEF Control, queueVars, plugVars
    <3>4. OwnOutput'
      BY <1>0, <2>2, <2>3 DEF OwnOutput, Lines, TypeOK
    <3>5. QED BY <3>2, <3>3, <3>4
  <2>7. QED BY <1>0, <2>3, <2>4, <2>5, <2>6, QueueKept DEF Inv
<1>3. ASSUME NEW n \in Node, Input(n) PROVE Inv'
  <2>1. UNCHANGED <<queueVars, plugVars, node, file, events, grabbed, line, mpc, looping, history>>
    BY <1>3 DEF Input
  <2>2. data' \subseteq Alive(file')
    BY <1>0, <1>3, <2>1 DEF Input, Receivers, Alive, AliveOnly
  <2>3. TypeOK'
    BY <1>0, <2>1, <2>2 DEF TypeOK, Alive, OpenFds, Free, queueVars, plugVars, history
  <2>4. Control' /\ MembersRead' /\ AliveOnly' /\ OwnOutput'
    BY <1>0, <2>1, <2>2 DEF Control, MembersRead, AliveOnly, OwnOutput, Lines,
       Alive, plugVars, queueVars
  <2>5. QED BY <1>0, <2>1, <2>3, <2>4, QueueKept DEF Inv
<1>4. QED BY <1>1, <1>2, <1>3 DEF Kernel

---------------------------------------------------------------------------
(* device_plugged.                                                         *)

LEMMA NextNodeFacts ==
  ASSUME todo \in Seq(Node), todo # <<>>, errno \in BOOLEAN,
         NEW failed \in BOOLEAN, NextNode(failed)
  PROVE  /\ at' = "check" /\ todo' \in Seq(Node) /\ errno' \in BOOLEAN
         /\ ufd' \in Fd \cup {NoFd} /\ lfd' \in Fd \cup {NoFd}
BY HeadTailProperties DEF NextNode

\* Steps of device_plugged that leave all descriptors and lines alone.
LEMMA CheckStep ==
  ASSUME Inv, CheckDevice \/ CreateFails
  PROVE  Inv'
<1>0. TypeOK /\ Control /\ MembersRead /\ AliveOnly /\ OwnOutput /\ Q!CoreInv
  BY DEF Inv
<1>1. todo # <<>> /\ Head(todo) \in Node
  BY <1>0, HeadTailProperties DEF CheckDevice, CreateFails, Control, TypeOK
<1>2. \/ at' = "create" /\ UNCHANGED <<todo, ufd, lfd, errno>>
      \/ \E failed \in BOOLEAN : NextNode(failed)
  BY DEF CheckDevice, CreateFails
<1>3. /\ at' \in {"check", "create"} /\ (at' = "create" => UNCHANGED todo)
      /\ todo' \in Seq(Node) /\ errno' \in BOOLEAN
      /\ ufd' \in Fd \cup {NoFd} /\ lfd' \in Fd \cup {NoFd}
  BY <1>0, <1>1, <1>2, NextNodeFacts DEF TypeOK
<1>4. UNCHANGED <<queueVars, kernelVars, line, mpc, looping>>
  BY DEF CheckDevice, CreateFails
<1>5. noticed' \subseteq Node /\ between' \subseteq Node
  BY <1>0, <1>1 DEF CheckDevice, CreateFails, TypeOK, history
<1>6. TypeOK'
  BY <1>0, <1>3, <1>4, <1>5 DEF TypeOK, OpenFds, kernelVars, queueVars, history
<1>7. MembersRead' /\ AliveOnly' /\ OwnOutput'
  BY <1>0, <1>4 DEF MembersRead, AliveOnly, Alive, OwnOutput, Lines, kernelVars, queueVars
<1>8. Control'
  BY <1>0, <1>1, <1>3, <1>4 DEF Control, queueVars
<1>9. QED BY <1>0, <1>4, <1>6, <1>7, <1>8, QueueKept DEF Inv

\* The descriptor of the new virtual device was free: no line has it yet.
LEMMA CreateUinputStep ==
  ASSUME Inv, CreateUinput
  PROVE  Inv'
<1>0. TypeOK /\ Control /\ MembersRead /\ AliveOnly /\ OwnOutput /\ Q!CoreInv
  BY DEF Inv
<1>1. PICK u \in Lowest(FreeFds), n \in Lowest(FreeNodes) :
        /\ file' = [file EXCEPT ![u] = [kind |-> "uinput", node |-> n]]
        /\ node' = [node EXCEPT ![n] = "ours"]
        /\ events' = Report(n)
        /\ todo' \in Listed(n)
        /\ ufd' = u
  BY DEF CreateUinput
<1>2. u \in Fd /\ file[u] = Free /\ n \in Node
  BY <1>1 DEF Lowest, FreeFds, OpenFds, FreeNodes
<1>3. /\ at = "create" /\ at' = "line"
      /\ UNCHANGED <<queueVars, data, grabbed, lfd, errno, line, mpc, looping, history>>
  BY DEF CreateUinput
<1>4. /\ file' \in FileTable /\ file'[u].kind = "uinput"
      /\ \A f \in Fd \ {u} : file'[f] = file[f]
  BY <1>0, <1>1, <1>2 DEF TypeOK, FileTable, Kind
<1>5. events' \in Seq(Node)
  BY <1>0, <1>1, <1>2 DEF Report, TypeOK
<1>13. todo' \in Seq(Node) /\ (todo # <<>> => todo' # <<>>)
  BY <1>0, <1>1, <1>2, ListedFacts DEF TypeOK
<1>6. u \notin ToSet(members) \cup Alive(file) /\ ToSet(members) \subseteq Fd
  BY <1>0, <1>2, QueueFacts DEF OpenFds, Alive, Free
<1>7. AliveOnly' /\ MembersRead'
  BY <1>0, <1>3, <1>4, <1>6 DEF AliveOnly, Alive, MembersRead, queueVars
<1>8. TypeOK'
  <2>1. Alive(file') \subseteq OpenFds'
    BY DEF Alive, OpenFds, Free
  <2>2. QED BY <1>0, <1>1, <1>2, <1>3, <1>4, <1>5, <1>7, <1>13, <2>1
               DEF TypeOK, FileTable, AliveOnly, queueVars, history
<1>9. \A f \in Fd : line[f] # u
  BY <1>0, <1>2, FdAssumption DEF OwnOutput, Lines, Free
<1>10. OwnOutput'
  <2>1. Lines' = Lines
    BY <1>3 DEF Lines
  <2>2. \A f \in Lines : f \in Fd \ {u} /\ line[f] \in Fd \ {u}
    BY <1>0, <1>2, <1>9 DEF Lines, TypeOK, OwnOutput, Free
  <2>3. QED BY <1>0, <1>3, <1>4, <2>1, <2>2 DEF OwnOutput
<1>11. Control'
  BY <1>0, <1>1, <1>2, <1>3, <1>4, <1>9, <1>13 DEF Control, queueVars
<1>12. QED BY <1>0, <1>3, <1>7, <1>8, <1>10, <1>11, QueueKept DEF Inv

\* The line's input takes a free descriptor, and the line the virtual device
\* that device_plugged has made for it.
LEMMA CreateLineStep ==
  ASSUME Inv, CreateLine
  PROVE  Inv'
<1>0. TypeOK /\ Control /\ MembersRead /\ AliveOnly /\ OwnOutput /\ Q!CoreInv
  BY DEF Inv
<1> DEFINE n == Head(todo)
<1>1. PICK f \in Lowest(FreeFds) :
        /\ file' = [file EXCEPT ![f] = [kind |-> "event", node |-> n]]
        /\ line' = [line EXCEPT ![f] = ufd]
        /\ lfd' = f
  BY DEF CreateLine, Output
<1>2. /\ at = "line" /\ at' = "add"
      /\ UNCHANGED <<queueVars, node, data, events, grabbed, todo, ufd, errno,
                     mpc, looping, history>>
  BY DEF CreateLine
<1>3. todo # <<>> /\ n \in Node
  BY <1>0, <1>2, HeadTailProperties DEF Control, TypeOK
<1>4. f \in Fd /\ file[f] = Free
  BY <1>1 DEF Lowest, FreeFds, OpenFds
<1> HIDE DEF n
<1>5. /\ file' \in FileTable /\ file'[f].kind = "event"
      /\ \A g \in Fd \ {f} : file'[g] = file[g]
  BY <1>0, <1>1, <1>3, <1>4 DEF TypeOK, FileTable, Kind
<1>6. /\ ufd \in Fd \ {f} /\ file[ufd].kind = "uinput"
      /\ \A g \in Fd : line[g] # ufd
  BY <1>0, <1>2, <1>4 DEF Control, Free
<1>7. /\ line' \in [Fd -> Fd \cup {NoFd}] /\ line'[f] = ufd
      /\ \A g \in Fd \ {f} : line'[g] = line[g]
  BY <1>0, <1>1, <1>4, <1>6 DEF TypeOK
<1>8. f \notin ToSet(members) \cup Alive(file) /\ ToSet(members) \subseteq Fd
  BY <1>0, <1>4, QueueFacts DEF OpenFds, Alive, Free
<1>9. AliveOnly' /\ MembersRead'
  BY <1>0, <1>2, <1>5, <1>8 DEF AliveOnly, Alive, MembersRead, queueVars
<1>10. TypeOK'
  <2>1. Alive(file') \subseteq OpenFds'
    BY DEF Alive, OpenFds, Free
  <2>2. QED BY <1>0, <1>1, <1>2, <1>4, <1>5, <1>7, <1>9, <2>1
               DEF TypeOK, FileTable, AliveOnly, queueVars, history
<1>11. OwnOutput'
  <2>1. \A g \in Fd : line[g] # f
    BY <1>0, <1>4, FdAssumption DEF OwnOutput, Lines, Free
  <2>2. ASSUME NEW g \in Lines'
        PROVE  /\ file'[g].kind \in {"event", "gone"} /\ file'[line'[g]].kind = "uinput"
               /\ \A h \in Lines' : line'[g] = line'[h] => g = h
    BY <1>0, <1>4, <1>5, <1>6, <1>7, <2>1 DEF OwnOutput, Lines, TypeOK
  <2>3. QED BY <2>2 DEF OwnOutput
<1>12. Control'
  BY <1>0, <1>1, <1>2, <1>3, <1>4, <1>5, <1>6, <1>7, <1>8 DEF Control, queueVars
<1>13. QED BY <1>0, <1>2, <1>9, <1>10, <1>11, <1>12, QueueKept DEF Inv

\* Both ways out after the virtual device was made destroy it, and what they
\* close no member and no line has.
LEMMA LineFailsStep ==
  ASSUME Inv, LineFails
  PROVE  Inv'
<1>0. TypeOK /\ Control /\ MembersRead /\ AliveOnly /\ OwnOutput /\ Q!CoreInv
  BY DEF Inv
<1>1. /\ at = "line" /\ DestroyUinput(file, ufd)
      /\ NextNode(node[Head(todo)] = "none")
      /\ UNCHANGED <<queueVars, events, line, mpc, looping, history>>
  BY DEF LineFails
<1>2. /\ todo # <<>> /\ ufd \in Fd /\ file[ufd].kind = "uinput"
      /\ \A f \in Fd : line[f] # ufd
  BY <1>0, <1>1 DEF Control
<1>3. /\ file' \in FileTable /\ AliveOnly'
      /\ node' \in [Node -> {"none", "phys", "ours"}]
      /\ \A f \in Fd \ {ufd} : file'[f] = file[f]
                               \/ (file[f].kind = "event" /\ file'[f].kind = "gone")
  BY <1>0, <1>1, <1>2, DestroyFacts DEF TypeOK, FileTable
<1>4. /\ at' = "check" /\ todo' \in Seq(Node) /\ errno' \in BOOLEAN
      /\ ufd' \in Fd \cup {NoFd} /\ lfd' \in Fd \cup {NoFd}
  <2>1. (node[Head(todo)] = "none") \in BOOLEAN
    OBVIOUS
  <2>2. QED BY <1>0, <1>1, <1>2, <2>1, NextNodeFacts DEF TypeOK
<1>5. TypeOK'
  <2>1. Alive(file') \subseteq OpenFds'
    BY DEF Alive, OpenFds, Free
  <2>2. QED BY <1>0, <1>1, <1>3, <1>4, <2>1 DEF TypeOK, FileTable, AliveOnly, queueVars, history
<1>6. MembersRead'
  <2>1. \A f \in ToSet(members) : f \in Fd \ {ufd}
    BY <1>0, <1>2, QueueFacts DEF OpenFds, MembersRead
  <2>2. QED BY <1>0, <1>1, <1>3, <2>1 DEF MembersRead, queueVars
<1>7. OwnOutput'
  <2>1. Lines' = Lines
    BY <1>1 DEF Lines
  <2>2. \A f \in Lines : f \in Fd \ {ufd} /\ line[f] \in Fd \ {ufd}
    BY <1>0, <1>2 DEF Lines, TypeOK, OwnOutput
  <2>3. QED BY <1>0, <1>1, <1>3, <2>1, <2>2 DEF OwnOutput
<1>8. Control'
  BY <1>0, <1>1, <1>4 DEF Control, queueVars
<1>9. QED BY <1>0, <1>1, <1>3, <1>5, <1>6, <1>7, <1>8, QueueKept DEF Inv

LEMMA AddFailsStep ==
  ASSUME Inv, AddFails
  PROVE  Inv'
<1> DEFINE fs == [file EXCEPT ![lfd] = Free]
<1>0. TypeOK /\ Control /\ MembersRead /\ AliveOnly /\ OwnOutput /\ Q!CoreInv
  BY DEF Inv
<1>1. /\ at = "add" /\ DestroyUinput(fs, ufd)
      /\ line' = [line EXCEPT ![lfd] = NoFd]
      /\ NextNode(TRUE)
      /\ UNCHANGED <<queueVars, events, mpc, looping, history>>
  BY DEF AddFails
<1>2. /\ todo # <<>> /\ ufd \in Fd /\ file[ufd].kind = "uinput"
      /\ lfd \in Fd \ {ufd} /\ lfd \notin ToSet(members) /\ line[lfd] = ufd
  BY <1>0, <1>1 DEF Control
<1>3. /\ fs \in FileTable /\ \A f \in Fd \ {lfd} : fs[f] = file[f]
  <2>1. Free \in [kind : Kind, node : Node \cup {NoNode}]
    BY DEF Free, Kind
  <2>2. QED BY <1>0, <1>2, <2>1 DEF TypeOK, FileTable
<1> HIDE DEF fs
<1>4. /\ file' \in FileTable /\ AliveOnly'
      /\ node' \in [Node -> {"none", "phys", "ours"}]
      /\ \A f \in Fd \ {ufd} : file'[f] = fs[f]
                               \/ (fs[f].kind = "event" /\ file'[f].kind = "gone")
  BY <1>0, <1>1, <1>2, <1>3, DestroyFacts
<1>5. \A f \in Fd \ {ufd, lfd} :
        file'[f] = file[f] \/ (file[f].kind = "event" /\ file'[f].kind = "gone")
  BY <1>3, <1>4
<1>6. /\ line' \in [Fd -> Fd \cup {NoFd}] /\ line'[lfd] = NoFd
      /\ \A f \in Fd \ {lfd} : line'[f] = line[f]
  BY <1>0, <1>1, <1>2 DEF TypeOK
<1>7. /\ at' = "check" /\ todo' \in Seq(Node) /\ errno' \in BOOLEAN
      /\ ufd' \in Fd \cup {NoFd} /\ lfd' \in Fd \cup {NoFd}
  BY <1>0, <1>1, <1>2, NextNodeFacts DEF TypeOK
<1>8. TypeOK'
  <2>1. Alive(file') \subseteq OpenFds'
    BY DEF Alive, OpenFds, Free
  <2>2. QED BY <1>0, <1>1, <1>4, <1>6, <1>7, <2>1
               DEF TypeOK, FileTable, AliveOnly, queueVars, history
<1>9. MembersRead'
  <2>1. \A f \in ToSet(members) : f \in Fd \ {ufd, lfd}
    BY <1>0, <1>2, QueueFacts DEF OpenFds, MembersRead
  <2>2. QED BY <1>0, <1>1, <1>5, <2>1 DEF MembersRead, queueVars
<1>10. OwnOutput'
  <2>1. \A f \in Lines' : f \in Lines /\ f # lfd /\ line'[f] = line[f]
    BY <1>6 DEF Lines
  <2>2. \A f \in Lines' : f \in Fd \ {ufd, lfd} /\ line[f] \in Fd \ {ufd, lfd}
    <3>1. lfd \in Lines
      BY <1>2, FdAssumption DEF Lines
    <3>2. file[lfd].kind \in {"event", "gone"}
      BY <1>0, <3>1 DEF OwnOutput
    <3>3. QED BY <1>0, <1>2, <2>1, <3>1, <3>2 DEF Lines, TypeOK, OwnOutput
  <2>3. QED BY <1>0, <1>5, <2>1, <2>2 DEF OwnOutput
<1>11. Control'
  BY <1>0, <1>1, <1>7 DEF Control, queueVars
<1>12. QED BY <1>0, <1>1, <1>4, <1>8, <1>9, <1>10, <1>11, QueueKept DEF Inv

\* Only the descriptor of the new line is added, and it is grabbed if it can be.
LEMMA AddLineStep ==
  ASSUME Inv, AddLine
  PROVE  Inv'
<1>0. TypeOK /\ Control /\ MembersRead /\ AliveOnly /\ OwnOutput /\ Q!CoreInv
  BY DEF Inv
<1>1. /\ at = "add" /\ Queue!Add(lfd) /\ grabbed' = Grab(lfd)
      /\ NextNode(lfd \notin Grab(lfd))
      /\ UNCHANGED <<node, file, data, events, line, mpc, looping, history>>
  BY DEF AddLine
<1>2. todo # <<>> /\ lfd \in Fd /\ file[lfd].kind \in {"event", "gone"}
  BY <1>0, <1>1 DEF Control
<1>3. Q!CoreInv'
  BY <1>0, <1>1, <1>2, QueueStep
<1>4. pc' = pc /\ ToSet(members)' = ToSet(members) \cup {lfd}
  BY <1>1 DEF Queue!Add
<1>5. /\ at' = "check" /\ todo' \in Seq(Node) /\ errno' \in BOOLEAN
      /\ ufd' \in Fd \cup {NoFd} /\ lfd' \in Fd \cup {NoFd}
  <2>1. (lfd \notin Grab(lfd)) \in BOOLEAN
    OBVIOUS
  <2>2. QED BY <1>0, <1>1, <1>2, <2>1, NextNodeFacts DEF TypeOK
<1>6. AliveOnly'
  BY <1>0, <1>1, <1>2 DEF AliveOnly, Grab, Alive
<1>7. MembersRead' /\ OwnOutput'
  BY <1>0, <1>1, <1>2, <1>4 DEF MembersRead, OwnOutput, Lines
<1>8. TypeOK'
  <2>1. Alive(file') \subseteq OpenFds'
    BY DEF Alive, OpenFds, Free
  <2>2. members' \in Seq(Fd)
    BY <1>3 DEF Q!CoreInv, Q!TypeOK
  <2>3. QED BY <1>0, <1>1, <1>5, <1>6, <2>1, <2>2 DEF TypeOK, AliveOnly, history
<1>9. Control'
  BY <1>0, <1>1, <1>4, <1>5 DEF Control
<1>10. QED BY <1>3, <1>6, <1>7, <1>8, <1>9 DEF Inv

LEMMA PluggingStep ==
  ASSUME Inv, Plugging
  PROVE  Inv'
BY CheckStep, CreateUinputStep, CreateLineStep, LineFailsStep, AddFailsStep, AddLineStep
   DEF Plugging

---------------------------------------------------------------------------
(* main() and the callbacks.                                               *)

\* What walk() finds is listed once, in some order.
LEMMA OpenDirStep ==
  ASSUME Inv, OpenDir
  PROVE  Inv'
<1>0. TypeOK /\ Control /\ MembersRead /\ AliveOnly /\ OwnOutput /\ Q!CoreInv
  BY DEF Inv
<1>1. /\ mpc = "init" /\ mpc' = "walk" /\ at' = "check"
      /\ todo' \in SetToSeqs(Node \ FreeNodes)
      /\ UNCHANGED <<queueVars, kernelVars, ufd, lfd, errno, line, looping, history>>
  BY DEF OpenDir
<1>2. todo' \in Seq(Node)
  <2>1. IsFiniteSet(Node \ FreeNodes)
    BY NodeAssumption, FS_Subset
  <2>2. Cardinality(Node \ FreeNodes) \in Nat
    BY <2>1, FS_CardinalityType
  <2>3. todo' \in [1 .. Cardinality(Node \ FreeNodes) -> Node \ FreeNodes]
    BY <1>1 DEF SetToSeqs
  <2>4. todo' \in [1 .. Cardinality(Node \ FreeNodes) -> Node]
    BY <2>3
  <2>5. QED BY <2>2, <2>4, SeqDef
<1>3. TypeOK'
  BY <1>0, <1>1, <1>2 DEF TypeOK, OpenFds, kernelVars, queueVars, history
<1>4. MembersRead' /\ AliveOnly' /\ OwnOutput' /\ Control'
  BY <1>0, <1>1 DEF MembersRead, AliveOnly, Alive, OwnOutput, Lines, Control,
                    kernelVars, queueVars
<1>5. QED BY <1>0, <1>1, <1>3, <1>4, QueueKept DEF Inv

\* The watch is opened and queued while the queue is idle.
LEMMA WatchStep ==
  ASSUME Inv, Watch
  PROVE  Inv'
<1>0. TypeOK /\ Control /\ MembersRead /\ AliveOnly /\ OwnOutput /\ Q!CoreInv
  BY DEF Inv
<1>1. PICK h \in Lowest(FreeFds) :
        /\ file' = [file EXCEPT ![h] = [kind |-> "inotify", node |-> NoNode]]
        /\ \E p \in Queue!InsertPos(members, h) : members' = InsertAt(members, p, h)
        /\ rfds' = rfds \cup {h}
  BY DEF Watch
<1>2. /\ mpc = "walk" /\ mpc' = "test" /\ at' = "off"
      /\ UNCHANGED <<cnt, pc, here, node, data, events, grabbed, todo, ufd, lfd,
                     errno, line, looping, history>>
  BY DEF Watch
<1>3. PICK p \in Q!InsertPos(members, h) : members' = InsertAt(members, p, h)
  BY <1>1, SameQueue
<1>4. h \in Fd /\ file[h] = Free /\ h \notin ToSet(members)
  BY <1>0, <1>1, QueueFacts DEF Lowest, FreeFds, OpenFds
<1>5. members \in Seq(Fd) /\ Fd \in SUBSET Nat /\ Len(members) \in Nat
  BY <1>0, QueueFacts, FdAssumption, LenProperties
<1>6. /\ members' \in Seq(Fd) /\ Q!Sorted'
      /\ ToSet(members)' = ToSet(members) \cup {h}
  <2>1. Q!Descending(members)
    BY <1>0, <1>5, Q!ListFacts, FdAssumption DEF Q!ListFacts, Q!CoreInv, Q!Flag
  <2>2. members' = Q!InsertAt(members, p, h) /\ h \notin Q!ToSet(members)
    BY <1>3, <1>4 DEF InsertAt, Q!InsertAt, ToSet, Q!ToSet
  <2>3. /\ Q!Descending(Q!InsertAt(members, p, h))
        /\ Q!ToSet(Q!InsertAt(members, p, h)) = Q!ToSet(members) \cup {h}
    BY <1>4, <1>5, <2>1, <2>2, Q!InsertDescending, FdAssumption
       DEF Q!InsertDescending, Q!Flag
  <2>4. p \in 1 .. Len(members) + 1
    BY <1>5 DEF Q!InsertPos
  <2>5. members' \in Seq(Fd)
    BY <1>3, <1>4, <1>5, <2>4, InsertAtFacts
  <2>6. Q!Descending(members')
    BY <2>2, <2>3
  <2>7. DOMAIN members' = 1 .. Len(members')
    BY <2>5, LenProperties
  <2>8. Q!Sorted'
    BY <2>6, <2>7 DEF Q!Sorted, Q!Descending
  <2>9. QED BY <2>2, <2>3, <2>5, <2>8 DEF ToSet, Q!ToSet
<1>7. /\ file' \in FileTable /\ file'[h].kind = "inotify"
      /\ \A f \in Fd \ {h} : file'[f] = file[f]
  BY <1>0, <1>1, <1>4 DEF TypeOK, FileTable, Kind
<1>8. ToSet(members) \subseteq Fd
  BY <1>0, QueueFacts DEF OpenFds
<1>9. MembersRead' /\ AliveOnly'
  BY <1>0, <1>2, <1>4, <1>6, <1>7, <1>8 DEF MembersRead, AliveOnly, Alive, Free
<1>10. TypeOK'
  <2>1. Alive(file') \subseteq OpenFds'
    BY DEF Alive, OpenFds, Free
  <2>2. QED BY <1>0, <1>2, <1>6, <1>7, <1>9, <2>1 DEF TypeOK, FileTable, AliveOnly, history
<1>11. OwnOutput'
  <2>1. Lines' = Lines
    BY <1>2 DEF Lines
  <2>2. \A f \in Lines : f \in Fd \ {h} /\ line[f] \in Fd \ {h}
    <3>1. \A f \in Lines : f \in Fd /\ line[f] \in Fd
      BY <1>0 DEF Lines, TypeOK
    <3>2. \A f \in Lines : f # h /\ line[f] # h
      BY <1>0, <1>4 DEF OwnOutput, Free
    <3>3. QED BY <3>1, <3>2
  <2>3. QED BY <1>0, <1>2, <1>7, <2>1, <2>2 DEF OwnOutput
<1>12. Control' /\ pc = "idle"
  BY <1>0, <1>2 DEF Control
<1>13. Q!CoreInv'
  <2>1. ReadyFds' \subseteq OpenFds' /\ OpenFds' \subseteq Fd
    BY DEF ReadyFds, OpenFds, Free
  <2>2. ToSet(members)' \subseteq OpenFds'
    BY <1>4, <1>6, <1>8, <1>9 DEF MembersRead, OpenFds, Free
  <2>3. here = 0 /\ rfds \subseteq ToSet(members) /\ ToSet(members) \subseteq rfds
        /\ rfds \subseteq Fd /\ fresh \subseteq Fd /\ cnt \in 0 .. 1 - 1
    BY <1>0, <1>12 DEF Q!CoreInv, Q!TypeOK, Q!VisitedArmed, Q!Members, Q!ToSet, ToSet
  <2>4. fresh' \subseteq Fd
    BY <1>4, <2>3 DEF Watch, Lowest, FreeFds
  <2>5. Q!TypeOK'
    BY <1>2, <1>1, <1>4, <1>6, <1>12, <2>1, <2>2, <2>3, <2>4, LenProperties DEF Q!TypeOK
  <2>6. Q!Members' = ToSet(members)'
    BY DEF Q!Members, Q!ToSet, ToSet
  <2>7. Q!VisitedArmed'
    BY <1>1, <1>2, <1>6, <1>12, <2>3, <2>6 DEF Q!VisitedArmed
  <2>8. QED BY <1>1, <1>2, <1>6, <1>12, <2>2, <2>3, <2>5, <2>6, <2>7
               DEF Q!CoreInv, Q!ListIsWatched
<1>14. QED BY <1>9, <1>10, <1>11, <1>12, <1>13 DEF Inv

\* The end of the process.
LEMMA EndStep ==
  ASSUME Inv, ProcessEnds, mpc # "wait"
  PROVE  Inv'
<1>0. TypeOK /\ Control /\ Q!CoreInv /\ pc = "idle"
  BY DEF Inv, Control
<1>1. file' \in FileTable /\ \A f \in Fd : file'[f] = Free
  BY DEF ProcessEnds, FileTable, Free, Kind
<1>2. /\ node' \in [Node -> {"none", "phys", "ours"}]
      /\ line' = [f \in Fd |-> NoFd]
      /\ data' = {} /\ grabbed' = {} /\ events' = <<>>
      /\ noticed' = {} /\ between' = {}
      /\ members' = <<>> /\ rfds' = {} /\ fresh' = {}
      /\ mpc' = "done" /\ at' = "off" /\ errno' = FALSE
      /\ UNCHANGED <<cnt, pc, here, todo, ufd, lfd, looping>>
  BY <1>0 DEF ProcessEnds, TypeOK
<1>3. TypeOK'
  <2>1. line' \in [Fd -> Fd \cup {NoFd}] /\ members' \in Seq(Fd) /\ events' \in Seq(Node)
    BY <1>2
  <2>2. file' \in [Fd -> [kind : Kind, node : Node \cup {NoNode}]]
    BY <1>1 DEF FileTable
  <2>3. QED BY <1>0, <1>2, <2>1, <2>2 DEF TypeOK, history
<1>4. ToSet(members)' = {}
  BY <1>2 DEF ToSet
<1>5. Control' /\ MembersRead' /\ AliveOnly' /\ OwnOutput'
  BY <1>0, <1>2, <1>4 DEF Control, MembersRead, AliveOnly, OwnOutput, Lines
<1>6. Q!CoreInv'
  <2>1. ReadyFds' \subseteq OpenFds' /\ OpenFds' \subseteq Fd
    BY DEF ReadyFds, OpenFds, Free
  <2>2. here = 0 /\ cnt \in 0 .. 1 - 1
    BY <1>0 DEF Q!CoreInv, Q!TypeOK
  <2>3. Q!TypeOK'
    BY <1>0, <1>2, <1>4, <2>1, <2>2 DEF Q!TypeOK
  <2>4. Q!Members' = {}
    BY <1>2 DEF Q!Members, Q!ToSet
  <2>5. QED BY <1>0, <1>2, <1>4, <2>3, <2>4
               DEF Q!CoreInv, Q!Sorted, Q!VisitedArmed, Q!ListIsWatched
<1>7. QED BY <1>3, <1>5, <1>6 DEF Inv

\* The main loop around select(), and the signal that ends it.
LEMMA LoopStep ==
  ASSUME Inv, Test \/ Enter \/ Select \/ Walk \/ Signal \/ UNCHANGED vars
  PROVE  Inv'
<1>0. TypeOK /\ Control /\ MembersRead /\ AliveOnly /\ OwnOutput /\ Q!CoreInv
  BY DEF Inv
<1>1. /\ UNCHANGED <<kernelVars, plugVars, line, history>>
      /\ looping' \in BOOLEAN
      /\ mpc' \in {"init", "walk", "test", "enter", "select", "wait", "done"}
  BY <1>0 DEF Test, Enter, Select, Walk, Signal, vars, TypeOK
<1>2. CASE Test \/ Enter \/ Signal \/ UNCHANGED vars
  <2>1. UNCHANGED queueVars
    BY <1>2 DEF Test, Enter, Signal, vars
  <2>2. mpc' # "wait" => pc = "idle"
    BY <1>0, <1>2 DEF Control, Test, Enter, Signal, vars
  <2>3. TypeOK'
    BY <1>0, <1>1, <2>1 DEF TypeOK, OpenFds, kernelVars, plugVars, queueVars, history
  <2>4. MembersRead' /\ AliveOnly' /\ OwnOutput' /\ Control'
    BY <1>0, <1>1, <2>1, <2>2 DEF MembersRead, AliveOnly, Alive, OwnOutput, Lines,
       Control, kernelVars, plugVars, queueVars
  <2>5. QED BY <1>0, <2>1, <2>3, <2>4, QueueKept DEF Inv
<1>3. CASE Select \/ Walk
  <2>1. Queue!SelectReturn \/ Queue!Walk
    BY <1>3 DEF Select, Walk
  <2>2. Q!CoreInv'
    BY <1>0, <2>1, QueueStep
  <2>3. members' = members
    BY <2>1 DEF Queue!SelectReturn, Queue!Walk, Queue!VisitSkip, Queue!VisitCall,
                Queue!WalkEnd, Queue!queue
  <2>4. pc' # "destroyed" /\ (mpc' # "wait" => pc' = "idle")
    BY <1>3 DEF Select, Walk, Queue!SelectReturn, Queue!Walk, Queue!VisitSkip,
                Queue!VisitCall, Queue!WalkEnd
  <2>5. TypeOK'
    BY <1>0, <1>1, <2>3 DEF TypeOK, OpenFds, kernelVars, plugVars, history
  <2>6. MembersRead' /\ AliveOnly' /\ OwnOutput' /\ Control'
    BY <1>0, <1>1, <2>3, <2>4 DEF MembersRead, AliveOnly, Alive, OwnOutput, Lines,
       Control, kernelVars, plugVars
  <2>7. QED BY <2>2, <2>5, <2>6 DEF Inv
<1>4. QED BY <1>2, <1>3

LEMMA MainStep ==
  ASSUME Inv, Main
  PROVE  Inv'
<1>1. CASE WatchFails \/ Cleanup
  BY <1>1, EndStep DEF WatchFails, Cleanup
<1>2. QED BY <1>1, OpenDirStep, WatchStep, LoopStep DEF Main

\* The callback of the watch takes the nodes that were reported, and goes on
\* when device_plugged has been called for each.
LEMMA RescanStep ==
  ASSUME Inv, Rescan \/ RescanReturns
  PROVE  Inv'
<1>0. TypeOK /\ Control /\ MembersRead /\ AliveOnly /\ OwnOutput /\ Q!CoreInv
  BY DEF Inv
<1>1. CASE Rescan
  <2>1. /\ at' = "check" /\ todo' = events /\ events' = <<>>
        /\ UNCHANGED <<queueVars, node, file, data, grabbed, ufd, lfd, errno, line,
                       mpc, looping, history>>
    BY <1>1 DEF Rescan, Batch
  <2>2. TypeOK'
    BY <1>0, <2>1 DEF TypeOK, OpenFds, queueVars, history
  <2>3. MembersRead' /\ AliveOnly' /\ OwnOutput' /\ Control'
    BY <1>0, <2>1 DEF MembersRead, AliveOnly, Alive, OwnOutput, Lines, Control, queueVars
  <2>4. QED BY <1>0, <2>1, <2>2, <2>3, QueueKept DEF Inv
<1>2. CASE RescanReturns
  <2>1. /\ Queue!Return({}) /\ at' = "off"
        /\ UNCHANGED <<kernelVars, todo, ufd, lfd, errno, line, mpc, looping, history>>
    BY <1>2 DEF RescanReturns
  <2>2. Q!CoreInv'
    BY <1>0, <2>1, QueueStep
  <2>3. pc = "call" /\ pc' = "walk" /\ members' = members
    BY <2>1 DEF Queue!Return
  <2>4. TypeOK'
    BY <1>0, <2>1, <2>3 DEF TypeOK, OpenFds, kernelVars, history
  <2>5. MembersRead' /\ AliveOnly' /\ OwnOutput' /\ Control'
    BY <1>0, <2>1, <2>3 DEF MembersRead, AliveOnly, Alive, OwnOutput, Lines, Control,
                            kernelVars
  <2>6. QED BY <2>2, <2>4, <2>5 DEF Inv
<1>3. QED BY <1>1, <1>2

\* A line reads its device and writes to its virtual one.
LEMMA ReadStep ==
  ASSUME Inv, Read \/ ReadReturns
  PROVE  Inv'
<1>0. TypeOK /\ Control /\ MembersRead /\ AliveOnly /\ OwnOutput /\ Q!CoreInv
  BY DEF Inv
<1>1. CASE Read
  <2>1. /\ at' = "read"
        /\ UNCHANGED <<queueVars, node, file, events, grabbed, todo, ufd, lfd, errno,
                       line, mpc, looping, history>>
    BY <1>1 DEF Read
  <2>2. data' \subseteq Alive(file')
    BY <1>0, <1>1, <2>1 DEF Read, Receivers, Alive, AliveOnly
  <2>3. Alive(file') \subseteq OpenFds'
    BY DEF Alive, OpenFds, Free
  <2>4. AliveOnly'
    BY <1>0, <2>1, <2>2 DEF AliveOnly
  <2>5. TypeOK'
    BY <1>0, <2>1, <2>3, <2>4 DEF TypeOK, AliveOnly, queueVars, history
  <2>6. MembersRead' /\ OwnOutput' /\ Control'
    BY <1>0, <2>1 DEF MembersRead, OwnOutput, Lines, Control, queueVars
  <2>7. QED BY <1>0, <2>1, <2>4, <2>5, <2>6, QueueKept DEF Inv
<1>2. CASE ReadReturns
  <2>1. /\ Queue!Return({}) /\ at' = "off"
        /\ UNCHANGED <<kernelVars, todo, ufd, lfd, errno, line, mpc, looping, history>>
    BY <1>2 DEF ReadReturns
  <2>2. Q!CoreInv'
    BY <1>0, <2>1, QueueStep
  <2>3. pc = "call" /\ pc' = "walk" /\ members' = members
    BY <2>1 DEF Queue!Return
  <2>4. TypeOK'
    BY <1>0, <2>1, <2>3 DEF TypeOK, OpenFds, kernelVars, history
  <2>5. MembersRead' /\ AliveOnly' /\ OwnOutput' /\ Control'
    BY <1>0, <2>1, <2>3 DEF MembersRead, AliveOnly, Alive, OwnOutput, Lines, Control,
                            kernelVars
  <2>6. QED BY <2>2, <2>4, <2>5 DEF Inv
<1>3. QED BY <1>1, <1>2

\* The line of a device that is gone closes its descriptor and is taken out of
\* the queue in one step: the descriptor was in nobody else's hands.
LEMMA ReadGoneStep ==
  ASSUME Inv, ReadGone
  PROVE  Inv'
<1> DEFINE g == Called
<1>0. TypeOK /\ Control /\ MembersRead /\ AliveOnly /\ OwnOutput /\ Q!CoreInv
  BY DEF Inv
<1>1. /\ pc = "call" /\ at = "off" /\ file[g].kind = "gone"
      /\ file' = [file EXCEPT ![g] = Free]
      /\ line' = [line EXCEPT ![g] = NoFd]
      /\ Queue!Return({"REM", "CLOSE"})
      /\ UNCHANGED <<node, data, events, grabbed, plugVars, mpc, looping, history>>
  BY DEF ReadGone, InCallback, CloseFile, GoneResult
<1>2. g \in ToSet(members) /\ ToSet(members) \subseteq Fd
  BY <1>0, <1>1, QueueFacts DEF OpenFds
<1>3. Q!CoreInv'
  BY <1>0, <1>1, QueueStep
<1>4. pc' = "walk" /\ ToSet(members)' = ToSet(members) \ {g}
  BY <1>1 DEF Queue!Return, Called
<1> HIDE DEF g
<1>5. /\ file' \in FileTable
      /\ \A f \in Fd \ {g} : file'[f] = file[f]
  <2>1. Free \in [kind : Kind, node : Node \cup {NoNode}]
    BY DEF Free, Kind
  <2>2. QED BY <1>0, <1>1, <1>2, <2>1 DEF TypeOK, FileTable
<1>6. /\ line' \in [Fd -> Fd \cup {NoFd}] /\ line'[g] = NoFd
      /\ \A f \in Fd \ {g} : line'[f] = line[f]
  BY <1>0, <1>1, <1>2 DEF TypeOK
<1>7. AliveOnly'
  BY <1>0, <1>1, <1>2, <1>5 DEF AliveOnly, Alive
<1>8. MembersRead'
  BY <1>0, <1>2, <1>4, <1>5 DEF MembersRead
<1>9. TypeOK'
  <2>1. Alive(file') \subseteq OpenFds'
    BY DEF Alive, OpenFds, Free
  <2>2. members' \in Seq(Fd)
    BY <1>3 DEF Q!CoreInv, Q!TypeOK
  <2>3. QED BY <1>0, <1>1, <1>5, <1>6, <1>7, <2>1, <2>2
               DEF TypeOK, FileTable, AliveOnly, plugVars, history
<1>10. OwnOutput'
  <2>1. \A f \in Lines' : f \in Lines /\ f \in Fd \ {g} /\ line'[f] = line[f]
    BY <1>6 DEF Lines
  <2>2. \A f \in Lines' : line[f] \in Fd \ {g}
    BY <1>0, <1>1, <2>1 DEF Lines, TypeOK, OwnOutput
  <2>3. QED BY <1>0, <1>5, <2>1, <2>2 DEF OwnOutput
<1>11. Control'
  BY <1>0, <1>1, <1>4 DEF Control, plugVars
<1>12. QED BY <1>3, <1>7, <1>8, <1>9, <1>10, <1>11 DEF Inv

---------------------------------------------------------------------------
(* The theorems.                                                           *)

LEMMA InvInit == Init => Inv
<1> SUFFICES ASSUME Init PROVE Inv
  OBVIOUS
<1>1. TypeOK
  <2>1. /\ node \in [Node -> {"none", "phys", "ours"}]
        /\ line \in [Fd -> Fd \cup {NoFd}]
        /\ members \in Seq(Fd) /\ events \in Seq(Node) /\ todo \in Seq(Node)
    BY DEF Init
  <2>2. file \in [Fd -> [kind : Kind, node : Node \cup {NoNode}]]
    BY DEF Init, Free, Kind
  <2>3. QED BY <2>1, <2>2 DEF Init, TypeOK
<1>2. ToSet(members) = {} /\ Q!Members = {}
  BY DEF Init, ToSet, Q!ToSet, Q!Members
<1>3. Control /\ MembersRead /\ AliveOnly /\ OwnOutput
  BY <1>2 DEF Init, Control, MembersRead, AliveOnly, OwnOutput, Lines
<1>4. Q!CoreInv
  <2>1. ReadyFds \subseteq OpenFds /\ OpenFds \subseteq Fd
    BY DEF ReadyFds, OpenFds, Free
  <2>2. Q!TypeOK
    BY <1>2, <2>1 DEF Init, Q!TypeOK
  <2>3. QED BY <1>2, <2>2 DEF Init, Q!CoreInv, Q!Sorted, Q!VisitedArmed, Q!ListIsWatched
<1>5. QED BY <1>1, <1>3, <1>4 DEF Inv

LEMMA InvStep == Inv /\ [Next]_vars => Inv'
<1>1. ASSUME Inv, Callback PROVE Inv'
  BY <1>1, RescanStep, ReadStep, ReadGoneStep DEF Callback
<1>2. QED BY <1>1, PluggingStep, MainStep, KernelStep, LoopStep DEF Next, Daemon

\* At every moment the daemon can call select(), the set it hands over is its
\* queue, in order, and every descriptor of it is open: whatever devices were
\* plugged in and unplugged, whatever failed, and for every number of them.
THEOREM QueueStaysSound == Spec => []QueueSound
<1>1. Inv => QueueSound
  <2> SUFFICES ASSUME Inv PROVE QueueSound
    OBVIOUS
  <2>1. Q!CoreInv /\ TypeOK
    BY DEF Inv
  <2>2. Q!IInv
    BY <2>1, Q!CoreIsIInv, FdAssumption DEF Q!CoreIsIInv, Q!Flag
  <2>3. QED BY <2>1, <2>2, SameQueue DEF QueueSound, Q!IInv
<1>2. QED BY <1>1, InvInit, InvStep, PTL DEF Spec

\* No two lines write to the same virtual device, and none to a descriptor that
\* has become something else: the numbers are reused, never shared.
THEOREM OutputsStayOwn == Spec => []OwnOutput
<1>1. Inv => OwnOutput
  BY DEF Inv
<1>2. QED BY <1>1, InvInit, InvStep, PTL DEF Spec

---------------------------------------------------------------------------
(* The lines and the devices they read.                                    *)

\* Steps that change neither what a descriptor is, nor a line, nor a node.
Quiet == UNCHANGED <<node, file, line>>

LEMMA QuietSteps ==
  ASSUME [Next]_vars
  PROVE  \/ Quiet
         \/ Plug \/ \E n \in Node : Unplug(n)
         \/ CreateUinput \/ CreateLine \/ LineFails \/ AddFails
         \/ Watch \/ WatchFails \/ Cleanup \/ ReadGone
BY DEF Quiet, Next, Daemon, Kernel, Plugging, Main, Callback, Input, CheckDevice,
   CreateFails, AddLine, OpenDir, Test, Enter, Select, Walk, Signal, Rescan,
   RescanReturns, Read, ReadReturns, kernelVars, vars

\* A quiet step of device_plugged does not enter evf_line_create, and enters
\* evf_uinput_create only for a physical device.
LEMMA QuietControl ==
  ASSUME [Next]_vars, Quiet, Inv
  PROVE  \/ at' \notin {"create", "line"}
         \/ at' = at /\ UNCHANGED <<todo, ufd>>
         \/ at' = "create" /\ todo' = todo /\ node[Head(todo)] = "phys"
<1>1. CASE (\E n \in Node : Unplug(n) \/ Input(n)) \/ Signal \/ UNCHANGED vars
  BY <1>1 DEF Unplug, Input, Signal, vars, plugVars
<1>6. CASE Plug
  <2>1. PICK n \in Node : node[n] = "none" /\ node' = [node EXCEPT ![n] = "phys"]
    BY <1>6 DEF Plug, Lowest, FreeNodes
  <2>2. node \in [Node -> {"none", "phys", "ours"}]
    BY DEF Inv, TypeOK
  <2>3. QED BY <2>1, <2>2 DEF Quiet
<1>2. CASE Main
  BY <1>2 DEF Main, OpenDir, Watch, WatchFails, Cleanup, ProcessEnds, Test, Enter,
              Select, Walk, plugVars
<1>3. CASE Callback
  BY <1>3 DEF Callback, Rescan, RescanReturns, Read, ReadReturns, ReadGone, plugVars
<1>4. CASE Plugging
  <2>1. CASE CheckDevice
    BY <2>1 DEF CheckDevice, NextNode, OurDevice
  <2>2. CASE CreateFails \/ LineFails \/ AddLine \/ AddFails \/ CreateLine
    BY <2>2 DEF CreateFails, LineFails, AddLine, AddFails, CreateLine, NextNode
  <2>3. CASE CreateUinput
    <3>1. \E u \in Lowest(FreeFds) : file'[u].kind = "uinput"
      <4>1. PICK u \in Lowest(FreeFds), n \in Lowest(FreeNodes) :
              file' = [file EXCEPT ![u] = [kind |-> "uinput", node |-> n]]
        BY <2>3 DEF CreateUinput
      <4>2. u \in Fd /\ file \in FileTable
        BY DEF Lowest, FreeFds, Inv, TypeOK, FileTable
      <4>3. QED BY <4>1, <4>2 DEF FileTable
    <3>2. QED BY <3>1 DEF Quiet, Lowest, FreeFds, OpenFds, Free
  <2>4. QED BY <1>4, <2>1, <2>2, <2>3 DEF Plugging
<1>5. QED BY <1>1, <1>2, <1>3, <1>4, <1>6 DEF Next, Daemon, Kernel

---------------------------------------------------------------------------
(* Nothing is filtered twice.                                              *)

Writers == {u \in Fd : file[u].kind = "uinput"}

\* Every virtual device has a node of its own; a node that becomes a virtual
\* device while a line is being set up for it is that line's.
Virtual ==
  /\ \A f \in Alive(file) : file[f].node \in Node /\ node[file[f].node] # "none"
  /\ \A u \in Writers : file[u].node \in Node /\ node[file[u].node] = "ours"
  /\ \A u, v \in Writers : file[u].node = file[v].node => u = v
  /\ at = "create" => node[Head(todo)] # "ours"
  /\ at = "line" /\ node[Head(todo)] = "ours" => file[ufd].node = Head(todo)
  /\ NoEcho

\* Descriptors that are orphaned or closed take nothing from the invariant.
LEMMA FewerReaders ==
  ASSUME Virtual, OwnOutput, node' = node,
         \A f \in Alive(file') \cup Writers' : f \in Fd /\ file'[f] = file[f],
         \A f \in Lines' : f \in Lines /\ line'[f] = line[f] /\ line[f] \in Writers',
         at' \notin {"create", "line"}
  PROVE  Virtual'
<1>1. Alive(file') \subseteq Alive(file) /\ Writers' \subseteq Writers
  BY DEF Alive, Writers
<1>2. NoEcho'
  <2> SUFFICES ASSUME NEW f \in Lines', ReadsOurs(f)'
               PROVE  file'[line'[f]].node = file'[f].node
    BY DEF NoEcho
  <2>1. f \in Alive(file')
    BY DEF ReadsOurs, Alive, Lines
  <2>2. QED BY <2>1 DEF Virtual, NoEcho, ReadsOurs
<1>3. QED BY <1>1, <1>2 DEF Virtual

\* With a virtual device its node goes; its readers are orphaned.
LEMMA FewerWriters ==
  ASSUME Virtual, TypeOK, NEW fs \in FileTable, NEW u \in Writers,
         DestroyUinput(fs, u),
         \A f \in Fd : fs[f] = file[f] \/ fs[f] = Free,
         \A f \in Lines' : /\ f \in Lines /\ line'[f] = line[f]
                           /\ line[f] \in Writers \ {u} /\ fs[line[f]] = file[line[f]],
         at' \notin {"create", "line"}
  PROVE  Virtual'
<1> DEFINE n == file[u].node
<1>0. u \in Fd /\ n \in Node /\ node \in [Node -> {"none", "phys", "ours"}]
  BY DEF Writers, Virtual, TypeOK
<1>1. node' = [node EXCEPT ![n] = "none"] /\ file' = [Orphan(fs, n) EXCEPT ![u] = Free]
  BY DEF DestroyUinput
<1> HIDE DEF n
<1>2. node'[n] = "none" /\ \A m \in Node \ {n} : node'[m] = node[m]
  BY <1>0, <1>1
<1>3. /\ Orphan(fs, n) \in FileTable
      /\ \A f \in Fd : Orphan(fs, n)[f] = fs[f]
                       \/ (fs[f].kind = "event" /\ Orphan(fs, n)[f].kind = "gone")
  BY OrphanFacts
<1>4. file'[u] = Free /\ \A f \in Fd \ {u} : file'[f] = Orphan(fs, n)[f]
  BY <1>0, <1>1, <1>3 DEF FileTable
<1>5. \A f \in Alive(file') : f \in Alive(file) /\ file'[f] = file[f] /\ file[f].node # n
  <2> SUFFICES ASSUME NEW f \in Alive(file')
               PROVE  f \in Alive(file) /\ file'[f] = file[f] /\ file[f].node # n
    OBVIOUS
  <2>1. f \in Fd \ {u} /\ file'[f].kind = "event" /\ file'[f] = Orphan(fs, n)[f]
    BY <1>4 DEF Alive, Free
  <2>2. Orphan(fs, n)[f] = fs[f] /\ fs[f] = file[f]
    BY <1>3, <2>1 DEF Free
  <2>3. fs[f] # [kind |-> "event", node |-> n]
    BY <2>1, <2>2 DEF Orphan
  <2>4. fs[f] = [kind |-> fs[f].kind, node |-> fs[f].node]
    BY <2>1 DEF FileTable
  <2>5. QED BY <2>1, <2>2, <2>3, <2>4 DEF Alive
<1>6. \A v \in Writers' : v \in Writers \ {u} /\ file'[v] = file[v]
  <2> SUFFICES ASSUME NEW v \in Writers' PROVE v \in Writers \ {u} /\ file'[v] = file[v]
    OBVIOUS
  <2>1. v \in Fd \ {u} /\ file'[v].kind = "uinput" /\ file'[v] = Orphan(fs, n)[v]
    BY <1>4 DEF Writers, Free
  <2>2. Orphan(fs, n)[v] = fs[v] /\ fs[v] = file[v]
    BY <1>3, <2>1 DEF Free
  <2>3. QED BY <2>1, <2>2 DEF Writers
<1>7. \A v \in Writers \ {u} : file[v].node # n
  BY DEF Virtual, n
<1>8. NoEcho'
  <2> SUFFICES ASSUME NEW f \in Lines', ReadsOurs(f)'
               PROVE  file'[line'[f]].node = file'[f].node
    BY DEF NoEcho
  <2>1. f \in Alive(file') /\ f \in Lines /\ line'[f] = line[f]
    BY DEF ReadsOurs, Alive, Lines
  <2>2. file[f].node \in Node \ {n} /\ file'[f] = file[f]
    BY <1>5, <2>1 DEF Virtual
  <2>3. ReadsOurs(f)
    BY <1>2, <2>2 DEF ReadsOurs
  <2>4. line[f] \in Fd \ {u} /\ file'[line[f]] = file[line[f]]
    BY <1>3, <1>4, <2>1 DEF Writers
  <2>5. QED BY <2>1, <2>2, <2>3, <2>4 DEF Virtual, NoEcho
<1>9. QED BY <1>2, <1>5, <1>6, <1>7, <1>8 DEF Virtual

LEMMA VirtualStep ==
  ASSUME Inv, Virtual, [Next]_vars
  PROVE  Virtual'
<1>0. /\ file \in FileTable /\ node \in [Node -> {"none", "phys", "ours"}]
      /\ line \in [Fd -> Fd \cup {NoFd}] /\ todo \in Seq(Node)
      /\ Control /\ OwnOutput
  BY DEF Inv, TypeOK, FileTable
<1>1. CASE Quiet
  <2>1. Alive(file') = Alive(file) /\ Writers' = Writers /\ (NoEcho' <=> NoEcho)
    BY <1>1 DEF Quiet, Alive, Writers, NoEcho, Lines, ReadsOurs
  <2>2. QED BY <1>1, <2>1, QuietControl DEF Virtual, Quiet
<1>2. CASE Plug
  <2>1. PICK n \in Node : /\ node[n] = "none" /\ node' = [node EXCEPT ![n] = "phys"]
                          /\ todo' \in Listed(n)
    BY <1>2 DEF Plug, Lowest, FreeNodes
  <2>2. UNCHANGED <<file, line, at, ufd>>
    BY <1>2 DEF Plug
  <2>10. todo # <<>> => Head(todo') = Head(todo)
    BY <1>0, <2>1, ListedFacts
  <2>3. \A m \in Node \ {n} : node'[m] = node[m]
    BY <1>0, <2>1
  <2>4. node'[n] = "phys" /\ node[n] = "none"
    BY <1>0, <2>1
  <2>5. Alive(file') = Alive(file) /\ Writers' = Writers /\ Lines' = Lines
    BY <2>2 DEF Alive, Writers, Lines
  <2>6. NoEcho'
    <3> SUFFICES ASSUME NEW f \in Lines, ReadsOurs(f)'
                 PROVE  file[line[f]].node = file[f].node
      BY <2>2, <2>5 DEF NoEcho
    <3>1. f \in Alive(file)
      BY <2>2 DEF ReadsOurs, Alive, Lines
    <3>2. ReadsOurs(f)
      BY <2>2, <2>3, <2>4, <3>1 DEF Virtual, ReadsOurs
    <3>3. QED BY <3>2 DEF Virtual, NoEcho
  <2>7. todo # <<>> => Head(todo) \in Node
    BY <1>0, HeadTailProperties
  <2>8. at \in {"create", "line"} => todo # <<>>
    BY <1>0 DEF Control
  <2>9. QED BY <2>2, <2>3, <2>4, <2>5, <2>6, <2>7, <2>8, <2>10 DEF Virtual
<1>3. ASSUME NEW n \in Node, Unplug(n) PROVE Virtual'
  <2>1. /\ node[n] = "phys" /\ node' = [node EXCEPT ![n] = "none"]
        /\ file' = Orphan(file, n) /\ UNCHANGED <<line, at, todo, ufd>>
    BY <1>3 DEF Unplug, plugVars
  <2>2. /\ node'[n] = "none" /\ \A m \in Node \ {n} : node'[m] = node[m]
    BY <1>0, <2>1
  <2>3. /\ file' \in FileTable
        /\ \A f \in Fd : file'[f] = file[f]
                         \/ (file[f].kind = "event" /\ file'[f].kind = "gone")
    BY <1>0, <2>1, OrphanFacts
  <2>4. \A f \in Alive(file') : f \in Alive(file) /\ file'[f] = file[f] /\ file[f].node # n
    <3> SUFFICES ASSUME NEW f \in Alive(file')
                 PROVE  f \in Alive(file) /\ file'[f] = file[f] /\ file[f].node # n
      OBVIOUS
    <3>1. f \in Fd /\ file'[f].kind = "event" /\ file'[f] = file[f]
      BY <2>3 DEF Alive
    <3>2. file[f] # [kind |-> "event", node |-> n]
      BY <2>1, <3>1 DEF Orphan
    <3>3. file[f] = [kind |-> file[f].kind, node |-> file[f].node]
      BY <1>0, <3>1 DEF FileTable
    <3>4. QED BY <3>1, <3>2, <3>3 DEF Alive
  <2>5. Writers' = Writers /\ \A u \in Writers : file'[u] = file[u] /\ file[u].node # n
    BY <2>1, <2>3 DEF Writers, Virtual
  <2>6. NoEcho'
    <3> SUFFICES ASSUME NEW f \in Lines', ReadsOurs(f)'
                 PROVE  file'[line'[f]].node = file'[f].node
      BY DEF NoEcho
    <3>1. f \in Alive(file') /\ f \in Lines
      BY <2>1 DEF ReadsOurs, Alive, Lines
    <3>2. ReadsOurs(f) /\ line[f] \in Writers
      BY <1>0, <2>2, <2>4, <3>1 DEF Virtual, ReadsOurs, Alive, OwnOutput, Writers, Lines
    <3>3. QED BY <2>1, <2>4, <2>5, <3>1, <3>2 DEF Virtual, NoEcho
  <2>7. /\ at \in {"create", "line"} => Head(todo) \in Node
        /\ at = "line" => ufd \in Writers
    BY <1>0, HeadTailProperties DEF Control, Writers
  <2>8. QED BY <2>1, <2>2, <2>4, <2>5, <2>6, <2>7 DEF Virtual
<1>4. CASE CreateUinput
  <2>1. PICK u \in Fd, n \in Node :
          /\ file[u] = Free /\ node[n] = "none"
          /\ file' = [file EXCEPT ![u] = [kind |-> "uinput", node |-> n]]
          /\ node' = [node EXCEPT ![n] = "ours"]
          /\ todo' \in Listed(n)
          /\ ufd' = u
    BY <1>4 DEF CreateUinput, Lowest, FreeFds, OpenFds, FreeNodes
  <2>2. at = "create" /\ at' = "line" /\ UNCHANGED line
    BY <1>4 DEF CreateUinput
  <2>13. Head(todo') = Head(todo)
    BY <1>0, <2>1, <2>2, ListedFacts DEF Control
  <2>3. /\ file'[u].kind = "uinput" /\ file'[u].node = n
        /\ \A f \in Fd \ {u} : file'[f] = file[f]
        /\ node'[n] = "ours" /\ \A m \in Node \ {n} : node'[m] = node[m]
    BY <1>0, <2>1 DEF FileTable
  <2>4. Alive(file') = Alive(file) /\ Writers' = Writers \cup {u} /\ u \notin Alive(file)
    BY <2>1, <2>3 DEF Alive, Writers, Free
  <2>5. \A f \in Alive(file) : file[f].node \in Node \ {n}
    BY <2>1 DEF Virtual
  <2>6. \A v \in Writers : v # u /\ file[v].node \in Node \ {n}
    BY <2>1 DEF Virtual, Writers, Free
  <2>7. NoEcho'
    <3> SUFFICES ASSUME NEW f \in Lines, ReadsOurs(f)'
                 PROVE  file'[line'[f]].node = file'[f].node
      BY <2>2 DEF NoEcho, Lines
    <3>1. f \in Alive(file)
      BY <2>4 DEF ReadsOurs, Alive, Lines
    <3>2. file'[f] = file[f] /\ line[f] \in Writers /\ file'[line[f]] = file[line[f]]
      BY <1>0, <2>3, <2>4, <2>6, <3>1 DEF OwnOutput, Writers, Alive, Lines
    <3>3. ReadsOurs(f)
      BY <2>3, <2>5, <3>1, <3>2 DEF ReadsOurs
    <3>4. QED BY <2>2, <3>2, <3>3 DEF Virtual, NoEcho
  <2>8. Head(todo) \in Node /\ node[Head(todo)] # "ours"
    BY <1>0, <2>2, HeadTailProperties DEF Control, Virtual
  <2>9. /\ \A f \in Alive(file') : file'[f].node \in Node /\ node'[file'[f].node] # "none"
        /\ \A v \in Writers' : file'[v].node \in Node /\ node'[file'[v].node] = "ours"
    BY <2>3, <2>4, <2>5, <2>6 DEF Virtual, Alive, Writers
  <2>10. \A v, w \in Writers' : file'[v].node = file'[w].node => v = w
    BY <2>3, <2>4, <2>6 DEF Virtual, Writers
  <2>11. at' = "line" /\ (node'[Head(todo')] = "ours" => file'[ufd'].node = Head(todo'))
    BY <2>1, <2>2, <2>3, <2>8, <2>13
  <2>12. QED BY <2>7, <2>9, <2>10, <2>11 DEF Virtual
<1>5. CASE CreateLine
  <2> DEFINE n == Head(todo)
  <2>1. PICK f \in Fd :
          /\ file[f] = Free
          /\ file' = [file EXCEPT ![f] = [kind |-> "event", node |-> n]]
          /\ line' = [line EXCEPT ![f] = ufd]
    BY <1>5 DEF CreateLine, Output, Lowest, FreeFds, OpenFds
  <2>2. /\ at = "line" /\ at' = "add" /\ node[n] # "none" /\ UNCHANGED <<node, todo, ufd>>
    BY <1>5 DEF CreateLine, CanCreateLine
  <2>3. n \in Node /\ ufd \in Writers /\ (node[n] = "ours" => file[ufd].node = n)
    BY <1>0, <2>2, HeadTailProperties DEF Control, Writers, Virtual
  <2> HIDE DEF n
  <2>4. /\ file'[f].kind = "event" /\ file'[f].node = n /\ line'[f] = ufd
        /\ \A g \in Fd \ {f} : file'[g] = file[g] /\ line'[g] = line[g]
    BY <1>0, <2>1 DEF FileTable
  <2>5. Alive(file') = Alive(file) \cup {f} /\ Writers' = Writers /\ f \notin Writers
    BY <2>1, <2>4 DEF Alive, Writers, Free
  <2>6. \A u \in Writers : file'[u] = file[u]
    BY <2>4, <2>5 DEF Writers
  <2>7. NoEcho'
    <3> SUFFICES ASSUME NEW g \in Lines', ReadsOurs(g)'
                 PROVE  file'[line'[g]].node = file'[g].node
      BY DEF NoEcho
    <3>1. CASE g = f
      BY <2>2, <2>3, <2>4, <2>6, <3>1 DEF ReadsOurs
    <3>2. CASE g # f
      <4>1. g \in Lines /\ file'[g] = file[g] /\ line'[g] = line[g]
        BY <2>4, <3>2 DEF Lines
      <4>2. line[g] \in Writers /\ ReadsOurs(g)
        BY <1>0, <2>2, <4>1 DEF OwnOutput, Writers, ReadsOurs, Lines
      <4>3. QED BY <2>6, <4>1, <4>2 DEF Virtual, NoEcho
    <3>3. QED BY <3>1, <3>2
  <2>8. \A g \in Alive(file') : file'[g].node \in Node /\ node'[file'[g].node] # "none"
    BY <2>2, <2>3, <2>4, <2>5 DEF Virtual, Alive
  <2>9. QED BY <2>2, <2>5, <2>6, <2>7, <2>8 DEF Virtual
<1>6. CASE LineFails
  <2>1. /\ at = "line" /\ DestroyUinput(file, ufd) /\ at' = "check" /\ UNCHANGED line
    BY <1>6 DEF LineFails, NextNode
  <2>2. ufd \in Writers /\ \A f \in Lines : line[f] # ufd
    BY <1>0, <2>1 DEF Control, Writers, Lines
  <2>3. \A f \in Lines' : f \in Lines /\ line'[f] = line[f] /\ line[f] \in Writers \ {ufd}
    BY <1>0, <2>1, <2>2 DEF Lines, OwnOutput, Writers
  <2>4. TypeOK
    BY DEF Inv
  <2>5. QED BY <1>0, <2>1, <2>2, <2>3, <2>4, FewerWriters
<1>7. CASE AddFails
  <2> DEFINE fs == [file EXCEPT ![lfd] = Free]
  <2>1. /\ at = "add" /\ DestroyUinput(fs, ufd) /\ at' = "check"
        /\ line' = [line EXCEPT ![lfd] = NoFd]
    BY <1>7 DEF AddFails, NextNode
  <2>2. /\ ufd \in Writers /\ lfd \in Fd /\ lfd \in Lines /\ line[lfd] = ufd
        /\ file[lfd].kind \in {"event", "gone"}
    BY <1>0, <2>1, FdAssumption DEF Control, Writers, Lines
  <2>3. fs \in FileTable /\ \A f \in Fd \ {lfd} : fs[f] = file[f]
    <3>1. Free \in [kind : Kind, node : Node \cup {NoNode}]
      BY DEF Free, Kind
    <3>2. QED BY <1>0, <2>2, <3>1 DEF FileTable
  <2>4. fs[lfd] = Free
    BY <1>0, <2>2 DEF FileTable
  <2> HIDE DEF fs
  <2>5. /\ line'[lfd] = NoFd /\ \A f \in Fd \ {lfd} : line'[f] = line[f]
    BY <1>0, <2>1, <2>2
  <2>6. \A f \in Lines' : /\ f \in Lines /\ line'[f] = line[f]
                          /\ line[f] \in Writers \ {ufd} /\ fs[line[f]] = file[line[f]]
    <3> SUFFICES ASSUME NEW f \in Lines'
                 PROVE  /\ f \in Lines /\ line'[f] = line[f]
                        /\ line[f] \in Writers \ {ufd} /\ fs[line[f]] = file[line[f]]
      OBVIOUS
    <3>1. f \in Lines /\ f # lfd /\ line'[f] = line[f] /\ line[f] \in Fd
      BY <1>0, <2>5 DEF Lines
    <3>2. line[f] \in Writers /\ line[f] # ufd
      BY <1>0, <2>2, <3>1 DEF OwnOutput, Writers
    <3>3. line[f] # lfd
      BY <2>2, <3>2 DEF Writers
    <3>4. QED BY <2>3, <3>1, <3>2, <3>3
  <2>7. TypeOK
    BY DEF Inv
  <2>8. \A f \in Fd : fs[f] = file[f] \/ fs[f] = Free
    BY <2>3, <2>4
  <2>9. QED BY <2>1, <2>2, <2>3, <2>6, <2>7, <2>8, FewerWriters
<1>8. CASE Watch
  <2>1. PICK h \in Fd :
          /\ file[h] = Free
          /\ file' = [file EXCEPT ![h] = [kind |-> "inotify", node |-> NoNode]]
    BY <1>8 DEF Watch, Lowest, FreeFds, OpenFds
  <2>2. at' = "off" /\ UNCHANGED <<node, line>>
    BY <1>8 DEF Watch
  <2>3. file'[h].kind = "inotify" /\ \A f \in Fd \ {h} : file'[f] = file[f]
    BY <1>0, <2>1 DEF FileTable
  <2>4. \A f \in Lines : line[f] \in Fd /\ file[line[f]].kind = "uinput"
    BY <1>0 DEF OwnOutput, Lines
  <2>5. QED BY <1>0, <2>1, <2>2, <2>3, <2>4, FewerReaders DEF Alive, Writers, Lines, Free
<1>9. CASE ReadGone
  <2> DEFINE g == Called
  <2>1. /\ file[g].kind = "gone" /\ at = "off"
        /\ file' = [file EXCEPT ![g] = Free]
        /\ line' = [line EXCEPT ![g] = NoFd]
        /\ UNCHANGED <<node, at>>
    BY <1>9 DEF ReadGone, InCallback, CloseFile, plugVars
  <2>2. g \in Fd
    <3>1. pc = "call" /\ Q!CoreInv
      BY <1>9 DEF ReadGone, InCallback, Inv
    <3>2. QED BY <1>0, <3>1, QueueFacts DEF OpenFds
  <2> HIDE DEF g
  <2>3. /\ file'[g] = Free /\ line'[g] = NoFd
        /\ \A f \in Fd \ {g} : file'[f] = file[f] /\ line'[f] = line[f]
    BY <1>0, <2>1, <2>2 DEF FileTable
  <2>4. \A f \in Lines : line[f] \in Fd /\ file[line[f]].kind = "uinput"
    BY <1>0 DEF OwnOutput, Lines
  <2>5. QED BY <1>0, <2>1, <2>2, <2>3, <2>4, FewerReaders DEF Alive, Writers, Lines, Free
<1>10. CASE WatchFails \/ Cleanup
  <2>1. /\ file' = [f \in Fd |-> Free] /\ line' = [f \in Fd |-> NoFd] /\ at' = "off"
    BY <1>10 DEF WatchFails, Cleanup, ProcessEnds
  <2>2. Alive(file') = {} /\ Writers' = {} /\ Lines' = {}
    BY <2>1 DEF Alive, Writers, Lines, Free
  <2>3. QED BY <2>1, <2>2 DEF Virtual, NoEcho
<1>11. QED BY <1>1, <1>2, <1>3, <1>4, <1>5, <1>6, <1>7, <1>8, <1>9, <1>10, QuietSteps

\* What the daemon writes to a virtual device it never reads as the input of
\* another line, whichever numbers nodes and descriptors get when devices come
\* and go.
THEOREM NothingFilteredTwice == Spec => []NoEcho
<1>1. Init => Inv /\ Virtual
  <2> SUFFICES ASSUME Init PROVE Inv /\ Virtual
    OBVIOUS
  <2>1. Alive(file) = {} /\ Writers = {} /\ Lines = {} /\ at = "off"
    BY DEF Init, Alive, Writers, Lines, Free
  <2>2. QED BY <2>1, InvInit DEF Virtual, NoEcho
<1>2. Inv /\ Virtual /\ [Next]_vars => (Inv /\ Virtual)'
  BY InvStep, VirtualStep
<1>3. Virtual => NoEcho
  BY DEF Virtual
<1>4. QED BY <1>1, <1>2, <1>3, PTL DEF Spec

---------------------------------------------------------------------------
(* A device's events are delivered once.                                   *)

\* No device is grabbed twice, and the device of every line in the queue is
\* grabbed, though not always by that line.
Grabs ==
  /\ \A f, g \in grabbed : file[f] = file[g] => f = g
  /\ at = "add" => lfd \notin grabbed
  /\ \A f \in ToSet(members) :
       file[f].kind = "event" => \E g \in grabbed : file[g] = file[f]

\* A grab lasts as long as the device has a reader.
LEMMA FewerGrabs ==
  ASSUME Grabs, AliveOnly, ToSet(members)' \subseteq ToSet(members),
         ToSet(members) \subseteq Fd, grabbed' = grabbed \cap Alive(file'),
         \A f \in Alive(file') : f \in Alive(file) /\ file'[f] = file[f],
         \A f \in Alive(file'), g \in grabbed : file[f] = file[g] => g \in Alive(file'),
         at' = "add" => at = "add" /\ lfd' = lfd
  PROVE  Grabs'
<1>1. \A f, g \in grabbed' : file'[f] = file'[g] => f = g
  BY DEF Grabs
<1>2. \A f \in ToSet(members)' :
        file'[f].kind = "event" => \E g \in grabbed' : file'[g] = file'[f]
  <2> SUFFICES ASSUME NEW f \in ToSet(members)', file'[f].kind = "event"
               PROVE  \E g \in grabbed' : file'[g] = file'[f]
    OBVIOUS
  <2>1. f \in Alive(file') /\ f \in ToSet(members)
    BY DEF Alive
  <2>2. PICK g \in grabbed : file[g] = file[f]
    BY <2>1 DEF Grabs, Alive
  <2>3. QED BY <2>1, <2>2
<1>3. at' = "add" => lfd' \notin grabbed'
  BY DEF Grabs
<1>4. QED BY <1>1, <1>2, <1>3 DEF Grabs

\* Opening a descriptor that was free disturbs nobody's grab.
LEMMA OneMoreFile ==
  ASSUME Grabs, AliveOnly, ToSet(members) \subseteq OpenFds, NEW u \in FreeFds,
         \A f \in Fd \ {u} : file'[f] = file[f],
         ToSet(members)' = ToSet(members) \/ (/\ ToSet(members)' = ToSet(members) \cup {u}
                                              /\ file'[u].kind # "event"),
         grabbed' = grabbed, at' = "add" => lfd' = u
  PROVE  Grabs'
<1>1. u \notin grabbed /\ u \notin ToSet(members) /\ grabbed \subseteq Fd
  BY DEF AliveOnly, Alive, FreeFds, OpenFds, Free
<1>2. ToSet(members) \subseteq Fd
  BY DEF OpenFds
<1>3. \A f \in grabbed \cup ToSet(members) : file'[f] = file[f]
  BY <1>1, <1>2
<1>4. \A f \in ToSet(members)' : file'[f].kind = "event" => f \in ToSet(members)
  OBVIOUS
<1>5. QED BY <1>1, <1>3, <1>4 DEF Grabs

LEMMA GrabsStep ==
  ASSUME Inv, Grabs, [Next]_vars
  PROVE  Grabs'
<1>0. /\ file \in FileTable /\ Control /\ AliveOnly /\ grabbed \subseteq Alive(file)
      /\ ToSet(members) \subseteq OpenFds /\ ToSet(members) \subseteq Fd
  BY QueueFacts DEF Inv, TypeOK, FileTable, AliveOnly, OpenFds
<1>1. CASE /\ UNCHANGED <<members, file, grabbed>>
           /\ at' = "add" => at = "add" /\ lfd' = lfd
  BY <1>1 DEF Grabs
<1>2. ASSUME NEW n \in Node, Unplug(n) PROVE Grabs'
  <2>1. /\ file' = Orphan(file, n) /\ grabbed' = grabbed \cap Alive(file')
        /\ UNCHANGED <<members, at, lfd>>
    BY <1>2 DEF Unplug, plugVars, queueVars
  <2>2. \A f \in Fd : file'[f] = IF file[f] = [kind |-> "event", node |-> n]
                                   THEN [kind |-> "gone", node |-> NoNode] ELSE file[f]
    BY <2>1 DEF Orphan
  <2>3. \A f \in Alive(file') : /\ f \in Alive(file) /\ file'[f] = file[f]
                                /\ file[f] # [kind |-> "event", node |-> n]
    BY <2>2 DEF Alive
  <2>4. \A f \in Alive(file'), g \in grabbed : file[f] = file[g] => g \in Alive(file')
    BY <1>0, <2>2, <2>3 DEF Alive
  <2>5. QED BY <1>0, <2>1, <2>3, <2>4, FewerGrabs
<1>3. ASSUME NEW fs \in FileTable, NEW u \in Fd, DestroyUinput(fs, u),
             file[u].kind = "uinput",
             \A f \in Fd : fs[f] = file[f] \/ (fs[f] = Free /\ f \notin grabbed),
             members' = members, at' = "check"
      PROVE  Grabs'
  <2> DEFINE n == file[u].node
  <2>1. file' = [Orphan(fs, n) EXCEPT ![u] = Free] /\ grabbed' = grabbed \cap Alive(file')
    BY <1>3 DEF DestroyUinput
  <2>2. \A f \in Fd \ {u} : file'[f] = IF fs[f] = [kind |-> "event", node |-> n]
                                         THEN [kind |-> "gone", node |-> NoNode] ELSE fs[f]
    BY <2>1 DEF Orphan
  <2> HIDE DEF n
  <2>3. file'[u] = Free
    BY <1>3, <2>1 DEF Orphan
  <2>4. \A f \in Alive(file') : /\ f \in Fd \ {u} /\ f \in Alive(file) /\ file'[f] = file[f]
                                /\ fs[f] = file[f]
                                /\ fs[f] # [kind |-> "event", node |-> n]
    BY <1>3, <2>2, <2>3 DEF Alive, Free
  <2>5. \A g \in grabbed : g \in Fd \ {u} /\ fs[g] = file[g]
    BY <1>0, <1>3 DEF Alive
  <2>6. \A f \in Alive(file'), g \in grabbed : file[f] = file[g] => g \in Alive(file')
    BY <2>2, <2>4, <2>5 DEF Alive
  <2>7. QED BY <1>0, <1>3, <2>1, <2>4, <2>6, FewerGrabs
<1>4. CASE CreateUinput
  <2>1. PICK u \in FreeFds : \A f \in Fd \ {u} : file'[f] = file[f]
    BY <1>0, <1>4 DEF CreateUinput, Lowest, FileTable
  <2>2. at' = "line" /\ UNCHANGED <<members, grabbed>>
    BY <1>4 DEF CreateUinput, queueVars
  <2>3. QED BY <1>0, <2>1, <2>2, OneMoreFile
<1>5. CASE CreateLine
  <2>1. PICK f \in FreeFds : lfd' = f /\ \A g \in Fd \ {f} : file'[g] = file[g]
    BY <1>0, <1>5 DEF CreateLine, Lowest, FileTable
  <2>2. UNCHANGED <<members, grabbed>>
    BY <1>5 DEF CreateLine, queueVars
  <2>3. QED BY <1>0, <2>1, <2>2, OneMoreFile
<1>6. CASE LineFails
  <2>1. at = "line" /\ DestroyUinput(file, ufd) /\ at' = "check" /\ members' = members
    BY <1>6 DEF LineFails, NextNode, queueVars
  <2>2. ufd \in Fd /\ file[ufd].kind = "uinput"
    BY <1>0, <2>1 DEF Control
  <2>3. QED BY <1>0, <1>3, <2>1, <2>2
<1>7. CASE AddFails
  <2> DEFINE fs == [file EXCEPT ![lfd] = Free]
  <2>1. at = "add" /\ DestroyUinput(fs, ufd) /\ at' = "check" /\ members' = members
    BY <1>7 DEF AddFails, NextNode, queueVars
  <2>2. ufd \in Fd /\ file[ufd].kind = "uinput" /\ lfd \in Fd /\ lfd \notin grabbed
    BY <1>0, <2>1 DEF Control, Grabs
  <2>3. fs \in FileTable
    <3>1. Free \in [kind : Kind, node : Node \cup {NoNode}]
      BY DEF Free, Kind
    <3>2. QED BY <1>0, <3>1 DEF FileTable
  <2>4. \A f \in Fd : fs[f] = file[f] \/ (fs[f] = Free /\ f \notin grabbed)
    BY <1>0, <2>2 DEF FileTable
  <2> HIDE DEF fs
  <2>5. QED BY <1>3, <2>1, <2>2, <2>3, <2>4
<1>8. CASE AddLine
  <2>1. /\ at = "add" /\ grabbed' = Grab(lfd) /\ at' = "check" /\ file' = file
        /\ ToSet(members)' = ToSet(members) \cup {lfd}
    BY <1>8 DEF AddLine, NextNode, Queue!Add
  <2>2. CASE file[lfd].kind = "event" /\ \A g \in grabbed : file[g] # file[lfd]
    <3>1. grabbed' = grabbed \cup {lfd}
      BY <2>1, <2>2 DEF Grab
    <3>2. QED BY <2>1, <2>2, <3>1 DEF Grabs
  <2>3. CASE ~(file[lfd].kind = "event" /\ \A g \in grabbed : file[g] # file[lfd])
    <3>1. grabbed' = grabbed
      BY <2>1, <2>3 DEF Grab
    <3>2. file[lfd].kind = "event" => \E g \in grabbed : file[g] = file[lfd]
      BY <2>3
    <3>3. QED BY <2>1, <3>1, <3>2 DEF Grabs
  <2>4. QED BY <2>2, <2>3
<1>9. CASE Watch
  <2>1. PICK h \in FreeFds :
          /\ file' = [file EXCEPT ![h] = [kind |-> "inotify", node |-> NoNode]]
          /\ rfds' = rfds \cup {h}
    BY <1>9 DEF Watch, Lowest
  <2>2. /\ pc = "idle" /\ pc' = "idle" /\ mpc' = "test" /\ at' = "off" /\ grabbed' = grabbed
    BY <1>0, <1>9 DEF Watch, Control
  <2>3. file'[h].kind = "inotify" /\ \A g \in Fd \ {h} : file'[g] = file[g]
    BY <1>0, <2>1 DEF FileTable, FreeFds
  <2>4. ToSet(members) = rfds /\ ToSet(members)' = rfds'
    <3>1. Inv'
      BY <1>9, WatchStep
    <3>2. QED BY <2>2, <3>1 DEF Inv, Q!CoreInv, Q!VisitedArmed, Q!Members, Q!ToSet, ToSet
  <2>5. QED BY <1>0, <2>1, <2>2, <2>3, <2>4, OneMoreFile
<1>10. CASE ReadGone
  <2> DEFINE g == Called
  <2>1. /\ file[g].kind = "gone" /\ file' = [file EXCEPT ![g] = Free]
        /\ at' = "off" /\ grabbed' = grabbed
        /\ ToSet(members)' = ToSet(members) \ {g}
    BY <1>10 DEF ReadGone, InCallback, CloseFile, GoneResult, Queue!Return, Called, plugVars
  <2>2. g \in Fd
    <3>1. pc = "call" /\ Q!CoreInv
      BY <1>10 DEF ReadGone, InCallback, Inv
    <3>2. QED BY <1>0, <3>1, QueueFacts
  <2> HIDE DEF g
  <2>3. /\ file'[g] = Free /\ \A f \in Fd \ {g} : file'[f] = file[f]
    BY <1>0, <2>1, <2>2 DEF FileTable
  <2>4. g \notin grabbed /\ grabbed \subseteq Fd
    BY <1>0, <2>1 DEF Alive
  <2>5. \A f \in grabbed : file'[f] = file[f]
    BY <2>3, <2>4
  <2>6. \A f \in ToSet(members)' : f \in ToSet(members) /\ file'[f] = file[f]
    BY <1>0, <2>1, <2>3
  <2>7. QED BY <2>1, <2>5, <2>6 DEF Grabs
<1>11. CASE WatchFails \/ Cleanup
  BY <1>11 DEF WatchFails, Cleanup, ProcessEnds, Grabs, ToSet
<1>12. CASE \/ Plug \/ (\E n \in Node : Input(n)) \/ Signal \/ UNCHANGED vars
            \/ CheckDevice \/ CreateFails \/ OpenDir \/ Test \/ Enter \/ Select \/ Walk
            \/ Rescan \/ RescanReturns \/ Read \/ ReadReturns
  <2>1. UNCHANGED <<members, file, grabbed>>
    BY <1>12 DEF Plug, Input, Signal, vars, CheckDevice, CreateFails, OpenDir, Test, Enter,
       Select, Walk, Rescan, RescanReturns, Read, ReadReturns, kernelVars, queueVars,
       Queue!SelectReturn, Queue!Walk, Queue!VisitSkip, Queue!VisitCall, Queue!WalkEnd,
       Queue!queue, Queue!Return
  <2>2. at' = "add" => at = "add" /\ lfd' = lfd
    BY <1>12 DEF Plug, Input, Signal, vars, CheckDevice, CreateFails, OpenDir, Test, Enter,
       Select, Walk, Rescan, RescanReturns, Read, ReadReturns, plugVars, NextNode
  <2>3. QED BY <1>1, <2>1, <2>2
<1>13. QED BY <1>2, <1>4, <1>5, <1>6, <1>7, <1>8, <1>9, <1>10, <1>11, <1>12
              DEF Next, Daemon, Plugging, Main, Callback, Kernel

\* A device announced twice may get two lines, for ever: one of them at most
\* receives what the device sends.
THEOREM EventsGoToOneLine == Spec => []DeliveredOnce
<1>1. Init => Inv /\ Grabs
  BY InvInit DEF Init, Grabs, ToSet
<1>2. Inv /\ Grabs /\ [Next]_vars => (Inv /\ Grabs)'
  BY InvStep, GrabsStep
<1>3. Inv /\ Grabs => DeliveredOnce
  <2> SUFFICES ASSUME Inv, Grabs, NEW n \in Node
               PROVE  Cardinality(Receivers(n) \cap ToSet(members)) <= 1
    BY DEF DeliveredOnce
  <2> DEFINE R == Receivers(n) \cap ToSet(members)
  <2>1. CASE R = {}
    BY <2>1, FS_EmptySet
  <2>2. CASE R # {}
    <3>1. PICK f : f \in R
      BY <2>2
    <3>2. file[f] = [kind |-> "event", node |-> n]
      BY <3>1 DEF Receivers
    <3>3. PICK g \in grabbed : file[g] = file[f]
      BY <3>1, <3>2 DEF Grabs
    <3>4. g \in Fd
      BY DEF Inv, AliveOnly, Alive
    <3>5. \A h \in R : h \in grabbed /\ file[h] = file[f]
      BY <3>2, <3>3, <3>4 DEF Receivers
    <3>6. R = {f}
      BY <3>1, <3>5 DEF Grabs
    <3>7. Cardinality(R) = 1
      BY <3>6, FS_Singleton
    <3>8. QED BY <3>7
  <2>3. QED BY <2>1, <2>2
<1>4. QED BY <1>1, <1>2, <1>3, PTL DEF Spec

---------------------------------------------------------------------------
(* Which devices go unnoticed.                                             *)

\* The nodes device_plugged is still to be called for.
Pending == IF at \in {"create", "line", "add"} THEN ToSet(Tail(todo))
           ELSE IF at = "check" THEN ToSet(todo) ELSE {}

\* The nodes that have been, are being or will be examined, and those that came
\* when the directory was open and the watch not yet set.
Accounted == noticed \cup ToSet(events) \cup Pending \cup between

\* From the moment the directory has been opened no other device is missed: when
\* the walk is over the watch is there, and it stays.
Seen ==
  /\ mpc \in {"init", "done"} => at = "off" /\ ~Watching
  /\ mpc \notin {"init", "walk", "done"} => Watching
  /\ mpc \notin {"init", "done"} =>
       \A n \in Node : node[n] = "phys" => n \in Accounted

LEMMA NextNodePending ==
  ASSUME todo \in Seq(Node), todo # <<>>, NEW failed, NextNode(failed)
  PROVE  Pending' = ToSet(Tail(todo))
BY DEF NextNode, Pending

\* What evf_uinput_destroy closes, with or without the line's input, is not the
\* watch.
LEMMA DestroyKeepsWatch ==
  ASSUME TypeOK, Control, LineFails \/ AddFails, Watching
  PROVE  Watching'
<1>1. file \in FileTable /\ Free \in [kind : Kind, node : Node \cup {NoNode}]
  BY DEF TypeOK, FileTable, Free, Kind
<1>2. PICK h \in Fd : file[h].kind = "inotify"
  BY DEF Watching
<1>3. PICK fs \in FileTable : DestroyUinput(fs, ufd) /\ fs[h] = file[h]
  <2>1. CASE LineFails
    BY <1>1, <2>1 DEF LineFails
  <2>2. CASE AddFails
    <3> DEFINE fs == [file EXCEPT ![lfd] = Free]
    <3>1. DestroyUinput(fs, ufd) /\ file[lfd].kind \in {"event", "gone"}
      BY <2>2 DEF AddFails, Control
    <3>2. fs \in FileTable /\ fs[h] = file[h]
      BY <1>1, <1>2, <3>1 DEF FileTable
    <3>3. QED BY <3>1, <3>2
  <2>3. QED BY <2>1, <2>2
<1>4. ufd \in Fd \ {h}
  BY <1>2 DEF LineFails, AddFails, Control
<1>5. file'[h] = fs[h] \/ fs[h].kind = "event"
  BY <1>2, <1>3, <1>4, DestroyFacts
<1>6. QED BY <1>2, <1>3, <1>5 DEF Watching

LEMMA SeenStep ==
  ASSUME Inv, Seen, [Next]_vars
  PROVE  Seen'
<1>0. /\ file \in FileTable /\ Control /\ Q!CoreInv /\ TypeOK
      /\ node \in [Node -> {"none", "phys", "ours"}]
      /\ todo \in Seq(Node) /\ events \in Seq(Node)
  BY DEF Inv, TypeOK, FileTable
<1>1. CASE Plug
  <2>1. PICK n \in Node :
          /\ node' = [node EXCEPT ![n] = "phys"] /\ events' = Report(n)
          /\ todo' \in Listed(n)
          /\ between' = IF mpc = "walk" THEN between \cup {n} ELSE between
    BY <1>1 DEF Plug, Lowest, FreeNodes
  <2>2. UNCHANGED <<file, at, mpc, noticed>>
    BY <1>1 DEF Plug
  <2>3. ToSet(events) \subseteq ToSet(events') /\ (Watching => n \in ToSet(events'))
    BY <1>0, <2>1, AppendSet DEF Report
  <2>4. \A m \in Node \ {n} : node'[m] = node[m]
    BY <1>0, <2>1
  <2>5. ToSet(events)' = ToSet(events')
    OBVIOUS
  <2>6. Pending \subseteq Pending'
    BY <1>0, <2>1, <2>2, ListedFacts DEF Pending, Control
  <2>7. Watching' = Watching
    BY <2>2 DEF Watching
  <2>8. mpc \notin {"init", "done"} => n \in Accounted'
    <3>1. CASE mpc = "walk"
      BY <2>1, <3>1 DEF Accounted
    <3>2. CASE mpc # "walk"
      BY <2>3, <2>5, <3>2 DEF Accounted, Seen
    <3>3. QED BY <3>1, <3>2
  <2>9. Accounted \subseteq Accounted'
    BY <2>1, <2>2, <2>3, <2>5, <2>6 DEF Accounted
  <2>10. QED BY <2>2, <2>4, <2>7, <2>8, <2>9 DEF Seen
<1>2. ASSUME NEW n \in Node, Unplug(n) PROVE Seen'
  <2>1. /\ node' = [node EXCEPT ![n] = "none"] /\ file' = Orphan(file, n)
        /\ noticed' = noticed \ {n} /\ between' = between \ {n}
        /\ UNCHANGED <<at, todo, mpc, events>>
    BY <1>2 DEF Unplug, plugVars
  <2>2. node'[n] = "none" /\ \A m \in Node \ {n} : node'[m] = node[m]
    BY <1>0, <2>1
  <2>3. \A f \in Fd : file'[f].kind = "inotify" <=> file[f].kind = "inotify"
    BY <1>0, <2>1, OrphanFacts
  <2>4. Watching' <=> Watching
    BY <2>3 DEF Watching
  <2>5. Accounted \ {n} \subseteq Accounted'
    BY <2>1 DEF Accounted, Pending
  <2>6. QED BY <2>1, <2>2, <2>4, <2>5 DEF Seen
<1>3. CASE CheckDevice
  <2>1. /\ at = "check" /\ todo # <<>> /\ UNCHANGED <<node, file, events, mpc>>
        /\ noticed' = IF node[Head(todo)] = "phys" THEN noticed \cup {Head(todo)} ELSE noticed
        /\ between' = between \ noticed'
    BY <1>3 DEF CheckDevice, kernelVars
  <2>2. ToSet(todo) = {Head(todo)} \cup ToSet(Tail(todo))
    BY <1>0, <2>1, TailSet
  <2>3. Pending' = ToSet(Tail(todo))
    BY <1>0, <1>3, <2>1, NextNodePending DEF CheckDevice, Pending
  <2>4. mpc \notin {"init", "done"} /\ Watching' = Watching
    BY <2>1 DEF Seen, Watching
  <2>5. \A m \in Accounted : m \in Accounted' \/ node[m] # "phys"
    BY <2>1, <2>2, <2>3 DEF Accounted, Pending
  <2>6. QED BY <2>1, <2>4, <2>5 DEF Seen
<1>4. CASE CreateUinput
  <2>1. PICK u \in FreeFds, n \in Node :
          /\ file' = [file EXCEPT ![u] = [kind |-> "uinput", node |-> n]]
          /\ node' = [node EXCEPT ![n] = "ours"]
          /\ events' = Report(n)
          /\ todo' \in Listed(n)
    BY <1>4 DEF CreateUinput, FreeNodes, Lowest
  <2>2. at = "create" /\ at' = "line" /\ UNCHANGED <<mpc, noticed, between>>
    BY <1>4 DEF CreateUinput, history
  <2>3. ToSet(events) \subseteq ToSet(events')
    BY <1>0, <2>1, AppendSet DEF Report
  <2>4. node'[n] = "ours" /\ \A m \in Node \ {n} : node'[m] = node[m]
    BY <1>0, <2>1
  <2>5. mpc \notin {"init", "done"} /\ ToSet(events)' = ToSet(events')
    BY <2>2 DEF Seen
  <2>6. Pending \subseteq Pending'
    BY <1>0, <2>1, <2>2, ListedFacts DEF Pending, Control
  <2>7. Watching => Watching'
    BY <1>0, <2>1 DEF Watching, FileTable, FreeFds, OpenFds, Free
  <2>8. Accounted \subseteq Accounted'
    BY <2>2, <2>3, <2>5, <2>6 DEF Accounted
  <2>9. QED BY <2>2, <2>4, <2>5, <2>7, <2>8 DEF Seen
<1>5. CASE CreateLine
  <2>1. PICK f \in FreeFds :
          file' = [file EXCEPT ![f] = [kind |-> "event", node |-> Head(todo)]]
    BY <1>5 DEF CreateLine, Lowest
  <2>2. /\ at = "line" /\ at' = "add" /\ UNCHANGED <<node, events, todo, mpc, noticed, between>>
    BY <1>5 DEF CreateLine, history
  <2>3. Watching => Watching'
    BY <1>0, <2>1 DEF Watching, FileTable, FreeFds, OpenFds, Free
  <2>4. mpc \notin {"init", "done"}
    BY <2>2 DEF Seen
  <2>5. Accounted' = Accounted
    BY <2>2 DEF Accounted, Pending
  <2>6. QED BY <2>2, <2>3, <2>4, <2>5 DEF Seen
<1>6. CASE CreateFails \/ AddLine
  <2>1. /\ at \in {"create", "add"} /\ \E failed \in BOOLEAN : NextNode(failed)
        /\ UNCHANGED <<node, file, events, mpc, noticed, between>>
    BY <1>6 DEF CreateFails, AddLine, kernelVars, history
  <2>2. Pending = ToSet(Tail(todo)) /\ Pending' = ToSet(Tail(todo))
    BY <1>0, <2>1, NextNodePending DEF Pending, Control
  <2>3. mpc \notin {"init", "done"} /\ Watching' = Watching
    BY <2>1 DEF Seen, Watching
  <2>4. Accounted' = Accounted
    BY <2>1, <2>2 DEF Accounted
  <2>5. QED BY <2>1, <2>3, <2>4 DEF Seen
<1>7. CASE LineFails \/ AddFails
  <2>1. /\ at \in {"line", "add"} /\ \E failed \in BOOLEAN : NextNode(failed)
        /\ node' = [node EXCEPT ![file[ufd].node] = "none"]
        /\ UNCHANGED <<events, mpc, noticed, between>>
    BY <1>7 DEF LineFails, AddFails, DestroyUinput, history
  <2>2. Pending = ToSet(Tail(todo)) /\ Pending' = ToSet(Tail(todo))
    BY <1>0, <2>1, NextNodePending DEF Pending, Control
  <2>3. \A m \in Node : node'[m] = "phys" => node[m] = "phys"
    BY <1>0, <2>1
  <2>4. mpc \notin {"init", "done"}
    BY <2>1 DEF Seen
  <2>5. Watching => Watching'
    BY <1>0, <1>7, <2>1, DestroyKeepsWatch
  <2>6. Accounted' = Accounted
    BY <2>1, <2>2 DEF Accounted
  <2>7. QED BY <2>1, <2>3, <2>4, <2>5, <2>6 DEF Seen
<1>8. CASE OpenDir
  <2>1. /\ mpc = "init" /\ mpc' = "walk" /\ at' = "check" /\ node' = node /\ file' = file
        /\ todo' \in SetToSeqs(Node \ FreeNodes)
    BY <1>8 DEF OpenDir, kernelVars
  <2>2. ToSet(todo') = Node \ FreeNodes
    <3> DEFINE S == Node \ FreeNodes
               D == 1 .. Cardinality(S)
    <3>1. IsFiniteSet(S) /\ Cardinality(S) \in Nat
      BY NodeAssumption, FS_Subset, FS_CardinalityType
    <3>2. IsFiniteSet(D) /\ Cardinality(D) = Cardinality(S)
      BY <3>1, FS_Interval
    <3>3. todo' \in Injection(D, S)
      BY <2>1 DEF SetToSeqs, Injection, IsInjective
    <3>4. todo' \in Surjection(D, S)
      BY <3>1, <3>2, <3>3, FS_Injection
    <3>5. QED BY <3>4 DEF Surjection, ToSet
  <2>3. ToSet(todo') = Pending'
    BY <2>1 DEF Pending
  <2>4. \A n \in Node : node[n] = "phys" => n \in ToSet(todo')
    BY <1>0, <2>2 DEF FreeNodes
  <2>5. QED BY <2>1, <2>3, <2>4 DEF Seen, Accounted
<1>9. CASE Watch
  <2>1. PICK h \in Fd : file' = [file EXCEPT ![h] = [kind |-> "inotify", node |-> NoNode]]
    BY <1>9 DEF Watch, Lowest, FreeFds
  <2>2. /\ at = "check" /\ todo = <<>> /\ mpc = "walk" /\ mpc' = "test"
        /\ UNCHANGED <<node, events, noticed, between>>
    BY <1>9 DEF Watch, history
  <2>3. Pending = {}
    BY <2>2 DEF Pending, ToSet
  <2>4. Watching'
    BY <1>0, <2>1 DEF Watching, FileTable
  <2>5. Accounted \subseteq Accounted'
    BY <2>2, <2>3 DEF Accounted
  <2>6. QED BY <2>2, <2>4, <2>5 DEF Seen
<1>10. CASE WatchFails \/ Cleanup
  <2>1. mpc' = "done" /\ at' = "off" /\ file' = [f \in Fd |-> Free]
    BY <1>10 DEF WatchFails, Cleanup, ProcessEnds
  <2>2. QED BY <2>1 DEF Seen, Watching, Free
<1>11. CASE Rescan
  <2>1. /\ at = "off" /\ at' = "check" /\ todo' = events /\ pc = "call"
        /\ UNCHANGED <<node, file, mpc, noticed, between>>
    BY <1>11 DEF Rescan, InCallback, Batch, history
  <2>2. Pending = {} /\ Pending' = ToSet(events) /\ mpc = "wait"
    BY <1>0, <2>1 DEF Pending, Control
  <2>3. Watching' = Watching /\ Accounted \subseteq Accounted'
    BY <2>1, <2>2 DEF Watching, Accounted
  <2>4. QED BY <2>1, <2>2, <2>3 DEF Seen
<1>12. CASE RescanReturns
  <2>1. /\ at = "check" /\ todo = <<>> /\ at' = "off" /\ pc = "call"
        /\ UNCHANGED <<node, file, events, mpc, noticed, between>>
    BY <1>12 DEF RescanReturns, InCallback, kernelVars, history
  <2>2. Pending = {} /\ mpc = "wait"
    BY <1>0, <2>1 DEF Pending, ToSet, Control
  <2>3. Watching' = Watching /\ Accounted \subseteq Accounted'
    BY <2>1, <2>2 DEF Watching, Accounted
  <2>4. QED BY <2>1, <2>2, <2>3 DEF Seen
<1>13. CASE Read \/ ReadReturns \/ ReadGone
  <2>1. /\ at \in {"off", "read"} /\ at' \in {"off", "read"} /\ pc = "call"
        /\ UNCHANGED <<node, events, mpc, noticed, between>>
    BY <1>13 DEF Read, ReadReturns, ReadGone, InCallback, kernelVars, plugVars, history
  <2>2. Pending = {} /\ Pending' = {} /\ mpc = "wait"
    BY <1>0, <2>1 DEF Pending, Control
  <2>3. file' = file \/ (file[Called].kind = "gone" /\ file' = [file EXCEPT ![Called] = Free])
    BY <1>13 DEF Read, ReadReturns, ReadGone, InCallback, CloseFile, kernelVars
  <2>4. Watching => Watching'
    BY <1>0, <2>3 DEF Watching, FileTable
  <2>5. Accounted' = Accounted
    BY <2>1, <2>2 DEF Accounted
  <2>6. QED BY <2>1, <2>2, <2>4, <2>5 DEF Seen
<1>14. CASE \/ (\E n \in Node : Input(n)) \/ Signal \/ UNCHANGED vars
            \/ Test \/ Enter \/ Select \/ Walk
  <2>1. UNCHANGED <<node, file, events, at, todo, noticed, between>>
    BY <1>14 DEF Input, Signal, Test, Enter, Select, Walk, vars, kernelVars, plugVars, history
  <2>2. \/ mpc' = mpc
        \/ mpc \notin {"init", "walk", "done"} /\ mpc' \notin {"init", "walk", "done"}
    BY <1>14 DEF Input, Signal, Test, Enter, Select, Walk, vars
  <2>3. Accounted' = Accounted /\ Watching' = Watching
    BY <2>1 DEF Accounted, Pending, Watching
  <2>4. QED BY <2>1, <2>2, <2>3 DEF Seen
<1>15. QED BY <1>1, <1>2, <1>3, <1>4, <1>5, <1>6, <1>7, <1>8, <1>9, <1>10, <1>11, <1>12,
              <1>13, <1>14
              DEF Next, Daemon, Plugging, Main, Callback, Kernel

\* Once the watch is set, a device that is there has been examined, or its node
\* is in the buffer of inotify or among those device_plugged is called for next,
\* or it is one that was plugged in after walk() had opened the directory and
\* before the watch was set: whatever else is plugged in and when.
THEOREM NoneUnnoticed == Spec => []Noticed
<1>1. Init => Inv /\ Seen
  BY InvInit DEF Init, Seen, Watching, Free
<1>2. Inv /\ Seen /\ [Next]_vars => (Inv /\ Seen)'
  BY InvStep, SeenStep
<1>3. Inv /\ Seen => Noticed
  <2> SUFFICES ASSUME Inv, Seen PROVE Noticed
    OBVIOUS
  <2>1. todo \in Seq(Node) /\ Control
    BY DEF Inv, TypeOK
  <2>2. Pending \subseteq ToSet(todo)
    BY <2>1, TailSet DEF Pending, Control
  <2>3. QED BY <2>2 DEF Seen, Accounted, Noticed, Announced, Watching
<1>4. QED BY <1>1, <1>2, <1>3, PTL DEF Spec

---------------------------------------------------------------------------
(* The daemon does not block where it has read.                            *)

Plugs == {"check", "create", "line", "add"}

\* A member whose bit is set for a reason.
Justified(f) == \/ f \in ReadyFds
                \/ f \in fresh /\ \E h \in Fd : file[h].kind = "inotify" /\ f < h

\* The bits the walk has still to come to are justified, but for the member
\* whose callback is at work.
Ahead ==
  /\ mpc \notin {"walk", "wait"} => at = "off"
  /\ pc = "walk" => at = "off"
  /\ pc = "call" /\ at \in Plugs => file[Called].kind = "inotify"
  /\ \A g, h \in Fd : file[g].kind = "inotify" /\ file[h].kind = "inotify" => g = h
  /\ mpc \in {"init", "walk"} => ~Watching
  /\ pc \in {"walk", "call"} =>
       \A i \in DOMAIN members :
         here <= i /\ members[i] \in rfds /\ (i = here => at = "off") => Justified(members[i])

\* Steps that leave the queue alone and take no data from it.
LEMMA AheadKept ==
  ASSUME Ahead, Inv, UNCHANGED <<members, rfds, pc, here, fresh>>,
         \A f \in ToSet(members) : f \in ReadyFds => f \in ReadyFds',
         \A h \in Fd : file'[h].kind = "inotify" <=> file[h].kind = "inotify",
         mpc' \notin {"walk", "wait"} => at' = "off",
         mpc' \in {"init", "walk"} => mpc \in {"init", "walk"},
         pc \in {"walk", "call"} => /\ at' = "off" <=> at = "off"
                                    /\ at' \in Plugs => at \in Plugs
  PROVE  Ahead'
<1>0. /\ members \in Seq(Fd) /\ ToSet(members) \subseteq Fd
      /\ pc = "call" => Called \in ToSet(members)
  BY QueueFacts DEF Inv, OpenFds
<1>1. Watching' <=> Watching
  BY DEF Watching
<1>2. pc = "call" /\ at' \in Plugs => file'[Called'].kind = "inotify"
  BY <1>0 DEF Ahead, Called
<1>3. \A i \in DOMAIN members : members[i] \in ToSet(members)
  BY DEF ToSet
<1>4. \A i \in DOMAIN members : Justified(members[i]) => Justified(members[i])'
  BY <1>0, <1>3 DEF Justified
<1>5. QED BY <1>1, <1>2, <1>4 DEF Ahead

\* The members, read from the list.
LEMMA MembersFacts ==
  ASSUME Inv
  PROVE  /\ members \in Seq(Fd) /\ Len(members) \in Nat /\ DOMAIN members = 1 .. Len(members)
         /\ \A i \in 1 .. Len(members) : members[i] \in Fd /\ members[i] \in ToSet(members)
         /\ \A i, j \in 1 .. Len(members) : members[i] = members[j] => i = j
         /\ \A i, j \in 1 .. Len(members) : i < j => members[i] > members[j]
         /\ here \in 0 .. Len(members) + 1
         /\ pc = "call" => here \in 1 .. Len(members) /\ Called \in rfds
<1>1. /\ members \in Seq(Fd) /\ Q!Sorted /\ here \in 0 .. Len(members) + 1
      /\ pc = "call" => here \in DOMAIN members /\ members[here] \in rfds
  BY DEF Inv, Q!CoreInv, Q!TypeOK, Q!VisitedArmed
<1>2. Len(members) \in Nat /\ DOMAIN members = 1 .. Len(members)
  BY <1>1, LenProperties
<1>3. \A i \in 1 .. Len(members) : members[i] \in Fd /\ members[i] \in ToSet(members)
  BY <1>1, <1>2, ElementOfSeq DEF ToSet
<1>4. \A i, j \in 1 .. Len(members) : i < j => members[i] > members[j]
  BY <1>1, <1>2 DEF Q!Sorted
<1>5. \A i, j \in 1 .. Len(members) : members[i] = members[j] => i = j
  <2> SUFFICES ASSUME NEW i \in 1 .. Len(members), NEW j \in 1 .. Len(members),
                      members[i] = members[j]
               PROVE  i = j
    OBVIOUS
  <2>1. members[i] \in Nat
    BY <1>3, FdAssumption
  <2>2. ~(i < j) /\ ~(j < i)
    BY <1>4, <2>1
  <2>3. QED BY <2>2
<1>6. QED BY <1>1, <1>2, <1>3, <1>4, <1>5 DEF Called

\* What the kernel does, and what device_plugged does short of adding a line.
LEMMA OutsideAhead ==
  ASSUME Inv, Ahead, Plug \/ (\E n \in Node : Unplug(n) \/ Input(n))
  PROVE  Ahead'
<1>0. file \in FileTable /\ AliveOnly /\ ToSet(members) \subseteq Fd /\ events \in Seq(Node)
  BY QueueFacts DEF Inv, TypeOK, FileTable, OpenFds
<1>1. CASE Plug
  <2>1. PICK n \in Node : events' = Report(n)
    BY <1>1 DEF Plug, Lowest, FreeNodes
  <2>2. UNCHANGED <<members, rfds, pc, here, fresh, file, data, at, mpc>>
    BY <1>1 DEF Plug, queueVars
  <2>3. events # <<>> => events' # <<>>
    BY <1>0, <2>1, AppendProperties, EmptySeq DEF Report
  <2>4. \A f \in ToSet(members) : f \in ReadyFds => f \in ReadyFds'
    BY <2>2, <2>3 DEF ReadyFds
  <2>5. mpc' \notin {"walk", "wait"} => at' = "off"
    BY <2>2 DEF Ahead
  <2>6. QED BY <2>2, <2>4, <2>5, AheadKept
<1>2. ASSUME NEW n \in Node, Unplug(n) PROVE Ahead'
  <2>1. /\ UNCHANGED <<members, rfds, pc, here, fresh, events, at, mpc>>
        /\ file' = Orphan(file, n) /\ data' = data \cap Alive(file')
    BY <1>2 DEF Unplug, plugVars, queueVars
  <2>2. \A f \in Fd : file'[f] = file[f] \/ (file[f].kind = "event" /\ file'[f].kind = "gone")
    BY <1>0, <2>1, OrphanFacts
  <2>3. \A f \in ToSet(members) : f \in ReadyFds => f \in ReadyFds'
    BY <2>1, <2>2 DEF ReadyFds, Alive
  <2>4. mpc' \notin {"walk", "wait"} => at' = "off"
    BY <2>1 DEF Ahead
  <2>5. QED BY <2>1, <2>2, <2>3, <2>4, AheadKept
<1>3. ASSUME NEW n \in Node, Input(n) PROVE Ahead'
  <2>1. /\ UNCHANGED <<members, rfds, pc, here, fresh, events, file, at, mpc>>
        /\ data \subseteq data'
    BY <1>3 DEF Input, plugVars, queueVars
  <2>2. \A f \in ToSet(members) : f \in ReadyFds => f \in ReadyFds'
    BY <2>1 DEF ReadyFds
  <2>3. mpc' \notin {"walk", "wait"} => at' = "off"
    BY <2>1 DEF Ahead
  <2>4. QED BY <2>1, <2>2, <2>3, AheadKept
<1>4. QED BY <1>1, <1>2, <1>3

LEMMA PluggingAhead ==
  ASSUME Inv, Ahead,
         CheckDevice \/ CreateFails \/ CreateUinput \/ CreateLine \/ LineFails \/ AddFails
  PROVE  Ahead'
<1>0. /\ file \in FileTable /\ Control /\ MembersRead /\ events \in Seq(Node)
      /\ ToSet(members) \subseteq OpenFds /\ ToSet(members) \subseteq Fd
  BY QueueFacts DEF Inv, TypeOK, FileTable, OpenFds
<1>1. /\ at \in Plugs /\ at' \in Plugs
      /\ UNCHANGED <<members, rfds, pc, here, fresh, mpc>>
  BY DEF CheckDevice, CreateFails, CreateUinput, CreateLine, LineFails, AddFails, NextNode,
         Plugs, queueVars
<1>2. /\ mpc' \notin {"walk", "wait"} => at' = "off"
      /\ at # "off" /\ at' # "off"
  BY <1>1 DEF Ahead, Plugs
<1>3. SUFFICES /\ \A f \in ToSet(members) : f \in ReadyFds => f \in ReadyFds'
               /\ \A h \in Fd : file'[h].kind = "inotify" <=> file[h].kind = "inotify"
  BY <1>1, <1>2, AheadKept
<1>4. CASE CheckDevice \/ CreateFails
  BY <1>4 DEF CheckDevice, CreateFails, ReadyFds, kernelVars
<1>5. CASE CreateUinput \/ CreateLine
  <2>1. PICK u \in Fd, k \in {"uinput", "event"} :
          /\ file[u] = Free
          /\ \E n : file' = [file EXCEPT ![u] = [kind |-> k, node |-> n]]
    BY <1>5 DEF CreateUinput, CreateLine, Lowest, FreeFds, OpenFds
  <2>2. file'[u].kind = k /\ \A f \in Fd \ {u} : file'[f] = file[f]
    BY <1>0, <2>1 DEF FileTable
  <2>3. u \notin ToSet(members) /\ file[u].kind = "free" /\ data' = data
    BY <1>0, <1>5, <2>1 DEF OpenFds, Free, CreateUinput, CreateLine
  <2>4. events # <<>> => events' # <<>>
    <3>1. CASE CreateUinput
      <4>1. PICK m \in Node : events' = Report(m)
        BY <3>1 DEF CreateUinput, Lowest, FreeNodes
      <4>2. QED BY <1>0, <4>1, AppendProperties, EmptySeq DEF Report
    <3>2. CASE CreateLine
      BY <3>2 DEF CreateLine
    <3>3. QED BY <1>5, <3>1, <3>2
  <2>5. QED BY <1>0, <2>2, <2>3, <2>4 DEF ReadyFds
<1>6. ASSUME NEW fs \in FileTable, DestroyUinput(fs, ufd), at \in {"line", "add"},
             \A f \in Fd : \/ fs[f] = file[f]
                           \/ /\ fs[f] = Free /\ file[f].kind # "inotify"
                              /\ f \notin ToSet(members),
             events' = events
      PROVE  /\ \A f \in ToSet(members) : f \in ReadyFds => f \in ReadyFds'
             /\ \A h \in Fd : file'[h].kind = "inotify" <=> file[h].kind = "inotify"
  <2>1. ufd \in Fd /\ file[ufd].kind = "uinput" /\ ufd \notin ToSet(members)
    BY <1>0, <1>6 DEF Control, MembersRead
  <2>2. TypeOK
    BY DEF Inv
  <2>3. /\ file'[ufd] = Free
        /\ \A f \in Fd \ {ufd} : file'[f] = fs[f]
                                 \/ (fs[f].kind = "event" /\ file'[f].kind = "gone")
    BY <1>6, <2>1, <2>2, DestroyFacts
  <2>4. data' = data \cap Alive(file')
    BY <1>6 DEF DestroyUinput
  <2>5. \A f \in ToSet(members) : f \in Fd \ {ufd} /\ fs[f] = file[f]
    BY <1>0, <1>6, <2>1
  <2>6. \A f \in ToSet(members) : f \in ReadyFds => f \in ReadyFds'
    BY <1>6, <2>3, <2>4, <2>5 DEF ReadyFds, Alive
  <2>7. \A h \in Fd : file'[h].kind = "inotify" <=> file[h].kind = "inotify"
    BY <1>6, <2>1, <2>3 DEF Free
  <2>8. QED BY <2>6, <2>7
<1>7. CASE LineFails
  <2>1. DestroyUinput(file, ufd) /\ at = "line" /\ events' = events
    BY <1>7 DEF LineFails
  <2>2. QED BY <1>0, <1>6, <2>1
<1>8. CASE AddFails
  <2> DEFINE fs == [file EXCEPT ![lfd] = Free]
  <2>1. DestroyUinput(fs, ufd) /\ at = "add" /\ events' = events
    BY <1>8 DEF AddFails
  <2>2. lfd \in Fd /\ lfd \notin ToSet(members) /\ file[lfd].kind \in {"event", "gone"}
    BY <1>0, <2>1 DEF Control
  <2>3. fs \in FileTable
    <3>1. Free \in [kind : Kind, node : Node \cup {NoNode}]
      BY DEF Free, Kind
    <3>2. QED BY <1>0, <3>1 DEF FileTable
  <2>4. \A f \in Fd : \/ fs[f] = file[f]
                      \/ /\ fs[f] = Free /\ file[f].kind # "inotify"
                         /\ f \notin ToSet(members)
    BY <1>0, <2>2 DEF FileTable
  <2> HIDE DEF fs
  <2>5. QED BY <1>6, <2>1, <2>3, <2>4
<1>9. QED BY <1>4, <1>5, <1>7, <1>8

\* A line is added from the callback of the watch only: behind the walk, or
\* below the watch's own descriptor.
LEMMA AddLineAhead ==
  ASSUME Inv, Ahead, AddLine
  PROVE  Ahead'
<1>0. /\ at = "add" /\ at' = "check" /\ lfd \in Fd /\ lfd \notin ToSet(members)
      /\ UNCHANGED <<pc, file, data, events, mpc>>
      /\ rfds' = rfds \cup {lfd} /\ fresh' = fresh \cup {lfd}
  BY DEF Inv, Control, AddLine, NextNode, Queue!Add
<1>1. Inv'
  BY AddLineStep
<1>2. PICK p \in 1 .. Len(members) + 1 :
        /\ here' = IF p <= here THEN here + 1 ELSE here
        /\ Len(members') = Len(members) + 1
        /\ \A i \in 1 .. Len(members) + 1 :
             members'[i] = IF i < p THEN members[i]
                           ELSE IF i = p THEN lfd ELSE members[i - 1]
  <2>1. PICK p \in Queue!InsertPos(members, lfd) :
          members' = Queue!InsertAt(members, p, lfd) /\ here' = Queue!HereAfterInsert(p)
    BY DEF AddLine, Queue!Add
  <2>2. p \in 1 .. Len(members) + 1 /\ members' = InsertAt(members, p, lfd)
    BY <2>1 DEF Queue!InsertPos, Queue!InsertAt, InsertAt
  <2>3. here' = IF p <= here THEN here + 1 ELSE here
    BY <2>1 DEF Queue!HereAfterInsert
  <2>4. members \in Seq(Fd)
    BY MembersFacts
  <2>5. /\ Len(members') = Len(members) + 1
        /\ \A i \in 1 .. Len(members) + 1 :
             members'[i] = IF i < p THEN members[i]
                           ELSE IF i = p THEN lfd ELSE members[i - 1]
    <3> DEFINE added == InsertAt(members, p, lfd)
    <3>1. p \in 1 .. Len(members) + 1 /\ lfd \in Fd
      BY <1>0, <2>2
    <3>2. /\ Len(added) = Len(members) + 1
          /\ \A i \in 1 .. Len(members) + 1 :
               added[i] = IF i < p THEN members[i]
                          ELSE IF i = p THEN lfd ELSE members[i - 1]
      BY <2>4, <3>1, InsertAtFacts
    <3>3. members' = added
      BY <2>2
    <3> HIDE DEF added
    <3>4. QED BY <3>2, <3>3
  <2>6. QED BY <2>2, <2>3, <2>5
<1>3. /\ DOMAIN members = 1 .. Len(members) /\ DOMAIN members' = 1 .. Len(members) + 1
      /\ Len(members) \in Nat /\ here \in 0 .. Len(members) + 1
  BY <1>1, <1>2, MembersFacts DEF Inv, Q!CoreInv, Q!TypeOK
<1>4. pc # "walk" /\ mpc \in {"walk", "wait"}
  BY <1>0 DEF Ahead
<1>5. CASE pc = "call"
  <2>1. here \in 1 .. Len(members) /\ file[members[here]].kind = "inotify"
        /\ members[here] \in Fd
    BY <1>0, <1>5, MembersFacts DEF Ahead, Plugs, Called
  <2>2. here' \in 1 .. Len(members) + 1 /\ members'[here'] = members[here]
    BY <1>2, <1>3, <2>1
  <2>3. \A i \in 1 .. Len(members) + 1 : here' < i => members'[here'] > members'[i]
    BY <1>1, <1>3, <2>2 DEF Inv, Q!CoreInv, Q!Sorted
  <2>4. ASSUME NEW i \in 1 .. Len(members) + 1, here' < i, members'[i] \in rfds'
        PROVE  Justified(members[i])'
    <3>1. CASE members'[i] = lfd
      <4>1. lfd < members[here]
        <5>1. members[here] > lfd
          BY <2>2, <2>3, <2>4, <3>1
        <5>2. QED BY <1>0, <2>1, <5>1, FdAssumption
      <4>2. QED BY <1>0, <2>1, <3>1, <4>1 DEF Justified
    <3>2. CASE members'[i] # lfd
      <4>1. PICK j \in 1 .. Len(members) : here < j /\ members'[i] = members[j]
        <5>1. CASE i < p
          <6>1. i \in 1 .. Len(members) /\ here < i /\ members'[i] = members[i]
            BY <1>2, <1>3, <2>4, <5>1
          <6>2. QED BY <6>1
        <5>2. CASE ~(i < p)
          <6>1. i # p
            BY <1>2, <3>2
          <6>2. /\ i - 1 \in 1 .. Len(members) /\ here < i - 1
                /\ members'[i] = members[i - 1]
            BY <1>2, <1>3, <2>4, <5>2, <6>1
          <6>3. QED BY <6>2
        <5>3. QED BY <5>1, <5>2
      <4>2. members[j] \in rfds /\ here <= j /\ j # here
        BY <1>0, <1>3, <2>4, <3>2, <4>1
      <4>3. Justified(members[j])
        BY <1>3, <1>5, <4>1, <4>2 DEF Ahead
      <4>4. QED BY <1>0, <4>1, <4>3 DEF Justified, ReadyFds
    <3>3. QED BY <3>1, <3>2
  <2>5. pc' = "call" /\ at' # "off" /\ file'[Called'].kind = "inotify"
    BY <1>0, <1>5, <2>1, <2>2 DEF Called
  <2>6. \A i \in DOMAIN members' : here' <= i /\ i # here' => here' < i
    BY <1>3, <2>2
  <2>7. QED BY <1>0, <1>3, <1>4, <2>4, <2>5, <2>6 DEF Ahead, Watching
<1>6. CASE pc # "call"
  BY <1>0, <1>4, <1>6 DEF Ahead, Watching
<1>7. QED BY <1>5, <1>6

\* evf_io_queue_wait itself.
LEMMA QueueAhead ==
  ASSUME Inv, Ahead, Select \/ Walk
  PROVE  Ahead'
<1>0. /\ DOMAIN members = 1 .. Len(members) /\ Len(members) \in Nat
      /\ here \in 0 .. Len(members) + 1
      /\ \A i, j \in 1 .. Len(members) : members[i] = members[j] => i = j
  BY MembersFacts
<1>1. /\ UNCHANGED <<file, data, events, at, members>> /\ mpc \in {"select", "wait"}
      /\ mpc' \in {"test", "wait"} /\ (mpc' = "test" => pc' = "idle")
  BY DEF Select, Walk, kernelVars, plugVars, Queue!SelectReturn, Queue!Walk,
         Queue!VisitSkip, Queue!VisitCall, Queue!WalkEnd, Queue!queue
<1>2. at = "off"
  BY DEF Select, Walk, Ahead, Queue!Walk, Queue!VisitSkip, Queue!VisitCall, Queue!WalkEnd
<1>3. SUFFICES pc' \in {"walk", "call"} =>
                 \A i \in 1 .. Len(members) :
                   here' <= i /\ members[i] \in rfds' => Justified(members[i])'
  BY <1>0, <1>1, <1>2 DEF Ahead, Watching, Plugs
<1>4. CASE Select
  <2>1. rfds' \subseteq ReadyFds
    BY <1>4 DEF Select, Queue!SelectReturn, Queue!SelectResult
  <2>2. QED BY <1>1, <2>1 DEF Justified, ReadyFds
<1>5. CASE Queue!VisitSkip
  <2>1. /\ here' = here + 1 /\ rfds' = rfds \cup {members[here]} /\ here \in DOMAIN members
        /\ pc = "walk" /\ fresh' = fresh
    BY <1>5 DEF Queue!VisitSkip, Queue!Rearm
  <2>2. SUFFICES ASSUME NEW i \in 1 .. Len(members), here' <= i, members[i] \in rfds'
                 PROVE  Justified(members[i])'
    OBVIOUS
  <2>3. here <= i /\ i # here /\ members[i] \in rfds
    BY <1>0, <2>1, <2>2
  <2>4. Justified(members[i])
    BY <1>0, <2>1, <2>3 DEF Ahead
  <2>5. QED BY <1>1, <2>1, <2>4 DEF Justified, ReadyFds
<1>6. CASE Queue!VisitCall
  <2>1. UNCHANGED <<here, rfds, fresh>> /\ pc = "walk"
    BY <1>6 DEF Queue!VisitCall, Queue!queue
  <2>2. \A i \in 1 .. Len(members) :
          here <= i /\ members[i] \in rfds => Justified(members[i])
    BY <1>0, <1>2, <2>1 DEF Ahead
  <2>3. QED BY <1>1, <2>1, <2>2 DEF Justified, ReadyFds
<1>7. CASE Queue!WalkEnd
  BY <1>7 DEF Queue!WalkEnd
<1>8. QED BY <1>4, <1>5, <1>6, <1>7 DEF Walk, Queue!Walk

\* The callbacks: what they take is their own data.
LEMMA CallbackAhead ==
  ASSUME Inv, Ahead, Callback
  PROVE  Ahead'
<1>0. /\ DOMAIN members = 1 .. Len(members) /\ Len(members) \in Nat
      /\ here \in 0 .. Len(members) + 1
      /\ \A i \in 1 .. Len(members) : members[i] \in Fd
      /\ \A i, j \in 1 .. Len(members) : members[i] = members[j] => i = j
  BY MembersFacts
<1>1. /\ pc = "call" /\ here \in 1 .. Len(members) /\ mpc = "wait" /\ mpc' = "wait"
      /\ Called = members[here]
  BY MembersFacts DEF Callback, Rescan, RescanReturns, Read, ReadReturns, ReadGone,
     InCallback, Inv, Control, Called
<1>2. CASE Rescan
  <2>1. /\ UNCHANGED <<members, rfds, pc, here, fresh, file, data>>
        /\ at' = "check" /\ file[Called].kind = "inotify"
    BY <1>2 DEF Rescan, InCallback, queueVars
  <2>2. \A i \in 1 .. Len(members) : i # here => file[members[i]].kind # "inotify"
    BY <1>0, <1>1, <2>1 DEF Ahead
  <2>3. ASSUME NEW i \in 1 .. Len(members), here <= i, i # here, members[i] \in rfds
        PROVE  Justified(members[i])'
    <3>1. Justified(members[i])
      BY <1>0, <1>1, <2>3 DEF Ahead
    <3>2. QED BY <2>1, <2>2, <2>3, <3>1 DEF Justified, ReadyFds
  <2>4. file'[Called'].kind = "inotify"
    BY <2>1 DEF Called
  <2>5. QED BY <1>0, <1>1, <2>1, <2>3, <2>4 DEF Ahead, Watching
<1>3. CASE RescanReturns \/ ReadReturns
  <2>1. /\ UNCHANGED <<file, data, events>> /\ at \in {"check", "read"} /\ at' = "off"
        /\ Queue!Return({})
    BY <1>3 DEF RescanReturns, ReadReturns, kernelVars
  <2>2. UNCHANGED <<members, rfds, fresh>> /\ here' = here + 1 /\ pc' = "walk"
    BY <2>1 DEF Queue!Return, Queue!ClearBit, Queue!HereAfterReturn
  <2>3. ASSUME NEW i \in 1 .. Len(members), here' <= i, members[i] \in rfds
        PROVE  Justified(members[i])'
    <3>1. here <= i /\ i # here
      BY <1>0, <2>2, <2>3
    <3>2. Justified(members[i])
      BY <1>0, <1>1, <2>3, <3>1 DEF Ahead
    <3>3. QED BY <2>1, <2>2, <3>2 DEF Justified, ReadyFds
  <2>4. QED BY <1>0, <1>1, <2>1, <2>2, <2>3 DEF Ahead, Watching, Plugs
<1>4. CASE Read
  <2>1. /\ UNCHANGED <<members, rfds, pc, here, fresh, file, events>>
        /\ at = "off" /\ at' = "read" /\ data \ {Called} \subseteq data'
    BY <1>4 DEF Read, queueVars
  <2>2. ASSUME NEW i \in 1 .. Len(members), here <= i, i # here, members[i] \in rfds
        PROVE  Justified(members[i])'
    <3>1. Justified(members[i]) /\ members[i] # Called
      BY <1>0, <1>1, <2>2 DEF Ahead
    <3>2. QED BY <2>1, <3>1 DEF Justified, ReadyFds
  <2>3. QED BY <1>0, <1>1, <2>1, <2>2 DEF Ahead, Watching, Plugs
<1>5. CASE ReadGone
  <2> DEFINE g == Called
  <2>1. /\ file[g].kind = "gone" /\ at = "off" /\ at' = "off"
        /\ file' = [file EXCEPT ![g] = Free]
        /\ Queue!Return({"REM", "CLOSE"})
        /\ UNCHANGED <<data, events>>
    BY <1>5 DEF ReadGone, InCallback, CloseFile, GoneResult, plugVars
  <2>2. /\ rfds' = rfds \ {g} /\ fresh' = fresh /\ here' = here /\ pc' = "walk"
        /\ \E p \in Queue!DeletePos(members, g) : members' = Queue!RemoveAt(members, p)
    BY <2>1 DEF Queue!Return, Queue!ClearBit, Queue!HereAfterReturn, Called
  <2>3. members' = RemoveAt(members, here)
    BY <1>0, <1>1, <2>2 DEF Queue!DeletePos, Queue!RemoveAt, RemoveAt
  <2>4. /\ Len(members') = Len(members) - 1 /\ members' \in Seq(Fd)
        /\ \A i \in 1 .. Len(members) - 1 :
             members'[i] = IF i < here THEN members[i] ELSE members[i + 1]
    <3>1. members \in Seq(Fd)
      BY MembersFacts
    <3>2. QED BY <1>1, <2>3, <3>1, RemoveAtFacts
  <2>5. DOMAIN members' = 1 .. Len(members) - 1
    BY <2>4, LenProperties
  <2>6. g \in Fd /\ file \in FileTable
    BY <1>0, <1>1 DEF Inv, TypeOK, FileTable
  <2> HIDE DEF g
  <2>7. file'[g] = Free /\ \A f \in Fd \ {g} : file'[f] = file[f]
    BY <2>1, <2>6 DEF FileTable
  <2>8. \A h \in Fd : file'[h].kind = "inotify" <=> file[h].kind = "inotify"
    BY <2>1, <2>7 DEF Free
  <2>9. ASSUME NEW i \in 1 .. Len(members) - 1, here <= i, members'[i] \in rfds'
        PROVE  Justified(members[i])'
    <3>1. /\ i + 1 \in 1 .. Len(members) /\ here <= i + 1 /\ members'[i] = members[i + 1]
          /\ members[i + 1] \in rfds
      BY <1>0, <1>1, <2>2, <2>4, <2>9
    <3>2. Justified(members[i + 1]) /\ members[i + 1] \in Fd \ {g}
      BY <1>0, <1>1, <2>1, <2>2, <2>9, <3>1 DEF Ahead
    <3>3. QED BY <2>1, <2>2, <2>7, <2>8, <3>1, <3>2 DEF Justified, ReadyFds
  <2>10. QED BY <1>1, <2>1, <2>2, <2>5, <2>8, <2>9 DEF Ahead, Watching, Plugs
<1>6. QED BY <1>2, <1>3, <1>4, <1>5 DEF Callback

LEMMA MainAhead ==
  ASSUME Inv, Ahead,
         \/ Test \/ Enter \/ Signal \/ OpenDir \/ Watch \/ WatchFails \/ Cleanup
         \/ UNCHANGED vars
  PROVE  Ahead'
<1>0. Control /\ file \in FileTable
  BY DEF Inv, TypeOK, FileTable
<1>1. CASE Test \/ Enter \/ Signal \/ UNCHANGED vars
  <2>1. /\ UNCHANGED <<members, rfds, pc, here, fresh, file, data, events, at>>
        /\ mpc' = mpc \/ {mpc, mpc'} \subseteq {"test", "enter", "select"}
    BY <1>1 DEF Test, Enter, Signal, vars, queueVars, kernelVars, plugVars
  <2>2. ReadyFds' = ReadyFds /\ (mpc' \notin {"walk", "wait"} => at' = "off")
    BY <2>1 DEF ReadyFds, Ahead
  <2>3. QED BY <2>1, <2>2, AheadKept
<1>2. CASE OpenDir
  <2>1. /\ pc = "idle" /\ pc' = "idle" /\ mpc = "init" /\ mpc' = "walk" /\ file' = file
    BY <1>0, <1>2 DEF OpenDir, Control, queueVars, kernelVars
  <2>2. QED BY <2>1 DEF Ahead, Watching
<1>3. CASE Watch
  <2>1. PICK h \in Fd : file' = [file EXCEPT ![h] = [kind |-> "inotify", node |-> NoNode]]
    BY <1>3 DEF Watch, Lowest, FreeFds
  <2>2. /\ pc = "idle" /\ pc' = "idle" /\ mpc = "walk" /\ mpc' = "test" /\ at' = "off"
    BY <1>0, <1>3 DEF Watch, Control
  <2>3. \A f \in Fd \ {h} : file'[f] = file[f] /\ file[f].kind # "inotify"
    BY <1>0, <2>1, <2>2 DEF FileTable, Ahead, Watching
  <2>4. QED BY <2>2, <2>3 DEF Ahead
<1>4. CASE WatchFails \/ Cleanup
  <2>1. /\ pc = "idle" /\ pc' = "idle" /\ mpc' = "done" /\ at' = "off"
        /\ \A f \in Fd : file'[f] = Free
    BY <1>0, <1>4 DEF WatchFails, Cleanup, ProcessEnds, Control
  <2>2. QED BY <2>1 DEF Ahead, Free
<1>5. QED BY <1>1, <1>2, <1>3, <1>4

\* The daemon waits for a device in read() in one case only: the line was added
\* by the callback of the watch, below the watch's descriptor, and the walk that
\* called it has come to the new line without select() having asked for it.
THEOREM BlocksNowhereElse == Spec => []BlocksOnlyBelow
<1>1. Init => Inv /\ Ahead
  BY InvInit DEF Init, Ahead, Watching, Free
<1>2. Inv /\ Ahead /\ [Next]_vars => (Inv /\ Ahead)'
  BY InvStep, OutsideAhead, PluggingAhead, AddLineAhead, QueueAhead, CallbackAhead, MainAhead
     DEF Next, Daemon, Plugging, Main, Kernel
<1>3. Inv /\ Ahead => BlocksOnlyBelow
  <2> SUFFICES ASSUME Inv, Ahead, Blocked
               PROVE  Called \in fresh /\ \E h \in Fd : file[h].kind = "inotify" /\ Called < h
    BY DEF BlocksOnlyBelow
  <2>1. here \in DOMAIN members /\ here \in Nat /\ members[here] \in rfds /\ Called = members[here]
    BY MembersFacts DEF Blocked, Called
  <2>2. Justified(Called)
    BY <2>1 DEF Ahead, Blocked
  <2>3. QED BY <2>2 DEF Justified, Blocked
<1>4. QED BY <1>1, <1>2, <1>3, PTL DEF Spec
=============================================================================

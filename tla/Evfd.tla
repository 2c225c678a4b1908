-------------------------------- MODULE Evfd --------------------------------
(***************************************************************************)
(* evfd/evfd.c with evf_hotplug.c, evf_line_create/process/destroy and     *)
(* evf_uinput.c, on top of the I/O queue (module IoQueue).                 *)
(*                                                                         *)
(* The daemon opens every configured input device it finds, creates a      *)
(* virtual device for it, and routes what it reads from the one into the   *)
(* other.  Devices come and go while it works.  The kernel's side is here  *)
(* too: the lowest free descriptor and the lowest free eventN are handed   *)
(* out next, an unplugged device leaves its open descriptors behind, and   *)
(* each new node is reported through inotify.                              *)
(***************************************************************************)
EXTENDS Naturals, Sequences, FiniteSets, SequencesExt

CONSTANTS
  Fd,           \* descriptors the process may have
  Node,         \* the numbers N of /dev/input/eventN
  Configured,   \* nodes that some "Device /dev/input/eventN" rule matches
  InitialNodes, \* devices that may be present when evfd starts: sets of nodes
  MaxMembers,   \* queue nodes malloc() can give
  MaxEvents     \* bound: nothing is plugged in while this many events wait

NoFd == 0
NoNode == 0

ASSUME FdAssumption == Fd \subseteq Nat \ {NoFd}
ASSUME NodeAssumption == /\ IsFiniteSet(Node)
                         /\ Node \subseteq Nat \ {NoNode}
                         /\ Configured \subseteq Node
                         /\ InitialNodes \subseteq SUBSET Node
ASSUME BoundAssumption == MaxEvents \in Nat

VARIABLES
  members, rfds, cnt, pc, here, fresh,   \* the queue: see IoQueue
  node,      \* who has eventN: "none", a "phys" device, or "ours" (uinput)
  file,      \* what each descriptor is
  data,      \* descriptors of event devices with unread events
  events,    \* nodes reported by inotify and not read yet
  line,      \* for the descriptor of a line: the uinput descriptor it feeds
  grabbed,   \* descriptors that hold the grab of their device
  mpc,       \* where main() is
  at,        \* where the read callback, or device_plugged, is
  todo,      \* nodes device_plugged is still to be called for
  ufd, lfd,  \* locals of device_plugged: the virtual device and the line
  errno,     \* walk(): a call has failed since the directory was opened
  looping,   \* cleared by the signal handler
  noticed,   \* history: physical devices device_plugged has examined
  between    \* history: others, plugged in after walk() has opened the directory
             \* and before the watch on it

queueVars == <<members, rfds, cnt, pc, here, fresh>>
kernelVars == <<node, file, data, events, grabbed>>
plugVars == <<at, todo, ufd, lfd, errno>>
history == <<noticed, between>>
vars == <<queueVars, kernelVars, plugVars, line, mpc, looping, history>>

Free == [kind |-> "free", node |-> NoNode]
Kind == {"free", "inotify", "event", "gone", "uinput"}

OpenFds == {f \in Fd : file[f] # Free}
Watching == \E f \in Fd : file[f].kind = "inotify"

\* select() reports a descriptor with unread events, and one whose device is
\* gone (the read fails at once with ENODEV).
ReadyFds == {f \in Fd : \/ file[f].kind = "event" /\ f \in data
                        \/ file[f].kind = "gone"
                        \/ file[f].kind = "inotify" /\ events # <<>>}

\* evf_line_destroy closes the descriptor inside the callback that then asks
\* for its removal: for the queue the same as EVF_IO_QUEUE_CLOSE.
Queue == INSTANCE IoQueue WITH
           AddInCallback <- TRUE, RemInCallback <- FALSE, Timeout <- FALSE,
           CntModulus <- 1, ReturnFlags <- {{}, {"REM", "CLOSE"}},
           open <- OpenFds, ready <- ReadyFds, watched <- ToSet(members)

TypeOK ==
  /\ members \in Seq(Fd)
  /\ node \in [Node -> {"none", "phys", "ours"}]
  /\ file \in [Fd -> [kind : Kind, node : Node \cup {NoNode}]]
  /\ data \subseteq OpenFds
  /\ events \in Seq(Node) /\ todo \in Seq(Node)
  /\ line \in [Fd -> Fd \cup {NoFd}]
  /\ grabbed \subseteq OpenFds
  /\ mpc \in {"init", "walk", "test", "enter", "select", "wait", "done"}
  /\ at \in {"off", "check", "create", "line", "add", "read"}
  /\ ufd \in Fd \cup {NoFd} /\ lfd \in Fd \cup {NoFd}
  /\ looping \in BOOLEAN /\ errno \in BOOLEAN
  /\ noticed \subseteq Node /\ between \subseteq Node

Init ==
  /\ members = <<>> /\ rfds = {} /\ cnt = 0 /\ pc = "idle" /\ here = 0 /\ fresh = {}
  /\ \E present \in InitialNodes :
       node = [n \in Node |-> IF n \in present THEN "phys" ELSE "none"]
  /\ file = [f \in Fd |-> Free]
  /\ data = {} /\ events = <<>> /\ grabbed = {}
  /\ line = [f \in Fd |-> NoFd]
  /\ mpc = "init"
  /\ at = "off" /\ todo = <<>> /\ ufd = NoFd /\ lfd = NoFd /\ errno = FALSE
  /\ looping = TRUE
  /\ noticed = {} /\ between = {}

---------------------------------------------------------------------------
(* The kernel.                                                             *)

Lowest(S) == {x \in S : \A y \in S : x <= y}
FreeFds == Fd \ OpenFds
FreeNodes == {n \in Node : node[n] = "none"}

Report(n) == IF Watching THEN Append(events, n) ELSE events

\* readdir() may return a node that has come since the directory was opened,
\* or not.
Listed(n) == IF mpc = "walk" THEN {todo, Append(todo, n)} ELSE {todo}

\* The descriptors of a device that is unplugged stay open.
Orphan(fs, n) == [f \in Fd |-> IF fs[f] = [kind |-> "event", node |-> n]
                                 THEN [kind |-> "gone", node |-> NoNode] ELSE fs[f]]

Alive(fs) == {f \in Fd : fs[f].kind = "event"}

\* A device with a grab delivers its events to the descriptor that has it.
Receivers(n) ==
  LET readers == {f \in Fd : file[f] = [kind |-> "event", node |-> n]}
  IN  IF readers \cap grabbed # {} THEN readers \cap grabbed ELSE readers

Plug == \E n \in Lowest(FreeNodes) :
  /\ mpc # "done"
  /\ Len(events) + Len(todo) < MaxEvents
  /\ node' = [node EXCEPT ![n] = "phys"]
  /\ events' = Report(n)
  /\ todo' \in Listed(n)
  /\ between' = IF mpc = "walk" THEN between \cup {n} ELSE between
  /\ UNCHANGED <<queueVars, at, ufd, lfd, errno, file, data, grabbed, line, mpc, looping, noticed>>

Unplug(n) ==
  /\ mpc # "done"
  /\ node[n] = "phys"
  /\ node' = [node EXCEPT ![n] = "none"]
  /\ file' = Orphan(file, n)
  /\ data' = data \cap Alive(file')
  /\ grabbed' = grabbed \cap Alive(file')
  /\ noticed' = noticed \ {n}
  /\ between' = between \ {n}
  /\ UNCHANGED <<queueVars, plugVars, events, line, mpc, looping>>

\* A key is pressed or the device is moved.
Input(n) ==
  /\ node[n] = "phys"
  /\ Receivers(n) \ data # {}
  /\ data' = data \cup Receivers(n)
  /\ UNCHANGED <<queueVars, plugVars, node, file, events, grabbed, line, mpc, looping, history>>

\* SIGQUIT, SIGTERM or SIGINT: select() is interrupted if it is being waited
\* in; a read() is not (signal() sets SA_RESTART), and goes on waiting.
Signal ==
  /\ looping /\ mpc # "done"
  /\ looping' = FALSE
  /\ mpc' = IF mpc = "select" THEN "test" ELSE mpc
  /\ UNCHANGED <<queueVars, kernelVars, plugVars, line, history>>

---------------------------------------------------------------------------
(* device_plugged, called for each node of todo in turn.                   *)

\* walk() tests errno after the last device, and nothing clears it between
\* them: a call that fails sets it, and a device that is set up well may
\* (evf_input_compare looks for the device of every rule).  A node that is gone
\* by now cannot be opened; or it had gone before readdir() came to it.
NextNode(failed) ==
  /\ at' = "check" /\ todo' = Tail(todo) /\ ufd' = NoFd /\ lfd' = NoFd
  /\ errno' \in IF mpc = "walk" THEN {errno \/ failed, TRUE} ELSE {FALSE}

\* Mutant: nodes created by evfd are not recognised.
OurDeviceNever(n) == FreeFds = {} \/ node[n] = "none"

\* our_input_device: the node cannot be opened, or is a "uinput device".
OurDevice(n) == FreeFds = {} \/ node[n] # "phys"

CheckDevice ==
  /\ at = "check" /\ todo # <<>>
  /\ noticed' = IF node[Head(todo)] = "phys" THEN noticed \cup {Head(todo)} ELSE noticed
  /\ between' = between \ noticed'
  /\ \/ OurDevice(Head(todo)) /\ NextNode(node[Head(todo)] = "phys")
     \/ ~OurDevice(Head(todo)) /\ at' = "create" /\ UNCHANGED <<todo, ufd, lfd, errno>>
  /\ UNCHANGED <<queueVars, kernelVars, line, mpc, looping>>

\* evf_uinput_create: a descriptor, and a new node in /dev/input.
CreateUinput ==
  /\ at = "create"
  /\ \E u \in Lowest(FreeFds), n \in Lowest(FreeNodes) :
       /\ file' = [file EXCEPT ![u] = [kind |-> "uinput", node |-> n]]
       /\ node' = [node EXCEPT ![n] = "ours"]
       /\ events' = Report(n)
       /\ todo' \in Listed(n)
       /\ ufd' = u
  /\ at' = "line"
  /\ UNCHANGED <<queueVars, data, grabbed, lfd, errno, line, mpc, looping, history>>

\* No descriptor or event number is left, or the kernel refuses: open, write or
\* UI_DEV_CREATE may fail at any time.
CreateFails ==
  /\ at = "create"
  /\ NextNode(TRUE)
  /\ UNCHANGED <<queueVars, kernelVars, line, mpc, looping, history>>

\* evf_uinput_destroy, and what becomes of readers of its node; fs is the
\* descriptor table the caller leaves.
DestroyUinput(fs, u) ==
  /\ node' = [node EXCEPT ![file[u].node] = "none"]
  /\ file' = [Orphan(fs, file[u].node) EXCEPT ![u] = Free]
  /\ data' = data \cap Alive(file')
  /\ grabbed' = grabbed \cap Alive(file')

\* Mutant: the line is given the descriptor of another line's output.
OutputFirst(u) == CHOOSE f \in Fd : file[f].kind = "uinput"

\* The private pointer of the line's commit filter.
Output(u) == u

\* evf_line_create opens the node again, by name; the profile and a filter
\* file are open at the same time while the filters are loaded.
CanCreateLine(n) == /\ node[n] # "none"
                    /\ n \in Configured
                    /\ Cardinality(FreeFds) >= 3

CreateLine ==
  LET n == Head(todo) IN
  /\ at = "line"
  /\ CanCreateLine(n)
  /\ \E f \in Lowest(FreeFds) :
       /\ file' = [file EXCEPT ![f] = [kind |-> "event", node |-> n]]
       /\ line' = [line EXCEPT ![f] = Output(ufd)]
       /\ lfd' = f
  /\ at' = "add"
  /\ UNCHANGED <<queueVars, node, data, events, grabbed, todo, ufd, errno, mpc, looping, history>>

\* The node is gone, nothing is configured for it, or no descriptor is left; or,
\* at any time, its profile has an error or malloc() fails.
LineFails ==
  /\ at = "line"
  /\ DestroyUinput(file, ufd)
  /\ NextNode(node[Head(todo)] = "none")
  /\ UNCHANGED <<queueVars, events, line, mpc, looping, history>>

\* Mutant: the grab is never attempted.
GrabNone(f) == grabbed

\* evf_input_grab fails on a device that is gone or that someone has grabbed.
Grab(f) == IF file[f].kind = "event" /\ \A g \in grabbed : file[g] # file[f]
             THEN grabbed \cup {f} ELSE grabbed

AddLine ==
  /\ at = "add"
  /\ Len(members) < MaxMembers
  /\ UNCHANGED <<node, file, data, events, line, mpc, looping, history>>
  /\ Queue!Add(lfd)
  /\ grabbed' = Grab(lfd)
  /\ NextNode(lfd \notin Grab(lfd))

\* malloc() fails in evf_io_queue_add.
AddFails ==
  /\ at = "add"
  /\ DestroyUinput([file EXCEPT ![lfd] = Free], ufd)
  /\ line' = [line EXCEPT ![lfd] = NoFd]
  /\ NextNode(TRUE)
  /\ UNCHANGED <<queueVars, events, mpc, looping, history>>

---------------------------------------------------------------------------
(* main().                                                                 *)

\* With the process the kernel closes whatever is still open.
ProcessEnds ==
  /\ mpc' = "done"
  /\ file' = [f \in Fd |-> Free]
  /\ node' = [n \in Node |-> IF node[n] = "ours" THEN "none" ELSE node[n]]
  /\ line' = [f \in Fd |-> NoFd]
  /\ data' = {} /\ grabbed' = {} /\ events' = <<>> /\ noticed' = {} /\ between' = {}
  /\ members' = <<>> /\ rfds' = {} /\ fresh' = {}
  /\ at' = "off" /\ errno' = FALSE
  /\ UNCHANGED <<cnt, pc, here, todo, ufd, lfd, looping>>

\* walk(): the nodes that are there when the directory is opened; the stream
\* is never closed.
OpenDir ==
  /\ mpc = "init"
  /\ mpc' = "walk"
  /\ at' = "check"
  /\ todo' \in SetToSeqs(Node \ FreeNodes)
  /\ UNCHANGED <<queueVars, kernelVars, ufd, lfd, errno, line, looping, history>>

\* inotify_init, inotify_add_watch, evf_io_queue_add: the queue is idle.
Watch ==
  /\ mpc = "walk" /\ at = "check" /\ todo = <<>>
  /\ ~errno
  /\ Len(members) < MaxMembers
  /\ \E h \in Lowest(FreeFds) :
       /\ file' = [file EXCEPT ![h] = [kind |-> "inotify", node |-> NoNode]]
       /\ \E p \in Queue!InsertPos(members, h) : members' = InsertAt(members, p, h)
       /\ rfds' = rfds \cup {h}
       /\ fresh' = fresh \cup {h}
  /\ mpc' = "test"
  /\ at' = "off"
  /\ UNCHANGED <<cnt, pc, here, node, data, events, grabbed, todo, ufd, lfd, errno, line, looping, history>>

\* walk() (errno), inotify_init (FreeFds = {}) or malloc() in evf_io_queue_add
\* fails, the last at any time: main() returns 1.
WatchFails ==
  /\ mpc = "walk" /\ at = "check" /\ todo = <<>>
  /\ ProcessEnds

\* Mutant: the flag is not looked at.
AlwaysLooping == mpc # "done"

StillLooping == looping

Test ==
  /\ mpc = "test"
  /\ StillLooping
  /\ mpc' = "enter"
  /\ UNCHANGED <<queueVars, kernelVars, plugVars, line, looping, history>>

Enter ==
  /\ mpc = "enter"
  /\ mpc' = "select"
  /\ UNCHANGED <<queueVars, kernelVars, plugVars, line, looping, history>>

Select ==
  /\ mpc = "select"
  /\ UNCHANGED <<kernelVars, plugVars, line, looping, history>>
  /\ Queue!SelectReturn
  /\ mpc' = "wait"

Walk ==
  /\ mpc = "wait"
  /\ UNCHANGED <<kernelVars, plugVars, line, looping, history>>
  /\ Queue!Walk
  /\ mpc' = IF pc' = "idle" THEN "test" ELSE mpc

Called == members[here]
InCallback(kind) == pc = "call" /\ file[Called].kind = kind

\* Mutant: only the first event of the buffer is looked at.
BatchFirst == SubSeq(events, 1, 1)

\* What one read() of the inotify descriptor yields: all that is there (1024
\* bytes hold more than 20 events, more than MaxEvents).
Batch == events

\* hotplug_data calls evf_hotplug_rescan.  Deletions are not in the model:
\* evfd gives no callback for them, they are read and forgotten.
Rescan ==
  /\ InCallback("inotify") /\ at = "off"
  /\ events # <<>>
  /\ at' = "check"
  /\ todo' = Batch
  /\ events' = <<>>
  /\ UNCHANGED <<queueVars, node, file, data, grabbed, ufd, lfd, errno, line, mpc, looping, history>>

RescanReturns ==
  /\ InCallback("inotify") /\ at = "check" /\ todo = <<>>
  /\ UNCHANGED <<kernelVars, todo, ufd, lfd, errno, line, mpc, looping, history>>
  /\ Queue!Return({})
  /\ at' = "off"

\* line_data: the read blocks while the device has nothing; what is read is
\* written to the line's virtual device, and to whoever reads that one.
Read ==
  /\ InCallback("event") /\ at = "off"
  /\ Called \in data
  /\ LET out == Receivers(file[line[Called]].node)
     IN  data' \in {data \cup out, (data \ {Called}) \cup out}
  /\ at' = "read"
  /\ UNCHANGED <<queueVars, node, file, events, grabbed, todo, ufd, lfd, errno, line, mpc, looping, history>>

ReadReturns ==
  /\ pc = "call" /\ at = "read"
  /\ UNCHANGED <<kernelVars, todo, ufd, lfd, errno, line, mpc, looping, history>>
  /\ Queue!Return({})
  /\ at' = "off"

\* Mutant: the line is taken out of the queue but its descriptor stays open.
CloseForgotten(f) == file

CloseFile(f) == [file EXCEPT ![f] = Free]

\* Mutant: the member whose descriptor was closed stays in the queue.
GoneResultKeep == {"CLOSE"}

\* line_data returns EVF_IO_QUEUE_REM, after evf_line_destroy has closed the
\* descriptor.
GoneResult == {"REM", "CLOSE"}

\* line_data on a device that is gone: the line is destroyed, its virtual
\* device, which only the discarded result of evf_line_destroy names, is not.
ReadGone ==
  /\ InCallback("gone") /\ at = "off"
  /\ file' = CloseFile(Called)
  /\ line' = [line EXCEPT ![Called] = NoFd]
  /\ UNCHANGED <<node, data, events, grabbed, plugVars, mpc, looping, history>>
  /\ Queue!Return(GoneResult)

\* The cleanup loop and the release of the lock, then the end of the process.
Cleanup ==
  /\ mpc = "test"
  /\ ~StillLooping
  /\ ProcessEnds

---------------------------------------------------------------------------

Plugging == \/ CheckDevice \/ CreateUinput \/ CreateFails \/ CreateLine
            \/ LineFails \/ AddLine \/ AddFails
Main == OpenDir \/ Watch \/ WatchFails \/ Test \/ Enter \/ Select \/ Walk \/ Cleanup
Callback == Rescan \/ RescanReturns \/ Read \/ ReadReturns \/ ReadGone
Kernel == Plug \/ \E n \in Node : Unplug(n) \/ Input(n)

Daemon == Plugging \/ Main \/ Callback

Next == Daemon \/ Kernel \/ Signal

Spec == Init /\ [][Next]_vars

\* The daemon is one sequential process: it runs whenever it can.
LiveSpec == Spec /\ WF_vars(Daemon)

---------------------------------------------------------------------------
(* Properties.                                                             *)

\* The queue keeps its invariant when its callbacks are those of evfd, which
\* open, add, close and remove members during a walk: the next select() is
\* handed the members, all of them open; and what has data or a grab is open.
QueueSound == TypeOK /\ (mpc # "done" => Queue!Sorted /\ Queue!WatchesAll)

\* Descriptor numbers are reused as devices come and go, and a line keeps the
\* number of its virtual device: it is one nobody else writes to.
Lines == {f \in Fd : line[f] # NoFd}
OwnOutput ==
  /\ \A f \in Lines : file[f].kind \in {"event", "gone"} /\ file[line[f]].kind = "uinput"
  /\ \A f, g \in Lines : line[f] = line[g] => f = g

\* What the daemon writes to a virtual device it never reads as the input of
\* another line: events are not filtered twice.  (A line can come to read its
\* own virtual device, when that has taken the number of a device unplugged
\* while the line was being set up.)
ReadsOurs(f) == file[f].kind = "event" /\ node[file[f].node] = "ours"
NoEcho == \A f \in Lines : ReadsOurs(f) => file[line[f]].node = file[f].node

\* A device can be announced twice and get two lines: still only one of them
\* receives its events, for the other has no grab.
DeliveredOnce ==
  \A n \in Node : node[n] = "phys" => Cardinality(Receivers(n) \cap ToSet(members)) <= 1

\* No device is overlooked, except in one place: a device that is there has
\* been, is being, or is about to be examined, by the walk or by the watch, if it
\* was not plugged in just between the two.
Announced(n) == n \in noticed \cup ToSet(events) \cup ToSet(todo)
Noticed ==
  Watching => \A n \in Node : node[n] = "phys" => Announced(n) \/ n \in between

\* "We watch EVF_DEV_PATH for changes" (evf_hotplug.c), so as to announce every
\* device that is plugged in.  But the walk comes first.
EveryDeviceAnnounced ==
  Watching => \A n \in Node : node[n] = "phys" => Announced(n)

\* The read callback waits for data, and with it the daemon's only thread.
Blocked == pc = "call" /\ at = "off" /\ Called \notin ReadyFds

\* A read callback does not block.
CallbackNeverBlocks == ~Blocked

\* The one exception: a line that the hotplug callback has just added below its
\* own descriptor, where the walk comes by next.
BlocksOnlyBelow ==
  Blocked => Called \in fresh /\ \E h \in Fd : file[h].kind = "inotify" /\ Called < h

\* The walk ends only when readdir() has nothing more to return, and could go on
\* for as long as devices come.
Walking == mpc = "walk"

\* The descriptor of a device that was unplugged is closed eventually: only
\* the read callback of its own line does that, and it must get its turn.
GoneIsClosed == \A f \in Fd : []<>(file[f].kind # "gone" \/ Blocked \/ Walking)

\* A device that is plugged in is examined eventually, or unplugged again; unless
\* it came between the walk and the watch.
PluggedIsSeen ==
  \A n \in Node :
    []<>(Watching /\ node[n] = "phys" => n \in noticed \cup between \/ Blocked)

\* A signal ends the daemon, whatever it is doing when the signal comes: unless
\* that was just before the call of select(), and it sleeps there, or a callback
\* blocks, or the walk never ends.
SignalEnds ==
  ~looping ~> (mpc = "done" \/ []Blocked \/ [](mpc = "select") \/ []Walking)
=============================================================================

# evfilter in TLA+

A verification project for evfilter: the library `libevfilter`, its filters,
and the daemon `evfd`. Everything below refers to files of the repository as
they are seen from its root, e.g. `src/evf_io_queue.c`. (In `PROJECT.json` the
same file is `src/src/evf_io_queue.c`.)

Contents: [the system](#1-the-system) · [the modules](#2-the-modules) ·
[the runs](#3-the-runs) · [fairness](#4-fairness) · [the proofs](#5-the-proofs) ·
[where code and documents disagree](#6-where-code-and-documents-disagree) ·
[not modelled](#7-what-is-not-modelled) · [plan](#8-plan) ·
[how to run](#9-how-to-run)

## 1. The system

`evfd` opens the input devices (`/dev/input/eventN`) its profile names, grabs
them, sends what it reads through a line of filters, and writes the result to a
virtual device (uinput) it has created for the line. Devices are plugged in and
out while it runs. It is one process with one thread; what makes it hard is that
everything happens in callbacks of one `select()` loop, which change the very
list the loop is walking, and that the kernel changes descriptors, device
numbers and files between any two system calls.

| Component | Code | State | Operations | Talks to |
|---|---|---|---|---|
| I/O queue | `evf_io_queue.c` | list of members in descending order of descriptor, one `fd_set`, a counter | new, add, rem, wait, get_count, destroy | calls read callbacks, which call back into it |
| evfd | `evfd/evfd.c` | queue, `looping` | `device_plugged`, `hotplug_data`, `line_data`, signal handler, main loop | everything below |
| lines | `evf_line.c` | descriptor, first filter, commit filter | create, process, destroy | kernel, filters |
| hotplug | `evf_hotplug.c` | inotify descriptor, callbacks | directory walk, init, rescan | calls `device_plugged` |
| virtual devices | `evf_uinput.c` | descriptor | create, destroy | kernel: a new `eventN` appears |
| pid file lock | `evfd/evfd_lock.c` | `/var/run/evfd.pid` | try, release | other instances, through the file and `/proc` |
| filters | `filters/*.c` | private data of each | create, `modify`, `free` | the next filter, handles |
| handles | `evf_handle.c` | one list of named, counted pipes between lines | create, destroy, attach, detach, send | filters of several lines |
| filter lists | `evf_filter.c` | linked list | load, merge, free | |
| profiles and filter files | `evf_profile.c`, `evf_loader.c` | `has_matched`, list under construction | load, unwind | filters, parameters |
| parameters | `evf_param.c`, the tables in `filters/*.c` | the text that is left, the values found | parse, convert, check limits | key names |
| key names | `keyparser/` | a sorted table | look up | |

Hard behaviours, and what correctness means there:

* **I/O queue.** Callbacks add members and remove themselves in the middle of
  the walk; the `fd_set` is the input and the output of `select()`. Correct: the
  next `select()` watches exactly the members, all open; the walk visits each
  member at most once; nobody with data is forgotten; callbacks find data.
* **evfd.** A device may vanish or be replaced between any two steps of
  `device_plugged`; inotify reports nodes in batches, some gone, some twice;
  descriptors and device numbers are used again; each step of setting up a
  device may fail after the previous ones have taken something. Correct: each
  line has an output of its own, no event is delivered twice or fed back into
  another line, plugged devices are examined, unplugged ones are let go, and no
  callback blocks the daemon.
* **Lock.** Check and write are separate steps; crashes leave the file behind;
  pids are used again. Correct: one instance runs, the file names it, and a file
  left behind locks nobody out.
* **Filters.** An event is passed by reference and several filters change it;
  filters swallow syncs, hold movement back, generate keys; handles interleave
  devices. Correct: movement is conserved, presses and releases alternate,
  packets stay together and are synced; positions stay on the screen, and the
  pointer does not jump.
* **Parameters, key names.** Names and values are cut out of a text in place, in
  several styles and any order, go through untyped variable arguments, and a
  binary search looks for keys in a table that is sorted by another order.
  Correct: a filter is made of what is written, or the load is refused for what
  is wrong.
* **Handles.** Either end may come first and leave first. Correct: nobody sends
  into freed memory, and the two ends of a name find each other.

`PROJECT.json` lists the hazards line by line, with the properties that cover
them.

## 2. The modules

| Module | What it is |
|---|---|
| `WatchSet` | abstract: what an I/O queue promises |
| `IoQueue` | `evf_io_queue.c`; implements `WatchSet` |
| `IoQueueProofs` | theorems about `IoQueue` |
| `ListLemmas` | insertion into a list and removal from it, and sequences of sequences put together, for the proofs |
| `Evfd` | `evfd.c`, `evf_hotplug.c`, `evf_uinput.c`, the life of a line; composes with `IoQueue` |
| `EvfdProofs` | theorems about the daemon's queue, its lines, the devices they read, and blocking; composes with `IoQueueProofs` |
| `PidLock`, `PidLockProofs` | `evfd_lock.c`, and its theorems |
| `FilterTable` | the 18 filters that can be loaded: tables of parameters, and what creat and alloc make of the values |
| `FilterLine` | `modify()` of these filters and of commit, chained into lines, joined by handles |
| `FilterLineProofs` | theorems about `FilterLine` |
| `Handles` | `evf_handle.c` and the filters that own handles |
| `HandlesProofs` | theorems about `Handles` |
| `ParamText` | abstract: what the text of a filter's parameters means |
| `KeyParser` | `keyparser/key_parser.c` |
| `Params` | `evf_param.c`: implements `ParamText`; composes with `KeyParser` |
| `ParamsProofs` | theorems about `KeyParser` and `Params` |
| `Profile` | `evf_profile.c`, `evf_loader.c`, the lists of `evf_filter.c`; composes with `Handles` and `ParamText` |
| `ProfileProofs` | theorems about `Profile`; composes with `HandlesProofs` |
| `MC...` | small instances for TLC |

### IoQueue

`members` is the list from `queue->root`, `rfds` the `fd_set`, `cnt` the
counter. `evf_io_queue_wait` is cut where something else can happen:
`SelectReturn` (the call of `select()` returns), `VisitSkip` and `VisitCall` (one
member of the walk), `Return` (the callback returns its flags), `WalkEnd`.
Between `VisitCall` and `Return` the callback runs, and the application actions
`Open`, `Close`, `Add` and `Rem` are enabled. `here` is the loop's pointer, kept
as a position: an insertion before it moves it along (`HereAfterInsert`). When a
callback asks for removal, the code frees the node and then reads its `next`;
the model takes what glibc's allocator leaves there, the old successor
(`HereAfterReturn`). Formally that read is undefined, and this is the one place
where a build could behave differently. The constants say how the library is
used: `AddInCallback` (evfd does), `RemInCallback` (nobody in the repository
does), `Timeout`, `ReturnFlags` (every callback of the repository returns OK, or
a combination that contains REM).

`WatchSet` has only the watched set, the ready set and the callback that runs.
The refinement maps the application's view (`watched`) and the member the walk
stands on; list, bits and counter disappear. Its fairness says that what stays
watched and ready is called again and again.

### Evfd

The kernel is part of the model: the lowest free descriptor and the lowest free
device number are handed out next; a device that is unplugged leaves its open
descriptors behind (`"gone"`), which `select()` reports and `read()` refuses; a
new node is reported through inotify if it is watched; a grab directs events to
one descriptor. Devices come and go at any time, from before the start: a node that
comes while `walk()` reads the directory may be returned by `readdir()` or not
(`Listed`), and one that comes before the watch is set is not reported; `between`
remembers those for the properties. `device_plugged` is five actions, one per system call that
others can get in between (`CheckDevice`, `CreateUinput`, `CreateLine`,
`AddLine`, and their failures, which may happen at any time). The queue is `INSTANCE IoQueue`: `Evfd` uses its
`Add`, `SelectReturn`, `Walk` and `Return`, so that evfd's callbacks run against
the real walk. `line[f]` is the virtual device the line on descriptor `f`
writes to. `line_data` drops the pointer that names the virtual device of a
line it destroys, so the model does not destroy the device either: descriptors
and numbers are used up, as in the code. Which devices a profile configures is
the constant `Configured`. `walk()` judges the whole directory walk by `errno`,
which any call of `device_plugged` may leave set: evfd then does not start
(`errno`, `WatchFails`).

### PidLock

`Load`, `Refuse`/`Proceed`, `Create` (truncation), `Write`, `Run`, `Release`,
`Exit` of each instance, between which other instances, crashes and unrelated
processes act. `linked` tells whether an open stream still is the file its name
leads to. Instances are started at any moment, also together, and each may be a
daemon (`forked`: its process is not the one that wrote the file) or stay in the
foreground; the constant `Daemonize` says which of these are considered. Two history
variables say what has gone wrong: `raced`, two attempts at the lock have overlapped
(an attempt lasts from `load_pid` to the `fclose()` in `pid_save`), and `beside`, one was
made while a daemon was running. Both are forgotten when the last instance is gone.

### FilterLine

A machine with a stack of calls: `stack` holds the `modify()` calls under way,
`ev` is the one event they all point to. A filter that does something after it
has called the next one (`PressureToKey`, `FilterToHandle`, `CopyToHandle`,
`Barrier`, `Abs2Rel`) is cut at that call and looks at `ev` again afterwards, so
that aliasing is as in C. `held` and `stroke` keep what has been read of a device, its keys and the stroke of
its pen: no code does, they are there for the properties. Barriers queue copies. Codes are the numbers of
`<linux/input.h>`, because `Btn2Rel` tests an event it has just changed.
A filter's data is what `FilterTable` makes of the values of its parameters, in
the order of its table: `creat` and `alloc` of `Btn2Rel` exchange up and down, and
so does `modify()`.
A scene is a set of lines with the devices that feed them and the packets those
send; devices are read one event at a time, as `evf_line_process` does.

Divisors are any integers, as the tables allow: a division by 0 is the trap of
the hardware (`Never("trap")`, and then `Halted`). With a negative one `SpeedMod`, which
compares an absolute value with it, holds nothing back and passes on movements of 0;
`Rel2Scroll`, which looks at the quotient, does hold back (`FarEnough`). `IntMax` stands for `INT_MAX`;
`ScaleAbs` computes with exact quotients, and a double that does not fit into an
int becomes the smallest one, as on x86. What `WeightedAverageAbs` does not
initialise (`tail[1]`, `head[2]`, the samples) holds what `Junk` says; its loop over
the ring may not meet the tail, which is `Never("loop")`. Its result is the sum of
the last sample alone, divided, which is what the loop leaves. The estimate of
`Kalman` is a recursion of floats and any of `estimates` in the model; when it
starts anew is modelled.

### ParamText, Params, KeyParser

`ParamText` says what a section of parameters means, as functions of its lines: the
first thing that is wrong (`ParamError`), or the values (`Values`). `Profile` uses
it when it loads a filter. `Params` is the code: `ParseParameter` is a turn of the
first loop of `evf_load_params`, with `evfilter_get_name` and `evfilter_get_value`
(`GetName`, `GetValue`) on a text that is a sequence of pieces: blanks, equals
signs, quotes and whatever else there is. `LoadValue`, `LoadInt`, `AskKey` and `AnswerKey` are turns of the second loop;
`Made` is creat and alloc. A key is searched by `KeyParser`, one comparison (`Probe`)
per step, while `evf_load_params` waits. `LoadsAsSpecified` relates the two levels.
What strtol, strtof or fopen make of a text is the constant `Means`, and the word
that some pieces make is `Spell`.

A section is a sequence of lines, each with a name, a separator, quotes, a value and
blanks behind it. `WellWritten` is how the comments of `evf_param.c` want a line: a
name without blanks and equals signs, at most one equals sign between blanks, a value
without blanks or one in quotes. `Pieces` is its text, `Says` what it says. The
assumptions are that requests consist of such lines (`RequestsAssumption`), that no
parameter has an empty name (`SpellAssumption`), that a text means a key exactly if it
is the name of one in the table, and a number is an int (`MeansAssumption`), and that
the defaults written in the tables mean what one expects (`DefaultsAssumption`).

The table of `KeyParser` is a constant, and so is the order of names (`Rank`): the
table has been sorted by `sort(1)`, which passes over underscores, and is searched
with `strcasecmp`. `MCParams` has the real table: 418 names, of which ten are at a
place that is not theirs (`RankOf`); a name is represented by its rank.

### Handles

The list, the heap, and who points where. `handle_free` looks for the node
*before* the one to free; `Free` reproduces what that does at the head and at
the second node. Handles with a count, an attached filter and a name; senders
are `FilterToHandle` and `CopyToHandle` filters, receivers `GetFromHandle`.

### Profile

`phase` says which function runs: `evf_load_profile` (at rule `pos`, with
`matched` for `has_matched` and the list `filters`), `evf_load_filters` (at line
`at`, with the list `fresh`), or `evf_filters_free` (with what is still to be
freed, `dead`). Each rule, each filter and each call of a free helper is a step;
nothing else runs in between, but memory may run out at each of them, and a
filter that takes a handle does so with the actions of `Handles`, so that the
handles of one line are there while another is loaded, fails or is destroyed.
A text is the sequence of its lines. What `fscanf` and `feof` make of comments,
empty lines, a missing last newline and the end of a file is in `NextLine`,
`Behind`, `NoMore` and `Stuck`; `Turns` is what one turn of the loop in
`evf_load_filters` finds at each place of each file. Parameters are those of
`FilterTable`, and what a section means is `ParamText`.
`made` remembers what each filter was made of; no code keeps that, it is there
for the properties.

`Written(d)` is the other side: the documentation's blocks of rules and blocks
of parameters, without positions and flags.

## 3. The runs

| Run | Question | Bounds | Result |
|---|---|---|---|
| `IoQueue_add` | does the queue keep its promises when callbacks add members and remove themselves under the walk, with timeouts? | 3 descriptors, up to 3 members | holds |
| `Evfd_hotplug` | hotplugging, with no device or two present at the start, any call failing, devices and signals at any time, and the daemon scheduled fairly | 7 descriptors, 3 device numbers, 3 queue nodes, 2 events waiting | holds |
| `Evfd_unseen` | is every device announced, by the walk or by the watch? | the same | `EveryDeviceAnnounced` violated |
| `Evfd_blocked` | can a callback block when devices were there first? | the same | `CallbackNeverBlocks` violated |
| `PidLock_locked` | what the lock achieves, for daemons and in the foreground, with starts at any moment, crashes and recycled pids | 3 instances, 4 pids | holds |
| `PidLock_daemon` | is there one instance, if attempts do not overlap, when evfd daemonizes? | 2 daemons, 4 pids | `OneDaemon` violated |
| `FilterLine_scenes` | what lines do to movement, keys, positions, packets and syncs | 26 scenes with all filters, packets of 1 to 3 events, 3 contents of fresh memory | holds |
| `Params_load` | are parameters loaded as they are written, in every style, for every filter; does the search for keys find what is there? | about 1200 sections, the real table of 418 keys and a name before, between and behind any two of them | holds |
| `Profile_load` | is what is loaded what is written, and what becomes of a load that fails? | 2 devices, 15 profiles, 17 files, 8 filters, 3 handles | holds |
| `Profile_hang` | and when a file begins with an empty line? | 1 profile | `LoadEnds` violated |
| `Handles_many` | handles of several names, from either end in any order | 3 names, 3 pieces of memory, 2 senders, 2 receivers | holds |
| `Handles_dangling` | does an attached filter exist? | the same | `NoDangling` violated |

Why the bounds are enough. *IoQueue*: three members give a walk a first, a
middle and a last position, and every relation of an inserted or removed member
to the walk; `MaxMembers = 3` also lets `malloc` fail. The proofs cover any
number. *Evfd*: a device with a line takes two descriptors and two numbers: 7 descriptors
are the watch and two lines, and one or two that a third attempt finds missing half way; with 3
numbers there is a line and a device that has none, so that a second line fails for
want of a number, a number is taken again between two steps, and descriptors come
to lie below and above the watch. Two waiting events are the same device announced twice, or two
devices. The proofs of the safety part cover any number. *PidLock*: a holder, a starter and one that
has crashed, or three that overlap; the proofs cover any number. Instances and pids
are symmetric (`Alike`): nothing in the module tells one from another. *FilterLine*: the scenes are chosen so that each branch of
each filter is taken, divisors of either sign and 0, rings of 0 to 3 samples; `IntMax = 7` and positions up to 4
put the edges of the screen and the overflow of `ScaleAbs` in reach;
a stylus presses a `PressureToKey` with and without a barrier behind it, with thresholds
of either sign; packets of two events have one that is swallowed and one
that passes, packets of three overflow a barrier of two. *Params*: the sections of a filter are all its
parameters in each style of separators and quotes, each parameter with each wrong and each unusual value,
each left out, each repeated; the search for a key goes through all names of the table and of a
name in every gap. *Profile*: the profiles
have blocks of several rules and several files, and a wrong file of each kind
behind right ones; a line has up to four filters, and the memory for two lines
with handles does not suffice for all profiles. *Handles*: `Free`
treats the first, the second and later nodes differently; three nodes have all, and the proofs cover any number.

Deadlock is not checked where the system may stop: a destroyed queue, a daemon
that has ended, instances that have all exited.

What the properties say beyond their names:

* `IInv` (with `Sorted`, `VisitedArmed`, `WatchesAll`, `ListIsWatched`): agreement of list,
  bits, open descriptors and the application's view, at the times the code
  needs it. `WalkDescends`: the walk goes strictly down, whatever is linked in
  and freed around it. `SpuriousOnlyFresh`: a callback without data is that of a
  member added in the same pass.
* `QueueSound`: the queue's invariant, and that of the types, under evfd's callbacks. `OwnOutput`: no
  line writes to what was the virtual device of another, although the numbers of
  descriptors are reused. `NoEcho`: no line reads what another line writes.
  `DeliveredOnce`: a device announced twice gets two lines, but only one
  receives its events. `Noticed`: no device falls between the directory listing,
  the inotify queue and the batch being worked on, except one that came after the
  directory was opened and before the watch was set; `EveryDeviceAnnounced` is the
  same without the exception, and refuted. `PluggedIsSeen` has that exception too. `BlocksOnlyBelow`:
  only a line below the hotplug descriptor can block the daemon; never so
  when evfd starts with no device present: then the hotplug descriptor is the
  lowest and new members are linked in before the walk. `SignalEnds`: a signal ends
  the daemon wherever it arrives, with two exceptions the code has: it sleeps in a
  `select()` it was about to call, or a callback blocks.
* `LoadedAsWritten`: a load that succeeds gives the device what `Written` says, one
  that fails gives it nothing, and other lines stay what they are. `Owned`: each
  filter is in one line, in one list under construction or about to be freed.
  `Joined`: lines that name a handle are joined by it, in whatever order they
  were loaded (with the premise of `Connected`). `LoadEnds`: no file keeps the
  loader busy for ever.
* `Exclusive`: two instances run only if two attempts at the lock have overlapped, or
  one was made beside a running daemon, since evfd was last not there at all: no
  file that the first instance finds, no crash, aborted start, instance that leaves or
  recycled pid is a reason. `OneDaemon` (refuted) is the same without the second exception.
* `RefusedByInstance`: evfd refuses to start only because of an instance, or of
  a process that has been given the pid of one.
* `Conserved`, `KeysAlternate`, `KeyFollowsPressure`, `PacketsApart`,
  `SinglesSynced`: see section 1. `PacketsApart` says exactly what a barrier
  drops when it is full. `KeysAlternate` needs a `NoRepeat` before `KeyLock`:
  without one the repeats of the second press come after the release.
  `KeyFollowsPressure` holds for one `PressureToKey` per line, with filters behind it
  that change positions and keys. With two the key
  event of the second is what the first one looks at after the call, so that it
  misses that change of pressure, and at pen-up leaves its key down. A
  `WeightedAverageAbs` behind it likewise shows it an averaged pressure: the theorem
  about it excludes that filter.
  `SinglesSynced` is about packets of one event: of longer ones it is false (section 6).
* `InScreen`: behind `ScaleAbs`, mirrored and rotated, the positions of a calibrated
  device are positions. `NoJump`: `Abs2Rel` moves by the distance of two positions of
  the same stroke, in events that have the type of the sync they are made from; `Kalman` begins a stroke where the pen does. `KeysMoveAsNamed`: a
  key moves the pointer as its parameter is named; its premise takes out the keys
  that have two meanings, and parameters whose number is that of the axis, because
  `modify()` goes on testing the event it has just changed. `RingsKept`: an index that
  is inside its ring stays there, and the loop over a ring in order ends.
* `LoadsAsSpecified`: for every style a section may be written in, the data of the
  filter is what `ParamText` makes of it, and so is the error. It excepts sections with a
  key the search cannot find (`Findable`). It also says that no table
  has a default its own type and limits refuse. `ProbesInTable`, `MissesOnlyMisplaced`: the search never
  reads outside of its table, and names at the wrong place hide none but themselves.
  `LoadEnds` of `Params`: every load ends.
* `SendersCounted`, `ListSound`: no sender is left with freed memory, although
  the list loses nodes. `Connected`: the ends of a name meet, whichever came
  first, as long as the list has lost no handle.

Each property of a passing run has a mutant in `PROJECT.json`: a plausible slip
in one mapped definition (they stand next to the original in the module, marked
`Mutant`) under which TLC finds the property violated.

## 4. Fairness

`IoQueue!LiveSpec`: weak fairness of the return from `select()`, of the walk and
of callbacks. The owner calls `evf_io_queue_wait` in a loop (`evfd.c:243`), the
walk is sequential code, and callbacks return. Nothing is assumed of the
application or of data.

`Evfd!LiveSpec`: weak fairness of the daemon as one process (`WF_vars(Daemon)`):
it runs whenever it is not waiting in the kernel. Nothing is assumed of devices,
users or signals, so `GoneIsClosed` and `PluggedIsSeen` (which except a `Blocked` daemon) do not rest on anything
being unplugged, pressed or sent. `GoneIsClosed` and `SignalEnds` also except a
daemon that stays in the directory walk (`Walking`): `readdir()` may return each
device that comes meanwhile, and nothing says that they stop coming. Within the daemon no fairness between actions
is needed, for it is sequential.

`Profile!LiveSpec`: weak fairness of the load under way (`WF_vars(Load)`), which is
sequential code and waits for nothing; devices come and go as they like.

`Params!Spec`: weak fairness of the load (`WF_vars(Load)`), sequential code as well,
which does not even wait for devices.

The other modules have safety properties only.

## 5. The proofs

All proofs are checked by TLAPS without assumptions other than those on the
constants, which TLC evaluates for the instances.

**`IoQueueProofs`.** For any set of descriptors (naturals), any number of
members, any counter width.

* `TypeCorrect`: `Spec => []TypeOK`. Not obvious only for the walk's position:
  insertion, removal and the freed node all have to keep it within the list or
  one past its end.
* `QueueInvariant`: `Spec => []IInv` where
  `IInv == TypeOK /\ Sorted /\ VisitedArmed /\ WatchesAll /\ ListIsWatched`. What one
  wants is `WatchesAll` (when `select()` is called the bits are the members), and
  that is only inductive together with `VisitedArmed` (behind the walk everything
  is armed), which needs `Sorted` (no descriptor twice, so that clearing a bit
  and unlinking a node mean the same member) and `ListIsWatched` (what is added
  is not there already, and what is closed is not there any more). Assumption
  `RemInCallback = FALSE`: with it TRUE the invariant is false, see section 6.
* `QueueIsSound`: the safety properties the run checks, from `QueueInvariant`.
* `WalkIsDescending`: `Spec => WalkDescends`; `ReturnFacts` is about the freed
  node, `AddKeepsNode` about insertions under the walk.
* `SpuriousCallsAreFresh`, `CallbacksHaveData`: a callback finds data if
  callbacks add no members; if they do, only a member added in the same pass can
  be called without.
* `QueueRefinesWatchSet`: the safety part of the refinement, step by step.
  (`ImplementsWatchSet`, which TLC checks, includes the fairness.)

The lemmas `InsertAtFacts` and `RemoveAtFacts` (`ListLemmas`), `InsertDescending`
and `RemoveDescending` describe `list_insert` and `list_delete` once for all.

**`EvfdProofs`.** For any set of descriptors, any finite set of device numbers, any
number of queue nodes, whatever is plugged in at the start and configured.

* `QueueStaysSound`: `Spec => []QueueSound`.
* `OutputsStayOwn`: `Spec => []OwnOutput`.
* `NothingFilteredTwice`: `Spec => []NoEcho`.
* `EventsGoToOneLine`: `Spec => []DeliveredOnce`.
* `NoneUnnoticed`: `Spec => []Noticed`, with devices that come and go at any time, also
  before the watch, and any behaviour of `readdir()`.
* `BlocksNowhereElse`: `Spec => []BlocksOnlyBelow`.

The composition is proved as it is modelled: the daemon's steps through the queue are
steps of `IoQueue` (`SameQueue`), and what those preserve is taken from the lemmas of
`IoQueueProofs` through an instance (`Q`), with the descriptors that are open, and
those with data, as evfd's files say. What the queue takes for granted and evfd has to
provide is that nobody closes the descriptor of a member, and that what is added is
open and not there already. So the invariant is
`Inv == TypeOK /\ Q!CoreInv /\ Control /\ MembersRead /\ AliveOnly /\ OwnOutput`:
`Control` is what `device_plugged` holds in its locals between two system calls,
`MembersRead` that only the watch and input devices are queued (so that a virtual
device, closed in an error path, is no member), `AliveOnly` that a device that is gone
has neither data nor a grab.

On top of `Inv` each property has what it needs and no more. `Virtual`: every virtual
device has a number of its own, and the number `device_plugged` is working on becomes
a virtual device only if that is the one of the line being made; from this `NoEcho`
follows although the number may be taken between the check and the open. `Grabs`: a
device that has a line in the queue is grabbed, by that line or by an earlier one, so
that a second grab fails. `Seen`: from the directory listing on a device is noticed,
announced, pending or one that came `between` (`Accounted`). `Ahead`: each bit the walk has still to come to is set because
`select()` found data, or because the member was added in this pass below the watch;
and evfd reads from the member it is called for.

**`PidLockProofs`.** For any instances and pids, daemons or not, started at any moment,
with crashes at any point.

* `LockInvariant`: `Spec => []LockInv`.
* `LockExcludes`: `Spec => [](Exclusive /\ (raced \/ beside \/ FileNamesOwner))`.
* `RefusalsJustified`: `Spec => RefusedByInstance`.

`LockInv` has two parts. `Recorded` holds always: overlapping attempts, and attempts
beside a daemon, are on record (`RecordedStep`). `LockHeld` holds unless there is such
a record: one instance at most is past the check, its stream is on the file of that
name, and once it has written its pid that is in the file, and anyone at the check
has read it. `HeldStep` keeps it in a step without overlap: the instance that passes the
check cannot have read the pid of one that runs in the foreground, because that one is
found in `/proc`. When the records are cleared nobody is there, and `LockHeld` holds
whatever is in the file. Without `LockHeld` for those that have not got so far, nothing
would tie what an instance has read to what is in the file when it writes.

The invariant of `RefusalsJustified` (`RefuseInv`) is that a pid in the file or read
from it is that of a live instance, of nobody, or has been used again.

**`HandlesProofs`.** For any names, receivers and memory, and any finite number
of senders (`SenderAssumption`: their number bounds the counts).

* `TypeCorrect`: `Spec => []TypeOK`. It says that a count never exceeds the number
  of senders there can be by more than 1, although a handle kept after its last
  sender has left keeps a count that nobody owns, and later senders add to it.
* `HandlesSafe`: `Spec => [](SendersCounted /\ ListSound)`.
* `ListStaysSound`, `EndsMeet`: `Spec => []ListSound` and `Spec => []Connected`.

All follow from `HandleInvariant`, `Spec => []HandleInv`, with
`HandleInv == TypeOK /\ SendersCounted /\ Sound /\ Surplus /\ Attached`. `Sound` is
`ListSound` without positions, which is easier to carry through `handle_free`
(`FreeFacts`: it frees the handle and drops at most one more from the list, or
does nothing). `Surplus` bounds a count by the senders the handle has now.
`Attached` is what `Connected` needs of the receivers: as long as the list is
complete, the handle of a receiver's name exists and is attached to it. Its
premise survives backwards, because what the list has lost is never freed: if
the list is complete after a step, it was before.

**`ParamsProofs`.** About the search, for any words, any order (`RankAssumption`), any
table that is not empty, sorted or not:

* `SearchStaysInTable`: `SearchSpec => []ProbesInTable`.
* `SearchFindsProper`: `SearchSpec => []MissesOnlyMisplaced`.

Both follow from `SearchInvariant`: a search that goes on has its halves in the
table, the middle between them (`MiddleFacts`), and each position whose entry is in
order and is the name looked for lies at or behind `left` and before `right`. The step is that
a comparison with the middle tells on which side an entry in order stands, whatever
the others do.

About `evf_load_params`, for any sections of well-written lines, of any number and
length, in any order, with any text in them (the assumptions of `Params`, section 2):

* `ParamsTyped`: `Spec => []TypeOK`.
* `TextLoadedAsSpecified`: `Spec => []LoadsAsSpecified`, the code's two loops against
  the meaning `ParamText` gives a section.
* `LoadStaysInTable`, `LoadFindsProper`: the two properties of the search, for the
  searches that loads make.

They follow from `LoadInvariant`, `Spec => []IInv` with
`IInv == TypeOK /\ SearchInv /\ LoadsAsSpecified /\ Parsed /\ Loaded /\ Searching`.
`Parsed`, for the first loop: there is a number of lines that have been read; what is left of the
text is that of the others, and `values` holds what those lines say, each name known and none
twice. `Loaded`, for the second: the text has no error of the first kind, `values` is what it
gives, and `stored` are the values of the parameters before `At`, none of them wrong. `Searching`:
the key that is looked up is the value of parameter `At`; a search that runs is a
search of `KeyParser`, so `SearchInv` needs no second proof. Three things carry the steps. A line
piece by piece: `GetName` and `GetValue`, on the text of a well-written line with
more text behind it, give its name and its value, and leave that text, in each style the
comments allow. The tables: no name is in a table twice, and each default is right for its
own type and limits, so that an error is always that of a value somebody wrote.
Errors: the first wrong line, and the first wrong parameter, of the loops are those
`ParamError` names; a loop that has come this far has found none before.
No induction over texts is needed: the invariant grows by one line, or one
parameter, with each step.

**`ProfileProofs`.** For any devices, profiles, filter files (`TextAssumption`: they
are sequences, and a text that is read as a string is the name of a handle), any
amount of memory for each kind of filter and for handles (`MemoryAssumption`: the
kinds do not overlap; a finite number of senders, as in `HandlesProofs`).

* `TypeCorrect`: `Spec => []TypeOK`.
* `EachInOnePlace`: `Spec => []Owned`.
* `LoadsImplementHandles`: `Spec => H!Spec`, the composition: what a load and the
  freeing of filters do to the handles are steps of `Handles`.
* `LinesAreJoined`: `Spec => []Joined`.
* `LoadsAreAsWritten`: `Spec => []LoadedAsWritten`.

The invariant of the first four is
`Inv == TypeOK /\ HP!HandleInv /\ Control /\ Spread(Places, DOMAIN made) /\ Named`.
`Control` says where filters can be in each phase (the list of the file only while the
file is read, those to be freed only while they are) and that the place in the text is
one. `Spread` is `Owned` for any set of lists: each step either moves a whole list
behind another (`Moved`) or puts one filter in or takes one out (`Changed`), and so
keeps it. `HP!HandleInv` is the invariant of `HandlesProofs`, used through an instance
(`HP`): nothing about handles is proved twice. `Named` ties the two together, each
filter that takes a handle has the one its first parameter names; a sender's handle
keeps its name because it is counted and so not freed (`NameKept`, `StaysNamed`).
About the texts these proofs need only that the turn of the loop goes on inside of the
file and that a filter which is accepted has a value for each parameter (`TurnFacts`,
`FirstValue`).

`LoadsAreAsWritten` compares two readings of the same texts: the code's, with its place
in the file and its lists, and that of `Written`, which takes a text as a whole. Its
invariant is `LoadInv == Inv /\ Reading /\ Settled`. `Reading` says what holds in the
middle: `has_matched` has the value that the rules before this one give it (`Fulfilled`),
the filters of the device are what those rules describe, and those of the file that is
read are the blocks before this line. `Settled` says what holds of lines and results.
`TurnBlocks` is the step over a text: a turn that is accepted reads exactly the next block,
and no block begins inside of it, because a `FilterName` before the `EndFilter` would be a
parameter of that name, which no table has (`NoSuchParameter`), so that the load fails.
`FulfilledNext` is the step over the rules of a profile: what a line of devices, or a
file, makes of `has_matched`. What is described is a sequence put together from one
sequence per line (`FlattenSeq`, a recursive function): `SumsExist` and `FlatFacts` in
`ListLemmas` give its beginnings, up to any line, by well-founded induction on sets of
numbers, and everything else is a step from one line to the next. The filters of a list
keep their parameters while others are made and freed, since no other list has them
(`ListsKept`, from `Spread`).

**`FilterLineProofs`.** For any scenes, that is for any number of lines of loaded
filters with any parameters their tables let through, any devices and any packets
(`ScenesAssumption`), any integers left in fresh memory.

What holds for every line:

* `TypeCorrect`: `Spec => []TypeOK`.
* `MovementConserved`: `Spec => []Conserved`.
* `RingsSound`: `Spec => RingsKept`.
* `KeysMove`: `Spec => KeysMoveAsNamed`.

The inductive invariant is `Typed == TypeOK /\ AllFit /\ DueTyped`. `AllFit` is what
TypeOK lacks: a ring has as many samples as its filter was made for, and only a
barrier queues. From that each filter is shown to keep the types
(`SpeedModFacts`, ... , one lemma per filter), and with it, where it has movement,
`Conserved`. `QuotientFacts` is about division in C, whose remainder has the sign of
the dividend; `WrapFacts` and `AddedFacts` are about indices in a ring, `TurnsFacts`
says that from one index of a ring one gets to any other. `KeysMove` follows the
event through the seven tests.

The other properties are false for some line: without a `NoRepeat` a lock lets repeats
through after the release, two keys that are given one code are pressed twice, a second
`PressureToKey` misleads the first (section 3). So
each theorem names the lines it is about, and of those it is about all, of any
length, with any parameters. `Chain(scene, kinds)` is one device with the line
`evf_line_load` makes of filters of these kinds; `SimpleKinds` are the filters that
pass an event on, changed or not, or drop it, in one step.

| Theorem | Lines | Invariant |
|---|---|---|
| `SyncsPass`: `SinglesSynced` | `Chain` of `SimpleKinds`; `Single` is the property's own premise | `Awaited`: at most one filter waits for a sync, and while it does the packet has written nothing and its sync has not passed it |
| `PressureObeyed`: `KeyFollowsPressure` | `PressureLine`: `SimpleKinds` without `WeightedAverageAbs`, and one `PressureToKey`, whose key no other filter or device uses | `Pressing`: an event is before the filter, behind it while it waits, or is the filter's own key event; filter, history of pressure and virtual device agree as far as the event has come |
| `StrokesFollowed`: `NoJump` | `PenLine`: `Abs2Rel` or `Kalman` first, behind it filters that make no positions, a device that sends positions and keys | `Following`: the filter has the last positions of the stroke, and none when there is none; what is on its way is the distance of the two |
| `ScaledToScreen`: `InScreen` | `ScreenLines`: any number of lines and handles that `ScaleAbs` divides into a part before and a part behind, devices calibrated to the parameters; barriers and `PressureToKey` on either side, both kinds of senders behind | `OnScreen`: each event on the stack, in a queue or unread is a device's position before and a screen's behind; a call of a filter behind never waits for one before |
| `PacketsStayApart`: `PacketsApart` | `JoinedLines`: any number of devices, each with a line of its own that begins with a `Barrier`; behind it any filters that send copies, receive them, dump or write, arranged so that no event comes to an output by two ways (`Leads`); packets of any length without a sync inside; what is written of one is all remembered (`MaxOut`) | `Apart`: one barrier at most is at work, and the others hold what there was room for of what they have read; of the one that works, `Way` says for each output whether the event that is under way has still to come there (`Due`, never twice: `Once`), and that all events before it have |
| `KeysInTurn`: `KeysAlternate` | `KeyLine`: `Chain` of `SimpleKinds` in which a `NoRepeat` precedes each `KeyLock`, two keys of the device never become one, and none is locked twice (unless it never arrives) | `Keying`: each key is `Settled` (down behind the line exactly if its lock is on or, without one, if the device has it down) except the one whose event is under way (`Turning`) |

That the classes are not empty, and that keys are pressed, locked and scaled in them, one sees in
the scenes of `FilterLine_scenes`, which has lines of each. What each line shares is said
once, as a contract for a filter with one event: `Syncs` (what becomes of a sync, and
of the flag that the next one is to be swallowed) and `Passed` (what it makes of
keys, positions and the rest), proved filter by filter; each invariant then
follows the event from one call to the next. `PacketsStayApart` is about calls that branch:
`OnTheWay` says what a call more on the stack changes in where the event has still to go, and
`Moved` what that means for the packets; a barrier's step is `TakingStep` (it keeps an
event) or `Launch` (it passes on the next it has kept, or the sync). `KeysInTurn` has a second part: which code a key has
at which filter (`CodeAt`), constant for a line, and what the device may still
send (`CanSendRest`, `CanSendSync`: what is unread of a packet stays one it can send after
what has been read).

The premises are those the properties need, as far as the proof goes; for lines beyond
them (barriers in `KeysAlternate`, `Abs2Rel` behind another filter, and so on)
the scenes of the run are what is checked.

Only model-checked: liveness (`ImplementsWatchSet` with its fairness,
`GoneIsClosed`, `PluggedIsSeen`, `SignalEnds`, `LoadEnds`), which is out of the
prover's reach. Of the safety part, every invariant and every action property that a
passing run checks is stated by a theorem.

## 6. Where code and documents disagree

Shown by runs (with the quotations in `PROJECT.json`):

1. A line added by the hotplug callback below the hotplug descriptor is called
   in the same pass without data, and `read()` blocks the daemon
   (`evfd.c:136`).
2. `daemon()` changes the pid after it was saved (`evfd.c:235`): the next evfd
   starts although one is running.
3. A filter file that begins with an empty line is read for ever
   (`evf_func.c:48`).
4. A handle at the head of the list is never freed and keeps the filter it
   points to (`evf_handle.c:58`).
5. A device that is plugged in after the directory walk and before the watch is set is
   never announced (`evf_hotplug.c:83`).

Seen while modelling, each reproducible with a change of a constant or one more
property, and no run spent on it:

* A member removed by the return value of its callback stays counted
  (`evf_io_queue.c:156`); `evf_io_queue.h:99` promises the number of members, and
  `tests/io_queue.c:98` waits for 0 (`IoQueue`: `cnt = Len(members) % CntModulus` fails).
* Two evfd started at the same time both pass the lock (`evfd_lock.c:114`; `PidLock`,
  in the foreground: `OneInstance` fails).
* A filter whose last parameter is quoted is refused: the blank `evf_loader.c:104`
  puts behind it is read as a parameter without a name (`Profile`: the file `quoted`
  is never loaded, which `ParamText` has as the meaning of such a text).
* A second `PressureToKey` in a line makes the first one miss presses and releases
  (`pressure_to_key.c:79`; `KeyFollowsPressure` with two in a line fails).
* `SpeedMod` swallows the sync of a packet of which it has held one axis back
  and passed the other (`speed_mod_rel.c:62`; `SinglesSynced` without its premise fails).
* `evf_io_queue_rem` from a callback does nothing for a member that the walk has
  not reached and that has no data (`IoQueue`, `RemInCallback = TRUE`:
  `ListIsWatched` fails).
* A signal between the test of `looping` and `select()` is not acted upon until
  a device has data (`SignalEnds` without its second case fails).
* When a device is unplugged between the check of its name and the creation of
  the virtual device, that one takes its number, and evfd opens and grabs its own
  output (`\A f \in Lines : ~ReadsOurs(f)` fails).
* A device announced twice gets a second line whose grab fails and which is kept.
* Freeing the second node of the handle list drops the first as well; the ends
  of a name in use then no longer meet (`Connected` without its premise fails).
* `Abs2Rel` never sets the type of the events it sends, sends the sync twice, and
  does not forget a movement it has sent: the pointer goes on with every sync while
  the pen rests.
* `Btn2Rel` with unset buttons turns a move to the left into the code of a
  button, because `REL_X` and `NO_KEY` are both 0 (`KeysMoveAsNamed` without the second
  half of its premise fails).
* `WeightedAverageAbs` walks from the head up to the tail, over samples that are old
  or were never written; with one sample the result is always 0, with none the
  daemon is killed by the division (`FilterLine`, `Never`). With what malloc left in
  `tail[1]` or `head[2]` the loop need not end.
* `SpeedModRel` and `Rel2Scroll` accept 0 as divisor and trap at the first movement. A
  negative divisor makes `SpeedModRel` pass on every movement, as 0 if it is short.
* `ScaleAbs` divides by the maximum instead of the range: the far edge of the
  screen is not reached, and with a negative minimum positions overflow
  (`InScreen` holds for minimums from 0).
* Five keys are in `keys.h` and never found: `Key_Brightness_Zero`, `Key_Deletefile`,
  `Key_Del_Line`, `Key_Ins_Line`, `Key_Videophone` (`Findable`).
* An empty value without quotes swallows the name of the next parameter (`Params`,
  with `Plain(n, "")` before another line: `LoadsAsSpecified` fails).
* `open_input_device` (`evf_line.c:72`) closes the descriptor when the version cannot
  be read, and returns it. Not in the model.
* The last line of `profilerc` is ignored unless a newline ends it; so is a
  `FilterName` in the last line of a filter file (both in `Profile`).
* Parameters that do not fit into 4096 characters are dropped without a word, the
  table of `Barrier` has no end mark, and `CopyToHandle` keeps a pointer into the
  loader's buffer as its name. These are not in the model.
* `evf_loader.h` writes `Filter = FilterName`; the loader wants `FilterName`.

## 7. What is not modelled

* The estimate of `Kalman`: a recursion of floats.
* `evf_line_attach_filter`, which no code of the repository calls, and
  `evf_hotplug_exit`, which evfd does not call.
* Errors and messages, status texts, printing of events and parameters, the ioctls
  that describe a device, the capabilities of the virtual device: they change no
  state the properties speak of.
* The characters of names and numbers: what strtol, strtof, fopen and strcasecmp
  say of a text is given per text. Lines longer than the buffers.
* `config.c` (constant paths), tests and examples, which are read as documentation.
* In `Evfd` the profile is a constant set and the filters of a line are a single
  step; loading and filters have modules of their own. The three are not one
  model: what passes between them (does a device have a line, what is a line made
  of) is a constant on one side and a result on the other.

## 8. Plan

Done in this state of the project, in this order:

1. `WatchSet`, `IoQueue`: the queue everything runs on; its proofs.
2. `Evfd`: the daemon on top of it, with the kernel, signals; with proofs of all its
   safety properties, on top of those of the queue.
3. `PidLock`, with proofs of all its properties.
4. `Handles`, with proofs of all its properties.
5. `FilterTable`, `FilterLine`: all filters; with the proofs of what holds for every
   line, and of what holds for the lines of a class.
6. `Profile`, composed with `Handles` and `ParamText`, with proofs of all its
   invariants.
7. `ParamText`, `Params`: conversion and limits of each type, all tables; with the
   proof that the code does what the text means.
8. `KeyParser`: the binary search, in the real table and, in the proofs, in any.

Left: the lines of a class beyond those of section 5 (`KeysAlternate` behind a
barrier, `NoJump` with `Abs2Rel` in the middle of a line, `PacketsApart` where filters
behind the barrier change events), for which the scenes are what is checked.

Not planned: one model of the whole daemon, in which the lines of `Evfd` are those `Profile`
has made and run the filters of `FilterLine`; its states are too many for TLC, and its
properties would be those of the parts.

## 9. How to run

    tlc -config IoQueue_add.cfg MCIoQueue
    tlapm IoQueueProofs.tla

Each `X_y.cfg` belongs to the module `MCX`; the communities' modules
`SequencesExt` and `FiniteSetsExt` must be on the path.

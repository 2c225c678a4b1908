------------------------------ MODULE IoQueue ------------------------------
(***************************************************************************)
(* evf_io_queue.c: the select() queue the daemon runs on.                  *)
(*                                                                         *)
(* A queue is a linked list of members kept in descending order of file    *)
(* descriptor, one fd_set that is both the input and the output of         *)
(* select(), and a counter.  evf_io_queue_wait() calls select() and then   *)
(* walks the list: a member whose bit is set gets its read callback        *)
(* called, a member whose bit is clear gets its bit set again.  Callbacks  *)
(* may call back into the queue in the middle of that walk.                *)
(***************************************************************************)
EXTENDS Naturals, Sequences, SequencesExt

CONSTANTS
  Fd,             \* the file descriptors of the process
  MaxMembers,     \* nodes malloc() can give: with none left, adding fails
  CntModulus,     \* cnt is an unsigned int: 2^32, a small number for TLC
  AddInCallback,  \* read callbacks call evf_io_queue_add (evfd does)
  RemInCallback,  \* read callbacks call evf_io_queue_rem
  Timeout,        \* evf_io_queue_wait is given a timeout (evfd gives none)
  ReturnFlags     \* what a read callback returns: sets of REM, CLOSE, DFREE

Flag == {"REM", "CLOSE", "DFREE"}

ASSUME FdAssumption == Fd \subseteq Nat
ASSUME CntModulusAssumption == CntModulus \in Nat \ {0}
ASSUME UseAssumption == /\ AddInCallback \in BOOLEAN
                        /\ RemInCallback \in BOOLEAN
                        /\ Timeout \in BOOLEAN

\* Every callback of the repository returns EVF_IO_QUEUE_OK or a combination
\* with EVF_IO_QUEUE_REM: nothing closes a descriptor and leaves it queued.
ASSUME FlagsAssumption ==
  /\ ReturnFlags \subseteq SUBSET Flag
  /\ \A flags \in ReturnFlags : flags # {} => "REM" \in flags

VARIABLES
  members,   \* queue->root: the list, from root to the last member
  rfds,      \* queue->rfds
  cnt,       \* queue->cnt
  pc,        \* "idle", "walk" or "call" inside evf_io_queue_wait, "destroyed"
  here,      \* the walk's position in members; Len(members) + 1 is NULL
  open,      \* open descriptors (the kernel's table)
  ready,     \* open descriptors on which read() would not block
  watched,   \* history: descriptors the application believes it has queued
  fresh      \* history: descriptors added since the last select()

queue == <<members, rfds, cnt>>
kernel == <<open, ready>>
vars == <<members, rfds, cnt, pc, here, open, ready, watched, fresh>>

Members == ToSet(members)

TypeOK ==
  /\ members \in Seq(Fd)
  /\ rfds \subseteq Fd
  /\ cnt \in 0 .. CntModulus - 1
  /\ pc \in {"idle", "walk", "call", "destroyed"}
  /\ here \in 0 .. Len(members) + 1
  /\ pc = "call" => here \in DOMAIN members
  /\ here = 0 <=> pc \in {"idle", "destroyed"}
  /\ open \subseteq Fd
  /\ ready \subseteq open
  /\ watched \subseteq Fd
  /\ fresh \subseteq Fd

Init ==
  /\ members = <<>>
  /\ rfds = {}
  /\ cnt = 0
  /\ pc = "idle"
  /\ here = 0
  /\ open = {}
  /\ ready = {}
  /\ watched = {}
  /\ fresh = {}

---------------------------------------------------------------------------
(* The list.                                                               *)

\* Where list_insert puts fd: before the first member that is not greater.
InsertPos(s, fd) ==
  {p \in 1 .. Len(s) + 1 :
     /\ \A i \in 1 .. p - 1 : s[i] > fd
     /\ p <= Len(s) => s[p] <= fd}

\* Mutant: list_delete unlinks the node after the one it found.
DeletePosNext(s, fd) ==
  {p \in DOMAIN s : p > 1 /\ s[p - 1] = fd /\ \A i \in 1 .. p - 2 : s[i] # fd}

\* Where list_delete finds fd: its first occurrence, if any.
DeletePos(s, fd) ==
  {p \in DOMAIN s : s[p] = fd /\ \A i \in 1 .. p - 1 : s[i] # fd}

\* Mutant: the walk keeps its position instead of its node.
HereNotShifted(p) == here

\* `here' is a pointer to a node: it stays on its node when another node is
\* linked in or out before it.
HereAfterInsert(p) == IF p <= here THEN here + 1 ELSE here

HereAfterDelete(p) == IF p < here THEN here - 1 ELSE here

---------------------------------------------------------------------------
(* The application: between two calls of evf_io_queue_wait, or inside a    *)
(* read callback.                                                          *)

InApplication(inCallback) == pc = "idle" \/ (pc = "call" /\ inCallback)

Open(fd) ==
  /\ InApplication(TRUE)
  /\ fd \notin open
  /\ open' = open \cup {fd}
  /\ UNCHANGED <<queue, pc, here, ready, watched, fresh>>

\* Applications close by hand only what they have not queued.
Close(fd) ==
  /\ InApplication(TRUE)
  /\ fd \in open \ watched
  /\ open' = open \ {fd}
  /\ ready' = ready \ {fd}
  /\ UNCHANGED <<queue, pc, here, watched, fresh>>

Add(fd) ==
  /\ InApplication(AddInCallback)
  /\ fd \in open \ watched
  /\ Len(members) < MaxMembers
  /\ rfds' = rfds \cup {fd}
  /\ \E p \in InsertPos(members, fd) :
       /\ members' = InsertAt(members, p, fd)
       /\ here' = HereAfterInsert(p)
  /\ cnt' = (cnt + 1) % CntModulus
  /\ watched' = watched \cup {fd}
  /\ fresh' = fresh \cup {fd}
  /\ UNCHANGED <<pc, kernel>>

\* evf_io_queue_rem touches the counter only when the bit of fd is set.
RemCnt(fd) == IF fd \in rfds THEN (cnt + CntModulus - 1) % CntModulus ELSE cnt

\* A member is not removed from its own callback: the API has REM for that.
\* When the bit is clear (a member the walk has not reached) nothing happens.
Rem(fd) ==
  /\ InApplication(RemInCallback)
  /\ fd \in watched
  /\ pc = "call" => fd # members[here]
  /\ cnt' = RemCnt(fd)
  /\ rfds' = rfds \ {fd}
  /\ \/ /\ fd \in rfds
        /\ \E p \in DeletePos(members, fd) :
             /\ members' = RemoveAt(members, p)
             /\ here' = HereAfterDelete(p)
     \/ /\ fd \notin rfds
        /\ UNCHANGED <<members, here>>
  /\ watched' = watched \ {fd}
  /\ UNCHANGED <<pc, kernel, fresh>>

\* evf_io_queue_destroy frees every node but the last of the list, and the
\* queue; what remains in members is the node that is never freed.
Destroy(close) ==
  /\ pc = "idle"
  /\ pc' = "destroyed"
  /\ members' = IF members = <<>> THEN <<>> ELSE <<Last(members)>>
  /\ open' = IF close THEN open \ Members ELSE open
  /\ ready' = ready \cap open'
  /\ watched' = {}
  /\ rfds' = {}
  /\ fresh' = {}
  /\ UNCHANGED <<cnt, here>>

---------------------------------------------------------------------------
(* evf_io_queue_wait.  With an empty list it sleeps and returns: a step    *)
(* that changes nothing.  So does a select() that fails (a signal, a       *)
(* closed descriptor): the sets keep their value and wait returns.         *)

\* The bits select() looks at: those below root->fd + 1.
Selected == {fd \in rfds : fd <= members[1]}

\* Mutant: the set is left as it was handed in.
ResultUnchanged == Selected

\* select() overwrites the set with the descriptors that are ready.
SelectResult == Selected \cap ready

SelectReturn ==
  /\ pc = "idle"
  /\ members # <<>>
  /\ Selected \subseteq open
  /\ Timeout \/ Selected \cap ready # {}
  /\ rfds' = SelectResult
  /\ pc' = "walk"
  /\ here' = 1
  /\ fresh' = {}
  /\ UNCHANGED <<members, cnt, kernel, watched>>

\* A member that was not ready is armed again for the next select().
Rearm(fd) == rfds \cup {fd}

VisitSkip ==
  /\ pc = "walk"
  /\ here \in DOMAIN members
  /\ members[here] \notin rfds
  /\ rfds' = Rearm(members[here])
  /\ here' = here + 1
  /\ UNCHANGED <<members, cnt, pc, kernel, watched, fresh>>

VisitCall ==
  /\ pc = "walk"
  /\ here \in DOMAIN members
  /\ members[here] \in rfds
  /\ pc' = "call"
  /\ UNCHANGED <<queue, here, kernel, watched, fresh>>

\* Mutant: the walk goes on after the node that slid into the freed place.
HereAfterReturnSkipping(flags) == here + 1

\* The walk reads `next' from the node it has just freed.  With the allocator
\* of glibc that word of the freed node is intact, so the walk goes on with
\* the old successor, which after the removal sits at the same position.
HereAfterReturn(flags) == IF "REM" \in flags THEN here ELSE here + 1

\* EVF_IO_QUEUE_OK continues at once, anything else clears the bit.
ClearBit(fd, flags) == IF flags = {} THEN rfds ELSE rfds \ {fd}

\* The read callback returns; it may or may not have consumed all the data.
\* cnt is not decremented when the member is removed here.
Return(flags) ==
  /\ pc = "call"
  /\ LET fd == members[here] IN
       /\ rfds' = ClearBit(fd, flags)
       /\ open' = IF "CLOSE" \in flags THEN open \ {fd} ELSE open
       /\ ready' \in {ready \cap open', ready \ {fd}}
       /\ \/ /\ "REM" \in flags
             /\ \E p \in DeletePos(members, fd) : members' = RemoveAt(members, p)
          \/ /\ "REM" \notin flags
             /\ UNCHANGED members
       /\ watched' = IF "REM" \in flags THEN watched \ {fd} ELSE watched
  /\ here' = HereAfterReturn(flags)
  /\ pc' = "walk"
  /\ UNCHANGED <<cnt, fresh>>

WalkEnd ==
  /\ pc = "walk"
  /\ here \notin DOMAIN members
  /\ pc' = "idle"
  /\ here' = 0
  /\ UNCHANGED <<queue, kernel, watched, fresh>>

\* The world outside: data arrive at any moment.
Data(fd) ==
  /\ pc # "destroyed"
  /\ fd \in open \ ready
  /\ ready' = ready \cup {fd}
  /\ UNCHANGED <<queue, pc, here, open, watched, fresh>>

Walk == VisitSkip \/ VisitCall \/ WalkEnd
Returns == \E flags \in ReturnFlags : Return(flags)
Application == \/ \E fd \in Fd : Open(fd) \/ Close(fd) \/ Add(fd) \/ Rem(fd)
               \/ \E close \in BOOLEAN : Destroy(close)

Next == \/ Application
        \/ SelectReturn \/ Walk \/ Returns
        \/ \E fd \in Fd : Data(fd)

Spec == Init /\ [][Next]_vars

\* The owner of the queue keeps calling evf_io_queue_wait, which is sequential
\* code, and read callbacks return.
Fairness == WF_vars(SelectReturn) /\ WF_vars(Walk) /\ WF_vars(Returns)

LiveSpec == Spec /\ Fairness

---------------------------------------------------------------------------
(* Properties.                                                             *)

\* The list is strictly descending: no descriptor is queued twice and
\* root->fd + 1 is a correct first argument of select().
Sorted == \A i, j \in DOMAIN members : i < j => members[i] > members[j]

\* Whenever select() can be called, the set it is handed holds exactly the
\* members, all of them below its first argument and all of them open: no
\* member has been left disarmed by the previous walk, whatever its callbacks
\* added, removed and closed, and select() cannot fail with EBADF.
WatchesAll == pc = "idle" => /\ rfds = Members
                             /\ rfds \subseteq open
                             /\ members # <<>> => Selected = rfds

\* During a walk the part of the list already visited is armed, the member
\* whose callback runs still has its bit, and no bit is set for a descriptor
\* that is not in the list: the reason why WatchesAll holds.
VisitedArmed ==
  /\ rfds \subseteq Members
  /\ pc \in {"walk", "call"} =>
       \A i \in DOMAIN members : i < here => members[i] \in rfds
  /\ pc = "call" => members[here] \in rfds

\* The list holds what the application asked for, and only open descriptors,
\* at every moment.
ListIsWatched == pc # "destroyed" => Members = watched /\ watched \subseteq open

\* The inductive invariant: each part needs the others.  In the end it is about
\* what select() is handed whenever the daemon sleeps.
IInv == TypeOK /\ Sorted /\ VisitedArmed /\ WatchesAll /\ ListIsWatched

\* The walk stays on its node while a callback changes the list, and then goes
\* on to a strictly lower descriptor, although nodes are linked in and freed
\* under it: no callback runs twice in one pass, and the pass is finite.
OnNode == pc \in {"walk", "call"} /\ here \in DOMAIN members

NodeStep ==
  OnNode /\ OnNode' =>
    IF pc' = "call"
      THEN members'[here'] = members[here]
      ELSE \/ members'[here'] < members[here]
           \/ pc = "walk" /\ UNCHANGED <<members, here>>

WalkDescends == [][NodeStep]_vars

\* A read callback runs only for a descriptor on which read() does not block
\* ("callback, that is called, when data on fd are ready", evf_io_queue.h).
CallsHaveData == pc = "call" => members[here] \in ready

\* Even when callbacks add members, a callback that runs without data is that
\* of a member added earlier in the same pass.
SpuriousOnlyFresh == pc = "call" => members[here] \in ready \cup fresh

\* The queue implements WatchSet, with its fairness: a member that stays queued
\* and has data is served.
Current == IF pc = "call" THEN {members[here]} ELSE {}

Abstract == INSTANCE WatchSet WITH
              Spurious <- AddInCallback,
              current <- Current,
              live <- pc # "destroyed"

ImplementsWatchSet == Abstract!LiveSpec
=============================================================================

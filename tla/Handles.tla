------------------------------ MODULE Handles ------------------------------
(***************************************************************************)
(* evf_handle.c and the filters that are its users.                        *)
(*                                                                         *)
(* A handle is a named pipe between filter lines: FilterToHandle and       *)
(* CopyToHandle send into it, at most one GetFromHandle receives.  Either  *)
(* end may come first and either may leave first; the handles live in one  *)
(* linked list, are found by name, counted by their senders, and are to be *)
(* freed when both ends are gone.                                          *)
(***************************************************************************)
EXTENDS Naturals, Sequences, FiniteSets, SequencesExt

CONSTANTS
  Name,       \* names of handles, equal if strcasecmp() says so
  Sender,     \* FilterToHandle and CopyToHandle filters
  Receiver,   \* GetFromHandle filters
  Memory,     \* what malloc() can give handles
  Null

VARIABLES
  handles,    \* the list, from its head
  heap,       \* the handle each piece of memory holds, Null if it is free
  dest,       \* priv->handle of each sender, Null if there is no such filter
  source      \* priv->name of each receiver, Null if there is no such filter

vars == <<handles, heap, dest, source>>

\* A handle that is kept after its last sender has left keeps a count of 1, to
\* which later senders add; the surplus does not grow any further.
Handle == [name : Name, refcount : 0 .. Cardinality(Sender) + 1,
           filter : Receiver \cup {Null}]

ASSUME NullAssumption ==
  /\ Null \notin Name \cup Sender \cup Receiver \cup Memory
  /\ Null \notin Handle
ASSUME SenderAssumption == IsFiniteSet(Sender)

TypeOK ==
  /\ handles \in Seq(Memory)
  /\ heap \in [Memory -> Handle \cup {Null}]
  /\ dest \in [Sender -> Memory \cup {Null}]
  /\ source \in [Receiver -> Name \cup {Null}]

Init ==
  /\ handles = <<>>
  /\ heap = [m \in Memory |-> Null]
  /\ dest = [s \in Sender |-> Null]
  /\ source = [r \in Receiver |-> Null]

---------------------------------------------------------------------------

Allocated == {m \in Memory : heap[m] # Null}

\* Mutant: no two names are ever found equal.
LookupNone(n) == {}

\* handle_lookup: the first of that name, as a set of at most one.
Lookup(n) ==
  {handles[p] : p \in {p \in DOMAIN handles :
     /\ heap[handles[p]].name = n
     /\ \A q \in 1 .. p - 1 : heap[handles[q]].name # n}}

\* handle_alloc, and the fields its caller sets: a new head of the list.
Allocate(m, n, refcount, filter) ==
  /\ m \notin Allocated
  /\ heap' = [heap EXCEPT ![m] = [name |-> n, refcount |-> refcount, filter |-> filter]]
  /\ handles' = <<m>> \o handles

OutOfMemory == Allocated = Memory /\ UNCHANGED vars

\* handle_free looks for the node before self.  The head has none, so it is
\* neither unlinked nor freed; and when the node before self is the head, the
\* list is made to begin after self, which drops the head too.
Free(m) ==
  \/ /\ \E p \in DOMAIN handles :
          /\ p > 1 /\ handles[p] = m
          /\ handles' = IF p = 2 THEN SubSeq(handles, 3, Len(handles))
                                 ELSE RemoveAt(handles, p)
     /\ heap' = [heap EXCEPT ![m] = Null]
  \/ /\ \A p \in DOMAIN handles : p > 1 => handles[p] # m
     /\ UNCHANGED <<handles, heap>>

\* evf_handle_create, from evf_filter_to_handle_alloc or
\* evf_copy_to_handle_alloc.
CreateSender(s, n) ==
  /\ dest[s] = Null
  /\ \/ \E m \in Lookup(n) :
          /\ heap' = [heap EXCEPT ![m].refcount = @ + 1]
          /\ dest' = [dest EXCEPT ![s] = m]
          /\ UNCHANGED <<handles, source>>
     \/ /\ Lookup(n) = {}
        /\ \/ \E m \in Memory : /\ Allocate(m, n, 1, Null)
                                /\ dest' = [dest EXCEPT ![s] = m]
                                /\ UNCHANGED source
           \/ OutOfMemory

\* Mutant: the count is tested after it has been decremented.
LastSenderEarly(h) == h.refcount <= 2

LastSender(h) == h.refcount <= 1

\* Mutant: a sender that leaves is still counted.
LeaveUncounted(m) == heap

Leave(m) == [heap EXCEPT ![m].refcount = @ - 1]

\* The free helper of a sender: evf_handle_destroy.  The last sender leaves its
\* count behind when a filter is still attached.
FreeSender(s) ==
  LET m == dest[s] IN
  /\ m # Null
  /\ dest' = [dest EXCEPT ![s] = Null]
  /\ \/ /\ ~LastSender(heap[m])
        /\ heap' = Leave(m)
        /\ UNCHANGED handles
     \/ /\ LastSender(heap[m]) /\ heap[m].filter = Null
        /\ Free(m)
     \/ /\ LastSender(heap[m]) /\ heap[m].filter # Null
        /\ UNCHANGED <<handles, heap>>
  /\ UNCHANGED source

\* Mutant: the filter attached first is replaced by the second one.
TakenNever(m) == FALSE

Taken(m) == heap[m].filter # Null

\* evf_handle_attach, from evf_get_from_handle_alloc, which gives up unless the
\* handle was free to take.
CreateReceiver(r, n) ==
  /\ source[r] = Null
  /\ \/ \E m \in Lookup(n) :
          /\ ~Taken(m)
          /\ heap' = [heap EXCEPT ![m].filter = r]
          /\ source' = [source EXCEPT ![r] = n]
          /\ UNCHANGED <<handles, dest>>
     \/ /\ \E m \in Lookup(n) : Taken(m)
        /\ UNCHANGED vars
     \/ /\ Lookup(n) = {}
        /\ \/ \E m \in Memory : /\ Allocate(m, n, 0, r)
                                /\ source' = [source EXCEPT ![r] = n]
                                /\ UNCHANGED dest
           \/ OutOfMemory

Unused(h) == h.refcount = 0

Forget(m) == [heap EXCEPT ![m].filter = Null]

\* The free helper of a receiver: evf_handle_detach, by name.
FreeReceiver(r) ==
  /\ source[r] # Null
  /\ source' = [source EXCEPT ![r] = Null]
  /\ \/ /\ Lookup(source[r]) = {}
        /\ UNCHANGED <<handles, heap>>
     \/ \E m \in Lookup(source[r]) :
          \/ ~Unused(heap[m]) /\ heap' = Forget(m) /\ UNCHANGED handles
          \/ Unused(heap[m]) /\ Free(m)
  /\ UNCHANGED dest

Next == \/ \E s \in Sender : FreeSender(s) \/ \E n \in Name : CreateSender(s, n)
        \/ \E r \in Receiver : FreeReceiver(r) \/ \E n \in Name : CreateReceiver(r, n)

Spec == Init /\ [][Next]_vars

---------------------------------------------------------------------------
(* Properties.                                                             *)

SendersOf(m) == {s \in Sender : dest[s] = m}

\* A sender never writes into freed memory: its handle counts it, however
\* handles are created, shared, dropped from the list and freed around it.
SendersCounted ==
  \A m \in Memory : SendersOf(m) # {} =>
    m \in Allocated /\ heap[m].refcount >= Cardinality(SendersOf(m))

\* The list holds only live memory, no node twice, and no name twice, so that
\* both ends that ask for a name meet.
ListSound ==
  /\ \A p \in DOMAIN handles : handles[p] \in Allocated
  /\ \A p, q \in DOMAIN handles :
       handles[p] = handles[q] \/ heap[handles[p]].name = heap[handles[q]].name => p = q

\* Both ends of a name are connected, whichever came first
\* (evf_handle.h: "we do not depend on order of handle create/attach calls"),
\* until the list has lost a handle, see Free.
Live(h) == h # Null /\ h.filter # Null /\ source[h.filter] = h.name
Connected ==
  Allocated \subseteq ToSet(handles) =>
    \A s \in Sender, r \in Receiver :
      dest[s] # Null /\ source[r] = heap[dest[s]].name => heap[dest[s]].filter = r

\* The filter that a send through a handle enters exists.
NoDangling == \A s \in Sender : dest[s] # Null /\ heap[dest[s]].filter # Null
                                  => Live(heap[dest[s]])
=============================================================================

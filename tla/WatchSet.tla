------------------------------ MODULE WatchSet ------------------------------
(***************************************************************************)
(* What the I/O queue promises, without lists, bit sets or select(): the   *)
(* application asks for a set of file descriptors to be watched; one read  *)
(* callback runs at a time; a watched descriptor that has data gets its    *)
(* callback called again and again for as long as it has data.  Module     *)
(* IoQueue implements this specification.                                  *)
(***************************************************************************)
CONSTANTS
  Fd,          \* the file descriptors of the process
  Spurious     \* TRUE if a callback may run for a descriptor without data

VARIABLES
  watched,     \* descriptors the application has asked to watch
  ready,       \* descriptors on which a read would not block
  current,     \* the set of descriptors whose callback runs (at most one)
  live         \* FALSE once the queue is destroyed

vars == <<watched, ready, current, live>>

Init == /\ watched = {}
        /\ ready = {}
        /\ current = {}
        /\ live = TRUE

Add(fd) == /\ live
           /\ fd \notin watched
           /\ watched' = watched \cup {fd}
           /\ UNCHANGED <<ready, current, live>>

\* Nobody removes the descriptor whose callback is running: it returns REM.
Remove(fd) == /\ live
              /\ fd \in watched \ current
              /\ watched' = watched \ {fd}
              /\ UNCHANGED <<ready, current, live>>

Call(fd) == /\ live
            /\ current = {}
            /\ fd \in watched
            /\ Spurious \/ fd \in ready
            /\ current' = {fd}
            /\ UNCHANGED <<watched, ready, live>>

\* A callback consumes some or all of its data, and may have its descriptor
\* taken out of the watched set.
Return == \E fd \in current :
            /\ current' = {}
            /\ watched' \in {watched, watched \ {fd}}
            /\ ready' \in {ready, ready \ {fd}}
            /\ UNCHANGED live

\* The environment: data arrive; data are dropped only with the close of a
\* descriptor nobody watches.
Arrive(fd) == /\ ready' = ready \cup {fd}
              /\ UNCHANGED <<watched, current, live>>

Drop(fd) == /\ fd \notin watched
            /\ ready' = ready \ {fd}
            /\ UNCHANGED <<watched, current, live>>

Destroy == /\ live
           /\ current = {}
           /\ live' = FALSE
           /\ watched' = {}
           /\ ready' \in SUBSET ready
           /\ UNCHANGED current

Next == \/ Return \/ Destroy
        \/ \E fd \in Fd : Add(fd) \/ Remove(fd) \/ Call(fd) \/ Arrive(fd) \/ Drop(fd)

Spec == Init /\ [][Next]_vars

\* A descriptor that stays watched and keeps having data is served again and
\* again, whatever the other descriptors do, and callbacks return.
Fairness == /\ \A fd \in Fd : <>[](fd \in watched /\ fd \in ready)
                                => []<>(current = {fd})
            /\ WF_vars(Return)

LiveSpec == Spec /\ Fairness
=============================================================================

------------------------------ MODULE KeyParser ------------------------------
(***************************************************************************)
(* keyparser/key_parser.c: the number of a key is looked up by its name,   *)
(* with a binary search in the table keys.h, which do_parser.sh has        *)
(* generated with the order of sort(1) and which is searched with the      *)
(* order of strcasecmp().  These two orders differ.                        *)
(***************************************************************************)
EXTENDS Integers

CONSTANTS
  Word,       \* names, of keys and others
  Rank,       \* their order: strcasecmp(a, b) has the sign of Rank[a] - Rank[b]
  KeyCount,   \* key_count
  KeyNames    \* key_names

Position == 0 .. KeyCount - 1

ASSUME RankAssumption == Rank \in [Word -> Int]
ASSUME TableAssumption == KeyCount \in Nat \ {0} /\ KeyNames \in [Position -> Word]

VARIABLES
  key,          \* the name that is looked up
  left, right,
  search        \* "idle", or "running", and then "found" or "missing"

searchVars == <<key, left, right, search>>

SearchTypeOK ==
  /\ key \in Word
  /\ left \in 0 .. KeyCount /\ right \in 0 .. KeyCount
  /\ search \in {"idle", "running", "found", "missing"}

SearchInit ==
  /\ key \in Word
  /\ left = 0 /\ right = KeyCount
  /\ search = "idle"

\* Mutant: the middle is rounded up.
MiddleUp == (left + right + 1) \div 2

Middle == (left + right) \div 2
RankAt(p) == Rank[KeyNames[p]]

---------------------------------------------------------------------------

\* Mutant: the last entry is the end.
EndShort == KeyCount - 1

End == KeyCount

\* keyparser_getkey is called.
GetKey(k) ==
  /\ search # "running"
  /\ key' = k
  /\ left' = 0 /\ right' = End
  /\ search' = "running"

\* Mutant: the middle is left out of the lower half, where the search had
\* found the name to be not below it.
LowerHalfShort == Middle - 1

LowerHalf == Middle

\* Mutant: the loop ends only when the halves have met.
EndsWhenMet(l, r) == l = r

\* The loop ends when a comparison has changed nothing.
Unchanged(l, r) == l = left /\ r = right

\* One turn of the loop.
Probe ==
  /\ search = "running"
  /\ UNCHANGED key
  /\ \/ /\ Rank[key] = RankAt(Middle)
        /\ search' = "found"
        /\ UNCHANGED <<left, right>>
     \/ /\ Rank[key] # RankAt(Middle)
        /\ \/ Rank[key] > RankAt(Middle) /\ left' = Middle /\ UNCHANGED right
           \/ Rank[key] < RankAt(Middle) /\ right' = LowerHalf /\ UNCHANGED left
        /\ search' = IF Unchanged(left', right') THEN "missing" ELSE "running"

SearchNext == Probe \/ \E k \in Word : GetKey(k)

SearchSpec == SearchInit /\ [][SearchNext]_searchVars

---------------------------------------------------------------------------

\* The entry at p stands before one that is not above it, or behind one that is
\* not below it.
OutOfOrder(p) ==
  \E q \in Position : \/ q < p /\ RankAt(q) >= RankAt(p)
                      \/ q > p /\ RankAt(q) <= RankAt(p)

\* The table is never read outside its bounds (key_parser.c:35).
ProbesInTable == search \in {"running", "found"} => Middle \in Position

\* What is found is what was looked for; and of the names in the table the
\* search can miss none but those that are themselves out of order: an entry at
\* the wrong place does not hide others.
MissesOnlyMisplaced ==
  /\ search = "found" => RankAt(Middle) = Rank[key]
  /\ search = "missing" => \A p \in Position : RankAt(p) = Rank[key] => OutOfOrder(p)
=============================================================================

------------------------------ MODULE PathBook ------------------------------
(***************************************************************************)
(* What the code that builds expected paths off the request path promises, *)
(* whoever asks for them and whatever fails: a question is with one filler *)
(* at most, only the filler it is with may record a path for it, and does  *)
(* so at most once before it lets the question go.  ExpectedPath, with its *)
(* callers, lock and in-flight set, implements it.                         *)
(***************************************************************************)
CONSTANTS
  Question,
  Filler,     \* those who may work on questions
  None        \* nobody

VARIABLES
  book,       \* whose path each question has, or None
  holder,     \* the filler each question is with, or None
  open        \* the questions held that were not dealt with yet

vars == <<book, holder, open>>

HeldBy(f) == {q \in Question : holder[q] = f}

Init ==
  /\ book = [q \in Question |-> None]
  /\ holder = [q \in Question |-> None]
  /\ open = {}

\* a filler without questions takes some that are free
Take(f, some) ==
  /\ some # {} /\ HeldBy(f) = {}
  /\ \A q \in some : holder[q] = None
  /\ holder' = [q \in Question |-> IF q \in some THEN f ELSE holder[q]]
  /\ open' = open \cup some
  /\ UNCHANGED book

Deal(f, q) ==
  /\ holder[q] = f /\ q \in open
  /\ open' = open \ {q}
  /\ UNCHANGED holder

Record(f, q) == Deal(f, q) /\ book' = [book EXCEPT ![q] = f]

GiveUp(f, q) == Deal(f, q) /\ UNCHANGED book

\* of those it has not come to, a filler leaves the path as it is
LetGo(f) ==
  /\ HeldBy(f) # {}
  /\ holder' = [q \in Question |-> IF holder[q] = f THEN None ELSE holder[q]]
  /\ open' = open \ HeldBy(f)
  /\ UNCHANGED book

\* all fillers are gone at once
Forget ==
  /\ holder' = [q \in Question |-> None]
  /\ open' = {}
  /\ UNCHANGED book

Next ==
  \/ \E f \in Filler :
       \/ \E some \in SUBSET Question : Take(f, some)
       \/ \E q \in Question : Record(f, q) \/ GiveUp(f, q)
       \/ LetGo(f)
  \/ Forget

Spec == Init /\ [][Next]_vars
=============================================================================

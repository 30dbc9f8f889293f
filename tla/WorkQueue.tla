------------------------------ MODULE WorkQueue ------------------------------
(***************************************************************************)
(* What the workers behind a queue that delivers at least once promise,    *)
(* whatever they do with a message: it is removed only by a handler that   *)
(* told its outcome, or had to give it up, while it had the message; and   *)
(* an outcome changes only in the hands of someone who works on it.        *)
(* Ingestion, GraphBuild, QuestionJobs and EvaluationJobs implement it.    *)
(***************************************************************************)
CONSTANTS
  Message,
  Handler,
  Aside,      \* messages whose outcome others may tell as well
  None        \* no message

VARIABLES
  mail,       \* what became of each message
  hand,       \* the message each handler has, or None
  done,       \* the handlers that may hand in theirs
  told,       \* the messages whose outcome can be seen
  lost        \* those a handler has given up

vars == <<mail, hand, done, told, lost>>

Init ==
  /\ mail = [m \in Message |-> "none"]
  /\ hand = [h \in Handler |-> None]
  /\ done = {}
  /\ told = {}
  /\ lost = {}

Send(m) ==
  /\ mail[m] = "none"
  /\ mail' = [mail EXCEPT ![m] = "visible"]
  /\ UNCHANGED <<hand, done, told, lost>>

Deliver(h, m) ==
  /\ mail[m] = "visible" /\ hand[h] = None
  /\ mail' = [mail EXCEPT ![m] = "hidden"]
  /\ hand' = [hand EXCEPT ![h] = m]
  /\ UNCHANGED <<done, told, lost>>

\* whoever has the message may still be at it
Reappear(m) ==
  /\ mail[m] = "hidden"
  /\ mail' = [mail EXCEPT ![m] = "visible"]
  /\ UNCHANGED <<hand, done, told, lost>>

AtWork(h) == hand[h] # None /\ h \notin done

Tell(h) ==
  /\ AtWork(h)
  /\ told' = told \cup {hand[h]}
  /\ done' \in {done, done \cup {h}}
  /\ UNCHANGED <<mail, hand, lost>>

\* a message that is with a handler again may be begun again
Reopen(h) ==
  /\ AtWork(h)
  /\ told' = told \ {hand[h]}
  /\ UNCHANGED <<mail, hand, done, lost>>

GiveUp(h) ==
  /\ AtWork(h)
  /\ lost' = lost \cup {hand[h]}
  /\ done' = done \cup {h}
  /\ UNCHANGED <<mail, hand, told>>

\* a receipt that is not the newest one may have lost its force
HandIn(h) ==
  /\ h \in done
  /\ \/ mail' = [mail EXCEPT ![hand[h]] = "deleted"]
     \/ UNCHANGED mail
  /\ hand' = [hand EXCEPT ![h] = None]
  /\ done' = done \ {h}
  /\ UNCHANGED <<told, lost>>

\* the handler is gone; its message will reappear
Drop(h) ==
  /\ hand[h] # None
  /\ hand' = [hand EXCEPT ![h] = None]
  /\ done' = done \ {h}
  /\ UNCHANGED <<mail, told, lost>>

TellAside(m) ==
  /\ m \in Aside
  /\ told' = told \cup {m}
  /\ UNCHANGED <<mail, hand, done, lost>>

Next ==
  \/ \E m \in Message : Send(m) \/ Reappear(m) \/ TellAside(m)
  \/ \E h \in Handler :
       \/ \E m \in Message : Deliver(h, m)
       \/ Tell(h) \/ Reopen(h) \/ GiveUp(h) \/ HandIn(h) \/ Drop(h)

Spec == Init /\ [][Next]_vars
=============================================================================

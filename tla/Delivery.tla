------------------------------ MODULE Delivery ------------------------------
(***************************************************************************)
(* One student's sessions of one assignment, as the delivery module runs   *)
(* them behind the agent tools: delivery/session_manager.py with the       *)
(* selection of delivery/adaptive.py and the tools of delivery/tools.py.   *)
(*                                                                         *)
(* A call is a sequence of repository calls.  Each is a statement of its   *)
(* own; the session that was loaded first is changed in memory and written *)
(* back whole (update_session), over whatever is there by then.            *)
(***************************************************************************)
EXTENDS Naturals, FiniteSets

CONSTANTS
  Question, Concept,
  Concepts,     \* the concepts a question is about
  Client,       \* tabs or agents calling for the student
  Session,      \* session ids
  MaxQuestions,
  MaxFailures,  \* how often a call breaks off between two repository calls
  None

\* of the constants; assumed where they get values
DeliveryAssumption ==
  /\ Concepts \in [Question -> SUBSET Concept]
  /\ MaxQuestions \in Nat \ {0} /\ MaxFailures \in Nat
  /\ None \notin Question \cup Session

Index == 0 .. MaxQuestions - 1

VARIABLES
  store,     \* the selector has a graph store
  astatus,   \* status of the assignment
  row,       \* exam_session
  turn,      \* session_turn: at most one row for a session and an index
  call,      \* what each client's call has loaded
  failures,
  disturbed  \* history: sessions a stale save or a call broken off may have left inconsistent

vars == <<store, astatus, row, turn, call, failures, disturbed>>

NoSession == [status |-> "none", index |-> 0, covered |-> {}]
Fresh == [NoSession EXCEPT !.status = "active"]
NoTurn == [of |-> None, answered |-> FALSE]
NoCall == [pc |-> "idle", on |-> None, copy |-> NoSession, question |-> None]

Init ==
  /\ store \in BOOLEAN
  /\ astatus = "draft"
  /\ row = [s \in Session |-> NoSession]
  /\ turn = [s \in Session |-> [i \in Index |-> NoTurn]]
  /\ call = [c \in Client |-> NoCall]
  /\ failures = 0
  /\ disturbed = {}

ActiveSessions == {s \in Session : row[s].status = "active"}

\* the turn that a loaded session's index points at
Current(c) ==
  IF call[c].copy.index \in Index THEN turn[call[c].on][call[c].copy.index] ELSE NoTurn
Finished(session) == session.index >= MaxQuestions

Goto(c, pc) == call' = [call EXCEPT ![c].pc = pc]
Return(c) == call' = [call EXCEPT ![c] = NoCall]

-----------------------------------------------------------------------------
(* The professor's tools.                                                  *)

Activate ==
  /\ astatus = "draft"
  /\ astatus' = "active"
  /\ UNCHANGED <<store, row, turn, call, failures, disturbed>>

Close ==
  /\ astatus = "active"
  /\ astatus' = "closed"
  /\ UNCHANGED <<store, row, turn, call, failures, disturbed>>

-----------------------------------------------------------------------------
(* start_session.                                                          *)

StartCheck(c) ==
  /\ call[c].pc = "idle" /\ astatus = "active"
  /\ Goto(c, "look")
  /\ UNCHANGED <<store, astatus, row, turn, failures, disturbed>>

\* an active session is answered with its state, or refused (allow_resume): neither changes anything
StartLook(c) ==
  /\ call[c].pc = "look"
  /\ IF ActiveSessions # {} THEN Return(c) ELSE Goto(c, "start")
  /\ UNCHANGED <<store, astatus, row, turn, failures, disturbed>>

StartCreate(c, s) ==
  /\ call[c].pc = "start" /\ row[s].status = "none"
  /\ ActiveSessions = {}
  /\ row' = [row EXCEPT ![s] = Fresh]
  /\ call' = [call EXCEPT ![c] = [NoCall EXCEPT !.pc = "select", !.on = s, !.copy = Fresh]]
  /\ UNCHANGED <<store, astatus, turn, failures, disturbed>>

\* session_active_unique_idx
StartRefused(c) ==
  /\ call[c].pc = "start" /\ ActiveSessions # {}
  /\ Return(c)
  /\ UNCHANGED <<store, astatus, row, turn, failures, disturbed>>

-----------------------------------------------------------------------------
(* get_next_question.                                                      *)

\* _get_active_session, for the call that goes on at pc
LoadFor(c, s, pc) ==
  /\ call[c].pc = "idle" /\ row[s].status = "active"
  /\ call' = [call EXCEPT ![c] = [NoCall EXCEPT !.pc = pc, !.on = s, !.copy = row[s]]]
  /\ UNCHANGED <<store, astatus, row, turn, failures, disturbed>>

NextLoad(c, s) == LoadFor(c, s, "current")

NextCurrent(c) ==
  /\ call[c].pc = "current"
  /\ IF Current(c).of # None /\ ~Current(c).answered THEN Return(c)
     ELSE Goto(c, IF Finished(call[c].copy) THEN "complete" ELSE "select")
  /\ UNCHANGED <<store, astatus, row, turn, failures, disturbed>>

\* the questions already asked, from the session's turns
Asked(c) == {turn[call[c].on][i].of : i \in Index}
Remaining(c) == Question \ Asked(c)

\* _get_direct_prereqs asks the store without the organisation and the course that its
\* get_prerequisites requires, and takes the TypeError for none
DirectPrereqs(k) == {}

Eligible(c) ==
  {q \in Remaining(c) : \A k \in Concepts[q] : DirectPrereqs(k) \subseteq call[c].copy.covered}
NewConcepts(c, q) == Cardinality(Concepts[q] \ call[c].copy.covered)

\* AdaptiveSelector: one of the eligible with a store, for most new concepts without; with nothing
\* eligible any that remains
Choices(c) ==
  IF ~store THEN {q \in Remaining(c) : \A r \in Remaining(c) : NewConcepts(c, q) >= NewConcepts(c, r)}
  ELSE IF Eligible(c) # {} THEN Eligible(c) ELSE Remaining(c)

Select(c) ==
  /\ call[c].pc = "select"
  /\ IF Remaining(c) = {} THEN Goto(c, "complete")
     ELSE \E q \in Choices(c) : call' = [call EXCEPT ![c].pc = "create", ![c].question = q]
  /\ UNCHANGED <<store, astatus, row, turn, failures, disturbed>>

\* mutant: an upsert on (session_id, turn_index)
UpsertTurn(c) ==
  /\ call[c].pc = "create"
  /\ turn' = [turn EXCEPT ![call[c].on][call[c].copy.index] =
                [of |-> call[c].question, answered |-> FALSE]]
  /\ Goto(c, "delivered")
  /\ UNCHANGED <<store, astatus, row, failures, disturbed>>

CreateTurn(c) ==
  /\ call[c].pc = "create" /\ Current(c) = NoTurn
  /\ turn' = [turn EXCEPT ![call[c].on][call[c].copy.index] =
                [of |-> call[c].question, answered |-> FALSE]]
  /\ Goto(c, "delivered")
  /\ UNCHANGED <<store, astatus, row, failures, disturbed>>

\* UNIQUE (session_id, turn_index)
TurnRefused(c) ==
  /\ call[c].pc = "create" /\ Current(c) # NoTurn
  /\ Return(c)
  /\ UNCHANGED <<store, astatus, row, turn, failures, disturbed>>

-----------------------------------------------------------------------------
(* update_session writes the loaded session back, changed; it fails when   *)
(* that would be a second active session.                                  *)

Save(c, session, pc) ==
  LET s == call[c].on
  IN IF session.status = "active" /\ ActiveSessions \ {s} # {}
     THEN Return(c) /\ UNCHANGED <<row, disturbed>>
     ELSE /\ row' = [row EXCEPT ![s] = session]
          /\ disturbed' = IF row[s] # call[c].copy THEN disturbed \cup {s} ELSE disturbed
          /\ call' = [call EXCEPT ![c] = IF pc = "idle" THEN NoCall
                                         ELSE [NoCall EXCEPT !.pc = pc, !.on = s, !.copy = session]]

\* questions_delivered, which nothing reads, and with it the whole session
SaveDelivered(c) ==
  /\ call[c].pc = "delivered"
  /\ Save(c, call[c].copy, "idle")
  /\ UNCHANGED <<store, astatus, turn, failures>>

Complete(c) ==
  /\ call[c].pc = "complete"
  /\ Save(c, [call[c].copy EXCEPT !.status = "completed"], "idle")
  /\ UNCHANGED <<store, astatus, turn, failures>>

AbandonLoad(c, s) == LoadFor(c, s, "abandon")

AbandonSave(c) ==
  /\ call[c].pc = "abandon"
  /\ Save(c, [call[c].copy EXCEPT !.status = "abandoned"], "idle")
  /\ UNCHANGED <<store, astatus, turn, failures>>

-----------------------------------------------------------------------------
(* submit_answer.                                                          *)

SubmitLoad(c, s) == LoadFor(c, s, "submit")

SubmitCurrent(c) ==
  /\ call[c].pc = "submit"
  /\ IF Current(c).of = None \/ Current(c).answered THEN Return(c)
     ELSE call' = [call EXCEPT ![c].pc = "answer", ![c].question = Current(c).of]
  /\ UNCHANGED <<store, astatus, row, turn, failures, disturbed>>

SubmitAnswer(c) ==
  /\ call[c].pc = "answer"
  /\ turn' = [turn EXCEPT ![call[c].on][call[c].copy.index].answered = TRUE]
  /\ Goto(c, "advance")
  /\ UNCHANGED <<store, astatus, row, failures, disturbed>>

\* the session with the answered question's concepts
Covering(c) == [call[c].copy EXCEPT !.covered = @ \cup Concepts[call[c].question]]

Advance(c) ==
  /\ call[c].pc = "advance"
  /\ LET next == [Covering(c) EXCEPT !.index = @ + 1]
     IN Save(c, next, IF Finished(next) THEN "complete" ELSE "idle")
  /\ UNCHANGED <<store, astatus, turn, failures>>

-----------------------------------------------------------------------------
\* a repository call raises, or the process ends; only between the answer and
\* the index does that leave the two apart
CallFails(c) ==
  /\ call[c].pc # "idle" /\ failures < MaxFailures
  /\ failures' = failures + 1
  /\ disturbed' = IF call[c].pc = "advance" THEN disturbed \cup {call[c].on} ELSE disturbed
  /\ Return(c)
  /\ UNCHANGED <<store, astatus, row, turn>>

Step(c) ==
  \/ StartLook(c) \/ StartRefused(c) \/ \E s \in Session : StartCreate(c, s)
  \/ NextCurrent(c) \/ Select(c) \/ CreateTurn(c) \/ TurnRefused(c) \/ SaveDelivered(c)
  \/ SubmitCurrent(c) \/ SubmitAnswer(c) \/ Advance(c) \/ Complete(c) \/ AbandonSave(c)

Next ==
  \/ Activate \/ Close
  \/ \E c \in Client :
       \/ StartCheck(c) \/ Step(c) \/ CallFails(c)
       \/ \E s \in Session : NextLoad(c, s) \/ SubmitLoad(c, s) \/ AbandonLoad(c, s)

Spec == Init /\ [][Next]_vars

-----------------------------------------------------------------------------
(* Properties.                                                             *)

ConceptsBelow(s, n) == UNION {Concepts[turn[s][i].of] : i \in 0 .. n - 1}

\* Whatever calls overlap and break off, a session's turns are what an examination is: numbered
\* without gaps, a question is asked once and only after the one before was answered; and a session
\* (stored, or loaded by a call) covers exactly the concepts of the questions before its index.
TurnsSound ==
  /\ \A s \in Session, i \in Index : turn[s][i].of # None =>
       \A j \in 0 .. i - 1 : turn[s][j].answered /\ turn[s][j].of # turn[s][i].of
  /\ \A s \in Session : row[s].status # "none" => row[s].covered = ConceptsBelow(s, row[s].index)
  /\ \A c \in Client : call[c].on # None =>
       call[c].copy.covered = ConceptsBelow(call[c].on, call[c].copy.index)

\* An active session can be gone on with: its index does not point at a question answered already
\* (asking for the next one and answering would both be refused for good), unless a call is about to
\* advance it, broke off just there, or wrote the session back over another call's.
CanGoOn ==
  \A s \in ActiveSessions \ disturbed :
    row[s].index \in Index /\ turn[s][row[s].index].answered =>
      \E c \in Client : call[c].pc = "advance" /\ call[c].on = s
=============================================================================

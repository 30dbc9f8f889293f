-------------------------- MODULE PromptOverrides --------------------------
(***************************************************************************)
(* The examiner's prompt in http_app.py: one organisation's proposals for  *)
(* another template, which an admin approves or rejects, activates and     *)
(* reverts (_override_transition), and the answer flow's choice between    *)
(* the active one and the shipped one.                                     *)
(*                                                                         *)
(* A transition reads the status in one statement and writes the new one   *)
(* in another, which does not look at the status again.                    *)
(***************************************************************************)
EXTENDS Naturals, FiniteSets

CONSTANTS Override, Request, None

\* of the constants; assumed where they get values
PromptOverridesAssumption == None \notin Override

VARIABLES
  status,   \* examiner_prompt_override
  request,
  vetted,   \* history: overrides that were approved
  served,   \* history: overrides the answer flow has taken
  revived,  \* history: overrides that left a final status
  contested \* history: overrides with two transitions at work at once

vars == <<status, request, vetted, served, revived, contested>>
history == <<vetted, served, revived, contested>>

From == [approved |-> "draft", rejected |-> "draft", active |-> "approved", archived |-> "active"]
Final == {"rejected", "archived"}
Idle == [pc |-> "idle", on |-> None, to |-> "none", seen |-> {}]

Init ==
  /\ status = [o \in Override |-> "none"]
  /\ request = [r \in Request |-> Idle]
  /\ vetted = {} /\ served = {} /\ revived = {} /\ contested = {}

Active == {o \in Override : status[o] = "active"}
Working(o) == {r \in Request : request[r].on = o}

\* with the tokens the answer flow needs
Create(o) ==
  /\ status[o] = "none"
  /\ status' = [status EXCEPT ![o] = "draft"]
  /\ UNCHANGED <<request, history>>

Accepted(r, o, to) ==
  /\ request' = [request EXCEPT ![r] = [Idle EXCEPT !.on = o, !.to = to,
                   !.pc = IF to = "active" THEN "archive" ELSE "write"]]
  /\ contested' = IF Working(o) # {} THEN contested \cup {o} ELSE contested
  /\ UNCHANGED <<status, vetted, served, revived>>

\* mutant: the status it comes from is not checked
ReadAny(r, o, to) ==
  /\ request[r].pc = "idle" /\ status[o] # "none"
  /\ Accepted(r, o, to)

Read(r, o, to) ==
  /\ request[r].pc = "idle" /\ status[o] = From[to]
  /\ Accepted(r, o, to)

\* the statement sees what is active when it begins; rows another activation holds it waits for
Archive(r) ==
  /\ request[r].pc = "archive"
  /\ request' = [request EXCEPT ![r].pc = "write", ![r].seen = Active]
  /\ UNCHANGED <<status, history>>

\* uq_examiner_prompt_override_active: the transaction is rolled back
Refused(r) == request[r].to = "active" /\ Active \ (request[r].seen \cup {request[r].on}) # {}

Write(r) ==
  /\ request[r].pc = "write"
  /\ LET on == request[r].on
     IN IF Refused(r) THEN UNCHANGED <<status, vetted, revived>>
        ELSE /\ status' = [o \in Override |->
                  IF o = on THEN request[r].to
                  ELSE IF o \in request[r].seen \cap Active THEN "archived" ELSE status[o]]
             /\ revived' = IF status[on] \in Final /\ request[r].to \notin Final
                           THEN revived \cup {on} ELSE revived
             /\ vetted' = IF request[r].to = "approved" THEN vetted \cup {on} ELSE vetted
  /\ request' = [request EXCEPT ![r] = Idle]
  /\ UNCHANGED <<served, contested>>

Aborts(r) ==
  /\ request[r].pc \in {"archive", "write"}
  /\ request' = [request EXCEPT ![r] = Idle]
  /\ UNCHANGED <<status, history>>

\* build_examiner_eval_prompt: there is an active one and it can be read, or else the shipped template is taken
Answer ==
  /\ Active # {}
  /\ served' = served \cup Active
  /\ UNCHANGED <<status, request, vetted, revived, contested>>

Next ==
  \/ \E o \in Override : Create(o)
  \/ Answer
  \/ \E r \in Request :
       \/ \E o \in Override, to \in DOMAIN From : Read(r, o, to)
       \/ Archive(r) \/ Write(r) \/ Aborts(r)

Spec == Init /\ [][Next]_vars

-----------------------------------------------------------------------------
(* Properties.                                                             *)

\* "review gate" and "instant revert": no student is examined with what was not approved, what was rejected
\* or reverted stays out unless two transitions of it overlapped, and at most one is live at any time.
VerdictsStand ==
  /\ Cardinality(Active) <= 1
  /\ served \subseteq vetted
  /\ revived \subseteq contested
=============================================================================

----------------------------- MODULE DemoLinks -----------------------------
(***************************************************************************)
(* One demo link of http_app.py: minted for an assignment, used without    *)
(* credentials until it expires or its attempts are used up.  Its sessions *)
(* are rows of exam_session like any other; its answers have an            *)
(* orchestration of their own (_demo_answer_turn).                         *)
(*                                                                         *)
(* An evaluation is known by the expected nodes it finds.                  *)
(***************************************************************************)
EXTENDS Naturals, FiniteSets, SequencesExt

CONSTANTS
  Session, Request,
  Position,    \* of a question in the assignment
  Node,        \* of the expected paths
  MaxAttempts, \* of the link
  MaxAnswers,  \* per question of a session
  None

\* of the constants; assumed where they get values
DemoLinksAssumption ==
  None \notin Session \cup Request /\ Position \subseteq Nat /\ {MaxAttempts, MaxAnswers} \subseteq Nat

VARIABLES
  link,       \* demo_link
  assignment, \* whether the assignment's row exists
  session,    \* exam_session: status and current_turn_index
  turns,      \* session_turn with its evaluation, by session and position, in the order of sub-turns
  aggregate,  \* question_eds_aggregate
  request,
  spent,      \* history: attempts used without a session
  overlapped  \* history: questions with two submits at work at once

vars == <<link, assignment, session, turns, aggregate, request, spent, overlapped>>
exam == <<session, turns, aggregate>>

Cell == Session \X Position

NoSession == [status |-> "none", at |-> 0]
Idle == [pc |-> "idle", cell |-> None, sub |-> 0, own |-> {}, seen |-> {}]

Init ==
  /\ link = [minted |-> FALSE, expired |-> FALSE, used |-> 0]
  /\ assignment = TRUE
  /\ session = [s \in Session |-> NoSession]
  /\ turns = [c \in Cell |-> <<>>]
  /\ aggregate = [c \in Cell |-> None]
  /\ request = [r \in Request |-> Idle]
  /\ spent = 0 /\ overlapped = {}

At(r, pc) == request[r].pc = pc
Goto(r, pc) == request' = [request EXCEPT ![r].pc = pc]
End(r) == request' = [request EXCEPT ![r] = Idle]
Alive(s) == session[s].status \in {"active", "completed"}

-----------------------------------------------------------------------------
(* The link.                                                               *)

\* create_demo_link, create_assignment_demo_link
Mint ==
  /\ ~link.minted /\ assignment
  /\ link' = [link EXCEPT !.minted = TRUE]
  /\ UNCHANGED <<assignment, exam, request, spent, overlapped>>

Expire ==
  /\ ~link.expired
  /\ link' = [link EXCEPT !.expired = TRUE]
  /\ UNCHANGED <<assignment, exam, request, spent, overlapped>>

\* with its sessions; the link stays
DeleteAssignment ==
  /\ assignment
  /\ assignment' = FALSE
  /\ session' = [s \in Session |-> IF Alive(s) THEN [NoSession EXCEPT !.status = "purged"] ELSE session[s]]
  /\ turns' = [c \in Cell |-> <<>>]
  /\ aggregate' = [c \in Cell |-> None]
  /\ UNCHANGED <<link, request, spent, overlapped>>

\* _demo_link_or_error, at the head of every endpoint
LinkOpen == link.minted /\ ~link.expired /\ link.used < MaxAttempts

-----------------------------------------------------------------------------
(* demo_start.                                                             *)

Start(r) ==
  /\ At(r, "idle") /\ LinkOpen
  /\ Goto(r, "consume")
  /\ UNCHANGED <<link, assignment, exam, spent, overlapped>>

\* committed before there is a session; a deleted assignment is noticed after that
Consume(r) ==
  /\ At(r, "consume")
  /\ IF link.used = MaxAttempts
     THEN End(r) /\ UNCHANGED <<link, spent>>
     ELSE /\ link' = [link EXCEPT !.used = @ + 1]
          /\ IF assignment THEN Goto(r, "insert") /\ spent' = spent ELSE End(r) /\ spent' = spent + 1
  /\ UNCHANGED <<assignment, exam, overlapped>>

Insert(r, s) ==
  /\ At(r, "insert") /\ assignment
  /\ session[s].status = "none"
  /\ session' = [session EXCEPT ![s].status = "active"]
  /\ End(r)
  /\ UNCHANGED <<link, assignment, turns, aggregate, spent, overlapped>>

\* the foreign key, an error or the end of the process
InsertFails(r) ==
  /\ At(r, "insert")
  /\ spent' = spent + 1
  /\ End(r)
  /\ UNCHANGED <<link, assignment, exam, overlapped>>

-----------------------------------------------------------------------------
(* demo_answer: whatever the session's status.                             *)

AtCell(c) == {r \in Request : request[r].cell = c}

Answer(r, c) ==
  /\ At(r, "idle") /\ LinkOpen
  /\ Alive(c[1])
  /\ request' = [request EXCEPT ![r] = [Idle EXCEPT !.pc = "count", !.cell = c]]
  /\ overlapped' = IF AtCell(c) # {} THEN overlapped \cup {c} ELSE overlapped
  /\ UNCHANGED <<link, assignment, exam, spent>>

\* the sub-turn is the number of rows; counted and written in one transaction, without a lock
Count(r) ==
  /\ At(r, "count") /\ Len(turns[request[r].cell]) < MaxAnswers
  /\ request' = [request EXCEPT ![r].pc = "upsert", ![r].sub = Len(turns[request[r].cell]) + 1]
  /\ UNCHANGED <<link, assignment, exam, spent, overlapped>>

Unscored == [by |-> "none", nodes |-> {}]

Upsert(r) ==
  /\ At(r, "upsert")
  /\ LET c == request[r].cell
         sub == request[r].sub
     IN /\ Alive(c[1])
        /\ turns' = [turns EXCEPT ![c] = IF sub > Len(@) THEN Append(@, Unscored) ELSE @]
        /\ session' = [session EXCEPT ![c[1]].at = Max({@, c[2] + 1})]
  /\ Goto(r, "evaluate")
  /\ UNCHANGED <<link, assignment, aggregate, spent, overlapped>>

\* the model's verdict; then, with an expected path, what the other sub-turns have found
Evaluate(r, nodes) ==
  /\ At(r, "evaluate")
  /\ LET rows == turns[request[r].cell]
     IN request' = [request EXCEPT ![r].pc = "store", ![r].own = nodes,
          ![r].seen = UNION {rows[k].nodes : k \in DOMAIN rows \ {request[r].sub}}]
  /\ UNCHANGED <<link, assignment, exam, spent, overlapped>>

Scored(r, by, nodes) ==
  turns' = [turns EXCEPT ![request[r].cell][request[r].sub] = [by |-> by, nodes |-> nodes]]

\* the path could not be generated; a failed verdict counts too
StorePlain(r) ==
  /\ At(r, "evaluate") /\ Alive(request[r].cell[1])
  /\ LET c == request[r].cell
         k == request[r].sub
     IN turns' = [turns EXCEPT ![c][k].by = IF @ = "eds" THEN "eds" ELSE "plain"]
  /\ End(r)
  /\ UNCHANGED <<link, assignment, session, aggregate, spent, overlapped>>

\* evaluation and aggregate in one transaction: when the aggregate fails both are undone
Store(r, fails) ==
  /\ At(r, "store") /\ Alive(request[r].cell[1])
  /\ IF fails THEN UNCHANGED <<turns, aggregate>>
     ELSE /\ Scored(r, "eds", request[r].own)
          /\ aggregate' = [aggregate EXCEPT ![request[r].cell] = request[r].seen \cup request[r].own]
  /\ End(r)
  /\ UNCHANGED <<link, assignment, session, spent, overlapped>>

\* an error, or the end of the process; nothing more is written
Aborts(r) ==
  /\ request[r].pc \in {"count", "upsert", "evaluate", "store"}
  /\ End(r)
  /\ UNCHANGED <<link, assignment, exam, spent, overlapped>>

-----------------------------------------------------------------------------
\* demo_complete, again and again
Complete(s) ==
  /\ LinkOpen /\ Alive(s)
  /\ session' = [session EXCEPT ![s].status = "completed"]
  /\ UNCHANGED <<link, assignment, turns, aggregate, request, spent, overlapped>>

Next ==
  \/ Mint \/ Expire \/ DeleteAssignment
  \/ \E s \in Session : Complete(s)
  \/ \E r \in Request :
       \/ Start(r) \/ Consume(r) \/ InsertFails(r) \/ Count(r) \/ Upsert(r) \/ StorePlain(r) \/ Aborts(r)
       \/ \E s \in Session : Insert(r, s)
       \/ \E c \in Cell : Answer(r, c)
       \/ \E nodes \in SUBSET Node : Evaluate(r, nodes)
       \/ \E fails \in BOOLEAN : Store(r, fails)

Spec == Init /\ [][Next]_vars

-----------------------------------------------------------------------------
(* Properties.                                                             *)

Sessions == {s \in Session : session[s].status # "none"}
Starting == {r \in Request : At(r, "insert")}

\* "bounded by a total attempt cap": every session has its own attempt, no attempt is used twice or
\* taken back, and the attempts without a session are those of starts that are at work or failed.
AttemptsAccounted ==
  /\ link.used <= MaxAttempts
  /\ link.used = Cardinality(Sessions) + Cardinality(Starting) + spent

\* The aggregate of a question holds what its stored evaluations found, unless submits overlapped;
\* a failed store leaves no evaluation that the aggregate does not contain.
AggregateHolds ==
  \A c \in Cell \ overlapped :
    LET found == {k \in DOMAIN turns[c] : turns[c][k].by = "eds"}
    IN IF found = {} THEN aggregate[c] = None
       ELSE aggregate[c] = UNION {turns[c][k].nodes : k \in found}
=============================================================================

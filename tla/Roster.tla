------------------------------- MODULE Roster -------------------------------
(***************************************************************************)
(* Accounts of one organisation (app/auth_routes.py, auth/provision.py,    *)
(* auth/identity.py): a login at Cognito, the row that gives it a role,    *)
(* the enrolment in one course in two tables, an invitation, and the       *)
(* identity cache in front of it all.                                      *)
(*                                                                         *)
(* Calls to Cognito are steps of their own; a database transaction is one, *)
(* but for the redemption, which holds a row lock.  A password is known by *)
(* what has become of it, not by its text.                                 *)
(***************************************************************************)
EXTENDS Naturals

CONSTANTS
  User, Request,
  Capacity, \* of the invitation
  Ttl,      \* of the identity cache, in ticks
  None

\* of the constants; assumed where they get values
RosterAssumption ==
  /\ Capacity \in Nat \ {0} /\ Ttl \in Nat \ {0}
  /\ {None, "none", "unset", "known", "lost"} \cap Request = {}

VARIABLES
  login,    \* at Cognito: none, unset, known, lost, or the request that set a password it has not yet told
  role,     \* auth.app_user
  enrolled, \* auth.enrollment
  mirror,   \* public.enrollment
  there,    \* whether that table has been created: its first use does
  used,     \* invitation.used_count
  holder,   \* of the invitation's row lock
  cache,    \* IdentityResolver._cache
  request,
  since,    \* ticks since the role changed
  apart,    \* history: users whose two rows were parted: enrolled by invitation, or before the roster's table
            \* was there, or dropped from it by a role that may not delete the other row
  churned, overlapped, slow \* history: handed-out passwords a batch replaced, its excuse, and late cache writes

vars == <<login, role, enrolled, mirror, there, used, holder, cache, request, since, apart, churned, overlapped, slow>>
tables == <<role, enrolled, mirror, there, since>>
invitation == <<used, holder, apart>>
history == <<churned, overlapped, slow>>

Kind == {"professor", "student", "batch", "reset"}

Idle == [pc |-> "idle", kind |-> "none", user |-> None, role |-> "none", old |-> FALSE]
Absent == [role |-> "none", left |-> 0]

Init ==
  /\ role \in [User -> {"none", "platform_admin"}]
  /\ login = [u \in User |-> IF role[u] = "none" THEN "none" ELSE "known"]
  /\ enrolled = {} /\ mirror = {} /\ there = FALSE
  /\ used = 0 /\ holder = None /\ apart = {}
  /\ cache = [u \in User |-> Absent]
  /\ request = [r \in Request |-> Idle]
  /\ since = [u \in User |-> Ttl]
  /\ churned = {} /\ overlapped = {} /\ slow = {}

At(r, pc) == request[r].pc = pc
Goto(r, pc) == request' = [request EXCEPT ![r].pc = pc]
End(r) == request' = [request EXCEPT ![r] = Idle]
UserOf(r) == request[r].user

-----------------------------------------------------------------------------
(* create_professor, create_student, create_students_batch, reset_student_password. *)

Begin(r, u, kind) ==
  /\ At(r, "idle")
  /\ request' = [request EXCEPT ![r] = [Idle EXCEPT !.kind = kind, !.user = u,
                   !.pc = IF kind = "reset" THEN "password" ELSE "create"]]
  /\ UNCHANGED <<login, tables, invitation, cache, history>>

\* mutant: an account that exists gets a password too
CreateLoginAlways(r) ==
  /\ At(r, "create")
  /\ login' = [login EXCEPT ![UserOf(r)] = IF @ = "none" THEN "unset" ELSE @]
  /\ Goto(r, "password")
  /\ UNCHANGED <<tables, invitation, cache, history>>

\* cognito_admin_create, cognito_provision_student: a batch leaves an account that exists untouched
CreateLogin(r) ==
  /\ At(r, "create")
  /\ login' = [login EXCEPT ![UserOf(r)] = IF @ = "none" THEN "unset" ELSE @]
  /\ Goto(r, IF request[r].kind = "batch" /\ login[UserOf(r)] # "none" THEN "store" ELSE "password")
  /\ UNCHANGED <<tables, invitation, cache, history>>

\* another batch has created this account and not come to its password
Creating(u, r) == \E q \in Request \ {r} : At(q, "password") /\ UserOf(q) = u /\ request[q].kind = "batch"

\* a professor's may be left out; it is then set out of band
SetPassword(r, given) ==
  /\ At(r, "password") /\ login[UserOf(r)] # "none"
  /\ given \/ request[r].kind = "professor"
  /\ login' = IF given THEN [login EXCEPT ![UserOf(r)] = r] ELSE login
  /\ churned' = IF given /\ request[r].kind = "batch" /\ login[UserOf(r)] = "known"
                THEN churned \cup {UserOf(r)} ELSE churned
  /\ overlapped' = IF given /\ Creating(UserOf(r), r) THEN overlapped \cup {UserOf(r)} ELSE overlapped
  /\ Goto(r, "store")
  /\ UNCHANGED <<tables, invitation, cache, slow>>

\* the reply hands the password out
Told(r) == login' = [login EXCEPT ![UserOf(r)] = IF @ = r THEN "known" ELSE @]

Wanted(r) == IF request[r].kind = "professor" THEN "professor" ELSE "student"

\* insert_app_user: a student's provisioning takes no role away
Kept(r) == IF role[UserOf(r)] \in {"professor", "platform_admin"} /\ Wanted(r) = "student"
           THEN role[UserOf(r)] ELSE Wanted(r)

GiveRole(u, new) ==
  /\ role' = [role EXCEPT ![u] = new]
  /\ since' = IF new # role[u] THEN [since EXCEPT ![u] = 0] ELSE since

\* app_user, enrolment and its mirror if the table is there, committed; a batch skips who is no student
Store(r, inCourse) ==
  /\ At(r, "store")
  /\ LET u == UserOf(r)
         enrols == inCourse /\ (request[r].kind = "student" \/ (request[r].kind = "batch" /\ Kept(r) = "student"))
     IN /\ IF request[r].kind = "reset" THEN UNCHANGED <<role, since>> ELSE GiveRole(u, Kept(r))
        /\ enrolled' = IF enrols THEN enrolled \cup {u} ELSE enrolled
        /\ mirror' = IF enrols /\ there THEN mirror \cup {u} ELSE mirror
        /\ apart' = IF enrols /\ ~there THEN apart \cup {u} ELSE apart
  /\ Told(r)
  /\ End(r)
  /\ UNCHANGED <<there, used, holder, cache, history>>

\* Cognito, the database or the process fails: what was set is not told
Fails(r) ==
  /\ request[r].pc \in {"create", "password", "store"}
  /\ login' = [login EXCEPT ![UserOf(r)] = IF @ = r THEN "lost" ELSE @]
  /\ End(r)
  /\ UNCHANGED <<tables, invitation, cache, history>>

\* enroll_students
Enroll(u) ==
  /\ u \notin mirror
  /\ mirror' = mirror \cup {u} /\ there' = TRUE
  /\ UNCHANGED <<login, role, enrolled, since, invitation, cache, request, history>>

\* unenroll_student: a savepoint lets the other row stay when its DELETE fails
Unenroll(u) ==
  /\ u \in mirror \cup enrolled
  /\ mirror' = mirror \ {u} /\ there' = TRUE
  /\ \/ enrolled' = enrolled \ {u} /\ apart' = apart
     \/ u \in enrolled /\ enrolled' = enrolled /\ apart' = apart \cup {u}
  /\ UNCHANGED <<login, role, since, used, holder, cache, request, history>>

-----------------------------------------------------------------------------
(* redeem_invitation, for a login that need not have a row.                *)

RedeemLook(r, u) ==
  /\ At(r, "idle") /\ login[u] # "none"
  /\ holder = None /\ used < Capacity
  /\ holder' = r
  /\ request' = [request EXCEPT ![r] = [Idle EXCEPT !.pc = "redeem", !.user = u]]
  /\ UNCHANGED <<login, tables, used, apart, cache, history>>

\* the public roster is not told
Redeem(r) ==
  /\ At(r, "redeem")
  /\ IF role[UserOf(r)] = "none" THEN GiveRole(UserOf(r), "student") ELSE UNCHANGED <<role, since>>
  /\ enrolled' = enrolled \cup {UserOf(r)}
  /\ used' = used + 1 /\ apart' = apart \cup {UserOf(r)}
  /\ holder' = None
  /\ End(r)
  /\ UNCHANGED <<login, mirror, there, cache, history>>

RedeemFails(r) ==
  /\ At(r, "redeem")
  /\ holder' = None
  /\ End(r)
  /\ UNCHANGED <<login, tables, used, apart, cache, history>>

-----------------------------------------------------------------------------
(* IdentityResolver.                                                       *)

\* _cached misses, _load
Load(r, u) ==
  /\ At(r, "idle") /\ cache[u].left = 0 /\ role[u] # "none"
  /\ request' = [request EXCEPT ![r] = [Idle EXCEPT !.pc = "cache", !.user = u, !.role = role[u]]]
  /\ UNCHANGED <<login, tables, invitation, cache, history>>

Cache(r) ==
  /\ At(r, "cache")
  /\ cache' = [cache EXCEPT ![UserOf(r)] = [role |-> request[r].role, left |-> Ttl]]
  /\ slow' = IF request[r].old THEN slow \cup {UserOf(r)} ELSE slow
  /\ End(r)
  /\ UNCHANGED <<login, tables, invitation, churned, overlapped>>

\* time passes; what was loaded before is old
Tick ==
  /\ cache' = [u \in User |-> IF cache[u].left > 1 THEN [cache[u] EXCEPT !.left = @ - 1] ELSE Absent]
  /\ since' = [u \in User |-> IF since[u] < Ttl THEN since[u] + 1 ELSE Ttl]
  /\ request' = [r \in Request |-> IF At(r, "cache") THEN [request[r] EXCEPT !.old = TRUE] ELSE request[r]]
  /\ UNCHANGED <<login, role, enrolled, mirror, there, invitation, history>>

Next ==
  \/ Tick
  \/ \E u \in User : Enroll(u) \/ Unenroll(u)
  \/ \E r \in Request :
       \/ \E u \in User, kind \in Kind : Begin(r, u, kind)
       \/ \E given \in BOOLEAN : SetPassword(r, given)
       \/ \E inCourse \in BOOLEAN : Store(r, inCourse)
       \/ CreateLogin(r) \/ Fails(r) \/ Redeem(r) \/ RedeemFails(r) \/ Cache(r)
       \/ \E u \in User : RedeemLook(r, u) \/ Load(r, u)

Spec == Init /\ [][Next]_vars

-----------------------------------------------------------------------------
(* Properties.                                                             *)

\* "re-running a roster upload never churns passwords already handed out", unless another request set
\* one between the batch's creation of the account and its password.
PasswordsKept == churned \subseteq overlapped

\* "capacity can't be oversold": overlapping redemptions take no more seats than there are.
SeatsKept == used <= Capacity

\* A cached role that is no longer true is gone a TTL after the change, unless it was loaded long before it was cached.
IdentityFresh ==
  \A u \in User \ slow : cache[u].left > 0 /\ cache[u].role # role[u] => since[u] < Ttl

\* Whoever is enrolled is on the roster that courses show (_mirror_public_enrollment), but for users whom
\* an invitation, a table not there yet or a failed DELETE has parted from it.
RosterComplete == enrolled \ mirror \subseteq apart
=============================================================================

----------------------------- MODULE Privileges -----------------------------
(***************************************************************************)
(* Roles and just-in-time privileges of one user (access-control.service). *)
(* Requests for approval are those of Approval.tla; here they only exist.  *)
(* The flags "roles" and "jit" say what a history is about.                *)
(***************************************************************************)
EXTENDS Histories, Integers, FiniteSets, Sequences

CONSTANTS
    RoleCodes,    \* roles of the table
    Privileged,   \* those with is_privileged
    NeedsApproval,\* those with requires_approval; none of the roles the schema seeds
    PrivCalls,    \* calls of assignRole, revokeRole, checkPermission, or of
                  \* requestJitPrivilege and activateJitPrivilege
    JitRequests   \* rows of jit_privilege_requests

ASSUME PrivilegesAssumption ==
    /\ Privileged \subseteq RoleCodes /\ NeedsApproval \subseteq RoleCodes
    /\ None \notin {"assign", "revoke", "check", "request", "activate"}

VARIABLES
    roleRow,   \* roles: active, granting the permission asked about
    roleCache, \* roleCache: codes of roles found once; never emptied
    userRole,  \* user_roles: one row per role
    asked,     \* roles, JIT requests, for which an approval request was made
    jit,       \* jit_privilege_requests: status, times activated, end reached
    priv       \* the calls

privVars == <<roleRow, roleCache, userRole, asked, jit, priv>>

RoleFetchFails == May("reads")
RoleWriteFails == May("writes")

Role == [active : BOOLEAN, grants : BOOLEAN]
UserRole == {"none", "active", "inactive"}
JitStatus == {"none", "PENDING", "APPROVED", "REJECTED", "ACTIVATED", "EXPIRED", "REVOKED"}
Jit == [status : JitStatus, periods : 0..2, over : BOOLEAN]
PrivKinds == {"assign", "revoke", "check", "request", "activate"}
\* held, granting: the roles a check read; could: roles that were held and granted the
\* permission at some time since the check began (a history variable).
PrivCall == [pc : {"idle", "role", "approval", "write", "held", "grants",
                   "done", "refused", "granted"},
             kind : PrivKinds \cup {None}, role : RoleCodes \cup {None},
             request : JitRequests \cup {None}, held : SUBSET RoleCodes,
             could : SUBSET RoleCodes]
IdlePriv == [pc |-> "idle", kind |-> None, role |-> None, request |-> None,
             held |-> {}, could |-> {}]

PrivInit ==
    /\ \E G \in IF May("roles") THEN SUBSET RoleCodes ELSE {{}} :
          roleRow = [r \in RoleCodes |-> [active |-> TRUE, grants |-> r \in G]]
    /\ roleCache = {}
    /\ userRole = [r \in RoleCodes |-> "none"]
    /\ asked = {}
    /\ jit = [j \in JitRequests |-> [status |-> "none", periods |-> 0, over |-> FALSE]]
    /\ priv = [c \in PrivCalls |-> IdlePriv]

PrivEnded == {"idle", "done", "refused", "granted"}
PrivAtRest == \A c \in PrivCalls : priv[c].pc \in PrivEnded
PrivAt(c, pc) == priv' = [priv EXCEPT ![c] = IF pc \in PrivEnded
                            THEN [IdlePriv EXCEPT !.pc = pc] ELSE [priv[c] EXCEPT !.pc = pc]]

\* Holding: what checkPermission goes by; expired rows are revoked ones here.
Holding(ur, row) == {r \in RoleCodes : ur[r] = "active" /\ row[r].grants}
\* The table changes: what running checks could have seen grows.
Seen(calls, ur, row) ==
    [c \in PrivCalls |-> IF calls[c].kind = "check" /\ calls[c].pc \notin PrivEnded
                         THEN [calls[c] EXCEPT !.could = @ \cup Holding(ur, row)] ELSE calls[c]]

BeginPriv(c, kind) ==
    /\ priv[c].pc = "idle" /\ c = CHOOSE d \in PrivCalls : priv[d].pc = "idle"
    /\ May("serial") => PrivAtRest
    /\ UNCHANGED <<roleRow, roleCache, userRole, asked, jit>>

-----------------------------------------------------------------------------
(* assignRole, revokeRole.                                                 *)

\* An assignment asks for approval only where the role has both flags; a request for a
\* just-in-time privilege always does, and is for privileged roles.
Gated == Privileged \cap NeedsApproval
\* getRoleByCode at the start, from the cache or the table.
AfterRole(kind, r) == IF kind = "request" \/ (kind = "assign" /\ r \in Gated)
                      THEN "approval" ELSE "write"
BeginRole(c, kind, r) ==
    /\ BeginPriv(c, kind)
    /\ kind \in {"assign", "revoke"}
    /\ priv' = [priv EXCEPT ![c] = [IdlePriv EXCEPT !.kind = kind, !.role = r,
                  !.pc = IF r \in roleCache THEN AfterRole(kind, r) ELSE "role"]]

ReadRole(c) ==
    /\ priv[c].pc = "role"
    /\ LET r == priv[c].role IN
       \/ /\ roleRow[r].active
          /\ roleCache' = roleCache \cup {r}
          /\ PrivAt(c, IF priv[c].kind = "request" /\ r \notin Privileged THEN "refused"
                       ELSE AfterRole(priv[c].kind, r))
       \/ /\ ~roleRow[r].active \/ RoleFetchFails
          /\ PrivAt(c, "refused") /\ UNCHANGED roleCache
    /\ UNCHANGED <<roleRow, userRole, asked, jit>>

\* createApprovalRequest; its failure ends the call.
AskApproval(c) ==
    /\ priv[c].pc = "approval"
    /\ \/ /\ asked' = asked \cup {IF priv[c].kind = "request" THEN priv[c].request
                                  ELSE priv[c].role}
          /\ PrivAt(c, "write")
       \/ RoleWriteFails /\ PrivAt(c, "refused") /\ UNCHANGED asked
    /\ UNCHANGED <<roleRow, roleCache, userRole, jit>>

\* A user has one row per role, revoked or not; a second insert is refused.
\* Mutated form: the row is active before it is approved.
AssignedActive(r) == "active"
Assigned(r) == IF r \in Gated THEN "inactive" ELSE "active"
WriteUserRole(c) ==
    /\ priv[c].pc = "write" /\ priv[c].kind \in {"assign", "revoke"}
    /\ LET r == priv[c].role
           new == IF priv[c].kind = "assign"
                  THEN IF userRole[r] = "none" THEN Assigned(r) ELSE userRole[r]
                  ELSE IF userRole[r] = "active" THEN "inactive" ELSE userRole[r]
       IN \/ /\ userRole' = [userRole EXCEPT ![r] = new]
             /\ priv' = Seen([priv EXCEPT ![c] = [IdlePriv EXCEPT !.pc =
                          IF priv[c].kind = "assign" /\ userRole[r] # "none" THEN "refused"
                          ELSE "done"]], userRole', roleRow)
          \/ RoleWriteFails /\ UNCHANGED userRole /\ PrivAt(c, "refused")
    /\ UNCHANGED <<roleRow, roleCache, asked, jit>>

\* A role is taken out of use, or its permission taken away or given (external).
RoleChanges(r) ==
    /\ \/ roleRow' = [roleRow EXCEPT ![r].active = FALSE] /\ roleRow[r].active
       \/ May("changes") /\ roleRow' = [roleRow EXCEPT ![r].grants = ~@]
    /\ priv' = Seen(priv, userRole, roleRow')
    /\ UNCHANGED <<roleCache, userRole, asked, jit>>

-----------------------------------------------------------------------------
(* checkPermission: the roles held, then the permissions of each.          *)

BeginCheck(c) ==
    /\ BeginPriv(c, "check")
    /\ priv' = [priv EXCEPT ![c] = [IdlePriv EXCEPT !.kind = "check", !.pc = "held",
                  !.could = Holding(userRole, roleRow)]]

\* getUserRoles.  Mutated form: inactive rows are read as well.
RolesHeldAny == {r \in RoleCodes : userRole[r] # "none"}
RolesHeld == {r \in RoleCodes : userRole[r] = "active"}
ReadHeld(c) ==
    /\ priv[c].pc = "held"
    /\ \/ /\ RolesHeld # {}
          /\ priv' = [priv EXCEPT ![c].pc = "grants", ![c].held = RolesHeld]
       \/ (RolesHeld = {} \/ RoleFetchFails) /\ PrivAt(c, "refused")
    /\ UNCHANGED <<roleRow, roleCache, userRole, asked, jit>>

\* A role whose permissions cannot be read is passed over.
ReadGrants(c) ==
    /\ priv[c].pc = "grants"
    /\ \E r \in priv[c].held :
         \/ roleRow[r].grants /\ PrivAt(c, "granted")
         \/ /\ ~roleRow[r].grants \/ RoleFetchFails
            /\ IF priv[c].held = {r} THEN PrivAt(c, "refused")
               ELSE priv' = [priv EXCEPT ![c].held = @ \ {r}]
    /\ UNCHANGED <<roleRow, roleCache, userRole, asked, jit>>

-----------------------------------------------------------------------------
(* Just-in-time privileges.                                                *)

BeginRequest(c, j, r) ==
    /\ BeginPriv(c, "request") /\ jit[j].status = "none" /\ j \notin asked
    /\ \A d \in PrivCalls : priv[d].request # j
    /\ priv' = [priv EXCEPT ![c] = [IdlePriv EXCEPT !.kind = "request", !.role = r,
                  !.request = j, !.pc = IF r \in roleCache /\ r \in Privileged THEN "approval"
                                        ELSE "role"]]

InsertJit(c) ==
    /\ priv[c].pc = "write" /\ priv[c].kind = "request"
    /\ \/ jit' = [jit EXCEPT ![priv[c].request].status = "PENDING"] /\ PrivAt(c, "done")
       \/ RoleWriteFails /\ UNCHANGED jit /\ PrivAt(c, "refused")
    /\ UNCHANGED <<roleRow, roleCache, userRole, asked>>

\* Nothing in the repository decides on a request, or revokes a privilege (external).
Decide(j) ==
    /\ \/ /\ jit[j].status = "PENDING"
          /\ \E s \in {"APPROVED", "REJECTED"} : jit' = [jit EXCEPT ![j].status = s]
       \/ /\ jit[j].status \in {"APPROVED", "ACTIVATED"}
          /\ jit' = [jit EXCEPT ![j].status = "REVOKED"]
    /\ UNCHANGED <<roleRow, roleCache, userRole, asked, priv>>

BeginActivate(c, j) ==
    /\ BeginPriv(c, "activate")
    /\ priv' = [priv EXCEPT ![c] = [IdlePriv EXCEPT !.kind = "activate", !.request = j,
                                                    !.pc = "held"]]

\* activateJitPrivilege: the status is read.  Mutated form: only a rejected request is
\* not activated.
ActivatableLoose(s) == s \notin {"none", "REJECTED", "PENDING"}
Activatable(s) == s = "APPROVED"
ReadJit(c) ==
    /\ priv[c].pc = "held" /\ priv[c].kind = "activate"
    /\ PrivAt(c, IF Activatable(jit[priv[c].request].status) THEN "write" ELSE "refused")
    /\ UNCHANGED <<roleRow, roleCache, userRole, asked, jit>>

\* It is written whatever has become of the request since; the answer is not looked at.
WriteJit(c) ==
    /\ priv[c].pc = "write" /\ priv[c].kind = "activate"
    /\ LET j == priv[c].request IN
         \/ jit' = [jit EXCEPT ![j] = [status |-> "ACTIVATED", over |-> FALSE,
                                       periods |-> IF jit[j].periods < 2 THEN jit[j].periods + 1 ELSE 2]]
         \/ RoleWriteFails /\ UNCHANGED jit
    /\ PrivAt(c, "done")
    /\ UNCHANGED <<roleRow, roleCache, userRole, asked>>

PeriodEnds(j) ==
    /\ jit[j].status = "ACTIVATED" /\ ~jit[j].over
    /\ jit' = [jit EXCEPT ![j].over = TRUE]
    /\ UNCHANGED <<roleRow, roleCache, userRole, asked, priv>>

\* expireJitPrivileges, every minute.  Mutated form: it looks for approved requests.
ExpiringApproved(j) == jit[j].status = "APPROVED" /\ jit[j].over
Expiring(j) == jit[j].status = "ACTIVATED" /\ jit[j].over
ExpireJitPrivileges ==
    /\ \E j \in JitRequests : Expiring(j)
    /\ jit' = [j \in JitRequests |-> IF Expiring(j) THEN [jit[j] EXCEPT !.status = "EXPIRED"]
                                     ELSE jit[j]]
    /\ UNCHANGED <<roleRow, roleCache, userRole, asked, priv>>

PrivStep(c) == \/ ReadRole(c) \/ AskApproval(c) \/ WriteUserRole(c)
               \/ (priv[c].kind = "check" /\ ReadHeld(c)) \/ ReadGrants(c)
               \/ InsertJit(c) \/ ReadJit(c) \/ WriteJit(c)

PrivNext ==
    \/ /\ May("roles")
       /\ \/ \E c \in PrivCalls, k \in {"assign", "revoke"}, r \in RoleCodes : BeginRole(c, k, r)
          \/ \E c \in PrivCalls : BeginCheck(c)
          \/ \E r \in RoleCodes : RoleChanges(r)
    \/ /\ May("jit")
       /\ \/ \E c \in PrivCalls, j \in JitRequests, r \in RoleCodes : BeginRequest(c, j, r)
          \/ \E j \in JitRequests : Decide(j) \/ PeriodEnds(j)
          \/ \E c \in PrivCalls, j \in JitRequests : BeginActivate(c, j)
          \/ ExpireJitPrivileges
    \/ \E c \in PrivCalls : PrivStep(c)

PrivFairness == WF_privVars(May("jit") /\ ExpireJitPrivileges)

-----------------------------------------------------------------------------
(* Properties.                                                             *)

PrivTypeOK ==
    /\ roleRow \in [RoleCodes -> Role] /\ roleCache \subseteq RoleCodes
    /\ userRole \in [RoleCodes -> UserRole]
    /\ asked \subseteq RoleCodes \cup JitRequests
    /\ jit \in [JitRequests -> Jit]
    /\ priv \in [PrivCalls -> PrivCall]

\* A privilege is granted only for a role that was held, and granted the permission,
\* while the question was answered, although the two are read one after the other, if
\* only assignments change meanwhile (checkPermission).
GrantedWasHeld ==
    [][\A c \in PrivCalls : priv'[c].pc = "granted" /\ priv[c].pc # "granted" =>
         May("changes") \/ priv[c].could # {}]_privVars

\* Nobody holds a privileged role that requires approval, or a just-in-time privilege, that
\* no approval was asked for; a failing insert leaves a request without its role, never the
\* reverse (assignRole, requestJitPrivilege).  Of a privileged role that requires none, as
\* those of the schema do, nothing is said: it is active at once.
PrivilegesWereAskedFor ==
    /\ \A r \in Gated : userRole[r] # "none" => r \in asked /\ userRole[r] = "inactive"
    /\ \A j \in JitRequests : jit[j].status # "none" => j \in asked

\* Where activations do not overlap, an approval gives one period and no revoked, expired
\* or rejected privilege comes back (activateJitPrivilege).
OneApprovalOnePeriod ==
    May("serial") => \A j \in JitRequests : jit[j].periods <= 1

\* An activated privilege that is over is taken away, if it is not activated again
\* (expireJitPrivileges).
PrivilegesEnd ==
    \A j \in JitRequests : jit[j].status = "ACTIVATED" /\ jit[j].over ~>
                              jit[j].status # "ACTIVATED" \/ ~jit[j].over
=============================================================================

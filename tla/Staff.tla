---------------------------------- MODULE Staff ----------------------------------
(***************************************************************************)
(* modules/platform/provisioning.service.ts and tenant-roles.service.ts:   *)
(* what operators do to a shop's staff and their roles.                    *)
(*                                                                         *)
(* One shop; its branches stay as they are.  A user's row is locked while  *)
(* their role or branch changes, the other admins are only looked at, so   *)
(* those requests take two steps, and so does deleting a role.  Names,     *)
(* contact details and the token turned over at a password reset are left  *)
(* out (Sessions), and so is the owner, whose role never changes.  A       *)
(* user's default branch is the one their role is at.                      *)
(***************************************************************************)
EXTENDS Integers, FiniteSets

CONSTANTS
  Operators,        \* who may be changing staff at once
  MaxUsers,         \* bound: users of the shop ever created
  BranchesOfShop,
  StaffRoles,       \* role rows besides owner and admin
  PermissionSets,   \* what a staff role may allow
  MaxVersion        \* bound: changes of one user, by the number of operators at work

VARIABLES
  operators,   \* those at work in this behaviour
  person,      \* app_user with its user_role row
  staffRole,   \* role with its role_permission rows
  edit,        \* what each operator is in the middle of
  held         \* the grants each user has had since their token version last changed

staffVars == <<operators, person, staffRole, edit, held>>

All == "all"
People == 1..MaxUsers
Reach == BranchesOfShop \cup {All}
RoleCodes == {"admin"} \cup StaffRoles
Versions == 0..MaxVersion[1]

\* Two operators at once change a user no more often than one does, and no staff role is
\* called admin.
ASSUME StaffAssumption ==
  /\ IsFiniteSet(Operators)
  /\ MaxUsers \in Nat
  /\ "admin" \notin StaffRoles
  /\ MaxVersion[1] \in Nat
  /\ \A n \in 1..Cardinality(Operators) : MaxVersion[n] \in 0..MaxVersion[1]

Persons == [exists : BOOLEAN, active : BOOLEAN, version : Versions, role : RoleCodes, branch : Reach,
            checked : BOOLEAN]
NoPerson == [exists |-> FALSE, active |-> FALSE, version |-> 0, role |-> "admin", branch |-> All,
             checked |-> FALSE]

RoleRows == [status : {"none", "live", "deleted"}, active : BOOLEAN, permissions : SUBSET UNION PermissionSets]
NoRole == [status |-> "none", active |-> FALSE, permissions |-> {}]

Grants == [role : RoleCodes \cup {"none"}, branch : Reach, permissions : SUBSET ((UNION PermissionSets) \cup {"*"})]
NoGrant == [role |-> "none", branch |-> All, permissions |-> {}]

Edits == [pc : {"idle", "role", "move", "delete"}, user : {0} \cup People, role : RoleCodes, branch : Reach]
NoEdit == [pc |-> "idle", user |-> 0, role |-> "admin", branch |-> All]

StaffTypeOK ==
  /\ person \in [People -> Persons]
  /\ staffRole \in [StaffRoles -> RoleRows]
  /\ edit \in [Operators -> Edits]
  /\ \A u \in People : held[u] \subseteq Grants

StaffInit ==
  /\ operators \in SUBSET Operators /\ operators # {}
  /\ person = [u \in People |-> NoPerson]
  /\ staffRole = [r \in StaffRoles |-> NoRole]
  /\ edit = [o \in Operators |-> NoEdit]
  /\ held = [u \in People |-> {}]

Working(o) == o \in operators /\ edit[o].pc = "idle"

PersonHeld(u) == \E o \in Operators : edit[o].pc \in {"role", "move"} /\ edit[o].user = u

Free(u) == person[u].exists /\ person[u].version < MaxVersion[Cardinality(operators)] /\ ~PersonHeld(u)

EndEdit(o) == edit' = [edit EXCEPT ![o] = NoEdit]

\* The admin's role always exists; a staff role while it is not deleted.
RoleExists(r) == r \in StaffRoles => staffRole[r].status = "live"

\* loadUserAccess: a role that is off or deleted grants nothing.
grantsOf(rows, roles, u) ==
  LET r == rows[u].role IN
  IF r \notin StaffRoles THEN [role |-> r, branch |-> rows[u].branch, permissions |-> {"*"}]
  ELSE IF roles[r].status = "live" /\ roles[r].active
       THEN [role |-> r, branch |-> rows[u].branch, permissions |-> roles[r].permissions] ELSE NoGrant

\* Written down after every step.
Recorded == held' = [u \in People |->
  IF ~person'[u].exists THEN {}
  ELSE {grantsOf(person', staffRole', u)} \cup (IF person'[u].version = person[u].version THEN held[u] ELSE {})]

-------------------------------------------------------------------------------
\* Users.

\* Any role at any branch: whether there is an admin is not looked at.
createTenantUser(o) ==
  \E u \in People, r \in RoleCodes, b \in Reach :
    /\ Working(o)
    /\ ~person[u].exists /\ \A w \in 1..u - 1 : person[w].exists
    /\ RoleExists(r)
    /\ person' = [person EXCEPT ![u] = [NoPerson EXCEPT !.exists = TRUE, !.active = TRUE, !.role = r, !.branch = b]]
    /\ UNCHANGED <<operators, staffRole, edit>>
    /\ Recorded

\* Both the platform's and the shop's own; again without looking at other admins.
setUserActive(o, u) ==
  \E on \in BOOLEAN :
    /\ Working(o)
    /\ Free(u)
    /\ person' = [person EXCEPT ![u].active = on, ![u].version = @ + 1, ![u].checked = person[u].checked /\ ~on]
    /\ UNCHANGED <<operators, staffRole, edit>>
    /\ Recorded

\* Branches that meet: one of them is all.
Meet(a, b) == a = All \/ b = All \/ a = b

\* Only an admin of the very same branch is found.
assertBranchAdminFree_Same(u, role, branch) ==
  role = "admin" =>
    \A w \in People \ {u} : person[w].exists /\ person[w].active /\ person[w].role = "admin" => person[w].branch # branch

\* An active admin other than u at the branch, or at all of them.
assertBranchAdminFree(u, role, branch) ==
  role = "admin" =>
    \A w \in People \ {u} : person[w].exists /\ person[w].active /\ person[w].role = "admin" => ~Meet(person[w].branch, branch)

\* A new role, at their own branch or another.
BeginChangeRole(o, u) ==
  \E r \in RoleCodes, b \in Reach :
    /\ Working(o)
    /\ Free(u) /\ RoleExists(r)
    /\ assertBranchAdminFree(u, r, b)
    /\ edit' = [edit EXCEPT ![o] = [NoEdit EXCEPT !.pc = "role", !.user = u, !.role = r, !.branch = b]]
    /\ UNCHANGED <<operators, person, staffRole, held>>

changeUserRole(o) ==
  LET e == edit[o] IN
  /\ e.pc = "role"
  /\ person' = [person EXCEPT ![e.user].role = e.role, ![e.user].branch = e.branch,
                              ![e.user].version = @ + 1, ![e.user].checked = TRUE]
  /\ EndEdit(o)
  /\ UNCHANGED <<operators, staffRole>>
  /\ Recorded

\* Another branch, with the role they hold.
BeginMove(o, u) ==
  \E b \in Reach :
    /\ Working(o)
    /\ Free(u)
    /\ assertBranchAdminFree(u, person[u].role, b)
    /\ edit' = [edit EXCEPT ![o] = [NoEdit EXCEPT !.pc = "move", !.user = u, !.branch = b]]
    /\ UNCHANGED <<operators, person, staffRole, held>>

updateTenantUserDetails(o) ==
  LET e == edit[o] IN
  /\ e.pc = "move"
  /\ person' = [person EXCEPT ![e.user].branch = e.branch, ![e.user].version = @ + 1,
                              ![e.user].checked = TRUE]
  /\ EndEdit(o)
  /\ UNCHANGED <<operators, staffRole>>
  /\ Recorded

-------------------------------------------------------------------------------
\* Staff roles.

createStaffRole(o) ==
  \E r \in StaffRoles, p \in PermissionSets :
    /\ Working(o)
    /\ staffRole[r].status = "none"
    /\ staffRole' = [staffRole EXCEPT ![r] = [status |-> "live", active |-> TRUE, permissions |-> p]]
    /\ UNCHANGED <<operators, person, edit>>
    /\ Recorded

Holders(r) == {u \in People : person[u].exists /\ person[u].role = r}

\* What a user may do, or whether the role counts at all; every holder's token turns
\* over, once nobody is changing them.
updateStaffRole(o, r) ==
  \E p \in PermissionSets, on \in BOOLEAN :
    /\ Working(o)
    /\ staffRole[r].status = "live"
    /\ \A u \in Holders(r) : Free(u)
    /\ staffRole' = [staffRole EXCEPT ![r].permissions = p, ![r].active = on]
    /\ person' = [u \in People |-> IF u \in Holders(r) THEN [person[u] EXCEPT !.version = @ + 1] ELSE person[u]]
    /\ UNCHANGED <<operators, edit>>
    /\ Recorded

\* That nobody holds it is looked at before the row is taken.
BeginDeleteRole(o, r) ==
  /\ Working(o)
  /\ staffRole[r].status = "live"
  /\ Holders(r) = {}
  /\ edit' = [edit EXCEPT ![o] = [NoEdit EXCEPT !.pc = "delete", !.role = r]]
  /\ UNCHANGED <<operators, person, staffRole, held>>

deleteStaffRole(o) ==
  LET e == edit[o] IN
  /\ e.pc = "delete"
  /\ staffRole' = [staffRole EXCEPT ![e.role].status = "deleted", ![e.role].permissions = {}]
  /\ EndEdit(o)
  /\ UNCHANGED <<operators, person>>
  /\ Recorded

StaffNext ==
  \E o \in Operators :
    \/ createTenantUser(o)
    \/ \E u \in People : setUserActive(o, u)
    \/ \E u \in People : BeginChangeRole(o, u)
    \/ changeUserRole(o)
    \/ \E u \in People : BeginMove(o, u)
    \/ updateTenantUserDetails(o)
    \/ createStaffRole(o)
    \/ \E r \in StaffRoles : updateStaffRole(o, r)
    \/ \E r \in StaffRoles : BeginDeleteRole(o, r)
    \/ deleteStaffRole(o)

-------------------------------------------------------------------------------
\* "A branch has at most one admin" (provisioning.service.ts:272).  With one operator, two
\* active admins whose branches meet are there only when one of them was created or
\* switched on as such, which nobody checks; a change of role or branch never makes one.
OneAdmin ==
  Cardinality(operators) = 1 =>
    \A u, w \in People :
      /\ u # w /\ person[u].active /\ person[w].active
      /\ person[u].role = "admin" /\ person[w].role = "admin" /\ Meet(person[u].branch, person[w].branch)
      => ~person[u].checked \/ ~person[w].checked

\* "A role change applies without waiting for the access token to expire"
\* (access.service.ts:2): a user's token version turns over with every change of what they
\* may do, so one version stands for one set of grants, also for someone switched off who
\* comes back, and except for the holder of a role another operator deleted meanwhile.
VersionTells ==
  \A u \in People : Cardinality(IF Cardinality(operators) = 1 THEN held[u] ELSE held[u] \ {NoGrant}) <= 1
===============================================================================

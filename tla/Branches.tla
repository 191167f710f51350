-------------------------------- MODULE Branches --------------------------------
(***************************************************************************)
(* modules/tenancy/branch.service.ts, the branch routes of                 *)
(* api/routes.master.ts and createTenant of platform/provisioning: how a   *)
(* shop comes to be with its first branch, how many it may have, their     *)
(* codes and where stock can sit in each.                                  *)
(*                                                                         *)
(* The console and the shop add branches the same way: what is checked is  *)
(* read without a lock, and the insert is refused only by the unique       *)
(* indexes.  So adding and changing a branch are two steps each.  Names,   *)
(* addresses and tax numbers are left out, and so is which branch is the   *)
(* head office, which a unique index keeps to one.                         *)
(***************************************************************************)
EXTENDS Integers, FiniteSets

CONSTANTS
  Managers,      \* who may be changing branches at once
  BranchCodes,   \* codes a branch may have, the first branch's among them
  FirstCode,     \* the first branch's, MAIN when the request has none
  ShopKinds,     \* kinds of branch that the kind of shop makes its first one
  BranchKinds,   \* kinds to add, among "showroom", "factory", "warehouse", "office"
  MaxBranches,   \* bound: branches ever added
  MaxRenamers,   \* bound: managers at work where codes are changed
  Limits         \* allowances to sell, NoLimit among them or not

\* Those who may be at work are finitely many, and the first branch has its place and code.
ASSUME BranchesAssumption ==
  /\ IsFiniteSet(Managers)
  /\ FirstCode \in BranchCodes
  /\ MaxBranches \in Nat \ {0}
  /\ Limits \subseteq Nat

VARIABLES
  managers,    \* those at work in this behaviour
  branch,      \* branch with its stock_location rows
  allowance,   \* tenant.max_branches
  standing,    \* how many branches there were when the allowance was last set
  adding       \* what each manager is in the middle of

branchVars == <<managers, branch, allowance, standing, adding>>

NoLimit == 1000
BranchIds == 1..MaxBranches

\* LOCATIONS: where stock can sit, the first of them by default.
locationsOf(k) ==
  CASE k = "factory" -> <<"vault", "floor">>
    [] k = "showroom" -> <<"counter", "vault", "window">>
    [] OTHER -> <<"vault">>

BranchRows == [status : {"none", "live", "deleted"}, code : BranchCodes, kind : BranchKinds \cup ShopKinds \cup {"showroom"},
               active : BOOLEAN, locations : {<<>>} \cup {locationsOf(k) : k \in {"factory", "showroom", "office"}}]
NoBranch == [status |-> "none", code |-> FirstCode, kind |-> "showroom", active |-> FALSE,
             locations |-> <<>>]

\* What a request sends: a whole row to insert, or what it changes of one.
Addings == [pc : {"idle", "found", "insert", "update"}, row : {0} \cup BranchIds,
            sent : BranchRows \cup [code : BranchCodes] \cup [active : BOOLEAN]]
NotAdding == [pc |-> "idle", row |-> 0, sent |-> NoBranch]

BranchesTypeOK ==
  /\ branch \in [BranchIds -> BranchRows]
  /\ allowance \in Nat /\ standing \in Nat
  /\ adding \in [Managers -> Addings]

BranchesInit ==
  /\ managers \in SUBSET Managers /\ managers # {}
  /\ branch = [b \in BranchIds |-> NoBranch]
  /\ allowance = NoLimit
  /\ standing = 0
  /\ adding = [m \in Managers |-> NotAdding]

Live == {b \in BranchIds : branch[b].status = "live"}
Trading == {b \in Live : branch[b].active}

\* A shop has a branch from the start, and the row stays when it is deleted.
Founded == branch[1].status # "none"

Idle(m) == m \in managers /\ adding[m].pc = "idle" /\ Founded

-------------------------------------------------------------------------------
\* The head office, MAIN and of the shop's kind unless the request says otherwise; its
\* locations go by the shop's kind, not by its own.
createFirstBranch(shopKind, k) ==
  [status |-> "live", code |-> FirstCode, kind |-> k, active |-> TRUE,
   locations |-> locationsOf(shopKind)]

\* createTenant finds the shop's code free, and then inserts the shop and all that belongs
\* to it, or nothing when another request has inserted it since.
BeginCreateTenant(m) ==
  \E shopKind \in ShopKinds : \E k \in {shopKind} \cup BranchKinds :
    /\ m \in managers /\ adding[m].pc = "idle"
    /\ ~Founded
    /\ adding' = [adding EXCEPT ![m] = [NotAdding EXCEPT !.pc = "found", !.sent = createFirstBranch(shopKind, k)]]
    /\ UNCHANGED <<managers, branch, allowance, standing>>

createTenant(m) ==
  /\ adding[m].pc = "found"
  /\ \/ Founded /\ UNCHANGED <<branch, allowance, standing>>
     \/ /\ ~Founded
        /\ branch' = [branch EXCEPT ![1] = adding[m].sent]
        /\ allowance' \in Limits \cup {NoLimit}
        /\ standing' = 1
  /\ adding' = [adding EXCEPT ![m] = NotAdding]
  /\ UNCHANGED managers

\* updateTenant: a limit below what there is only stops more.
updateAllowance(m) ==
  \E limit \in Limits :
    /\ Idle(m)
    /\ limit # allowance
    /\ allowance' = limit
    /\ standing' = Cardinality(Live)
    /\ UNCHANGED <<managers, branch, adding>>

-------------------------------------------------------------------------------
\* Branches parked by switching them off are not counted.
assertBranchAllowance_Active == Cardinality(Trading) < allowance

\* Every branch that still exists counts.
assertBranchAllowance == Cardinality(Live) < allowance

\* No branch that still exists has the code.
assertBranchCodeFree(code, but) == \A b \in Live \ {but} : branch[b].code # code

\* What the database refuses: a code any branch of the shop ever had.
codeTaken(code, but) == \E b \in BranchIds \ {but} : branch[b].status # "none" /\ branch[b].code = code

\* createBranchWithLocations, and beforeCreate of the shop's own screen.
BeginCreateBranch(m) ==
  \E code \in BranchCodes, k \in BranchKinds :
    /\ Idle(m)
    /\ assertBranchAllowance
    /\ assertBranchCodeFree(code, 0)
    /\ adding' = [adding EXCEPT ![m] = [NotAdding EXCEPT !.pc = "insert",
         !.sent = [status |-> "live", code |-> code, kind |-> k, active |-> TRUE, locations |-> locationsOf(k)]]]
    /\ UNCHANGED <<managers, branch, allowance, standing>>

NextBranch == {b \in BranchIds : branch[b].status = "none" /\ \A c \in 1..b - 1 : branch[c].status # "none"}

\* The branch and its locations are there together or not at all.
createBranch(m) ==
  /\ adding[m].pc = "insert"
  /\ \/ codeTaken(adding[m].sent.code, 0) /\ UNCHANGED branch
     \/ \E row \in NextBranch :
          /\ ~codeTaken(adding[m].sent.code, 0)
          /\ branch' = [branch EXCEPT ![row] = adding[m].sent]
  /\ adding' = [adding EXCEPT ![m] = NotAdding]
  /\ UNCHANGED <<managers, allowance, standing>>

-------------------------------------------------------------------------------
\* beforeUpdate: another code, or on and off; not off for the last active one.  A request
\* changes one of them.
BeginUpdateBranch(m, b) ==
  \E sent \in [code : BranchCodes \ {branch[b].code}] \cup [active : {~branch[b].active}] :
    /\ Idle(m)
    /\ b \in Live
    /\ "code" \in DOMAIN sent => assertBranchCodeFree(sent.code, b) /\ Cardinality(managers) <= MaxRenamers
    /\ "active" \in DOMAIN sent /\ branch[b].active => Trading # {b}
    /\ adding' = [adding EXCEPT ![m] = [pc |-> "update", row |-> b, sent |-> sent]]
    /\ UNCHANGED <<managers, branch, allowance, standing>>

\* Only what was sent is written, whatever became of the rest of the row.
updateBranch(m) ==
  LET ask == adding[m]
      row == branch[ask.row]
      now == [f \in DOMAIN row |-> IF f \in DOMAIN ask.sent THEN ask.sent[f] ELSE row[f]]
  IN
  /\ ask.pc = "update"
  /\ branch' = IF row.status # "live" \/ codeTaken(now.code, ask.row) THEN branch ELSE [branch EXCEPT ![ask.row] = now]
  /\ adding' = [adding EXCEPT ![m] = NotAdding]
  /\ UNCHANGED <<managers, allowance, standing>>

\* Nothing stops the last one from going.
deleteBranch(m, b) ==
  /\ Idle(m)
  /\ b \in Live
  /\ branch' = [branch EXCEPT ![b].status = "deleted"]
  /\ UNCHANGED <<managers, allowance, standing, adding>>

BranchesNext ==
  \E m \in Managers :
    \/ BeginCreateTenant(m)
    \/ createTenant(m)
    \/ updateAllowance(m)
    \/ BeginCreateBranch(m)
    \/ createBranch(m)
    \/ \E b \in BranchIds : BeginUpdateBranch(m, b)
    \/ updateBranch(m)
    \/ \E b \in BranchIds : deleteBranch(m, b)

-------------------------------------------------------------------------------
\* "A shop that may add its own branches should not be able to add thirty of them"
\* (tenancy.schema.ts:40), nor "park a branch and claim the slot back" (branch.service.ts:63):
\* there are no more branches than were sold, or than there were when the number sold was
\* changed, and one more for each other manager at work.  With one manager, "the last
\* active branch cannot be deactivated" (routes.master.ts:47), only deleted.  However a
\* branch came to be, stock has somewhere to sit in it (tenancy/provisioning.service.ts:137).
BranchAllowance ==
  /\ Cardinality(Live) <= (IF standing > allowance THEN standing ELSE allowance) + Cardinality(managers) - 1
  /\ Cardinality(managers) = 1 /\ Founded /\ Trading = {} => \E b \in BranchIds : branch[b].status = "deleted" /\ branch[b].active
  /\ \A b \in Live : branch[b].locations # <<>>
===============================================================================

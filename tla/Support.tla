-------------------------------- MODULE Support ---------------------------------
(***************************************************************************)
(* modules/platform/support-session.service.ts with core/http/middleware.ts*)
(* and the module entitlements of api/routes.platform.ts: an operator of   *)
(* the platform working inside one shop for a while, and what of the shop  *)
(* is switched on.                                                         *)
(*                                                                         *)
(* A request is let in by its session's row, then by the module its route  *)
(* belongs to, and only then served; ending a session looks at the row and *)
(* writes it in two steps.  A tick of the clock is five minutes, in which  *)
(* a request is over.  What an instance remembers of the modules for a     *)
(* minute is in Caches; permissions do not tell requests of support apart. *)
(***************************************************************************)
EXTENDS Integers, FiniteSets

CONSTANTS
  Agents,         \* operators of the platform at work at once
  Durations,      \* how long a session may be asked for, in ticks
  MaxDuration,    \* the ceiling
  MaxSupport,     \* bound: sessions
  MaxFiveMinutes, \* bound: ticks
  ShopModules,    \* the catalog's modules, each with its sub-modules
  RequiredModules,
  NoSub           \* a route that belongs to no sub-module

\* catalog.ts: a required module is in the catalog, and no sub-module is no sub-module.
ASSUME SupportAssumption ==
  /\ MaxSupport \in Nat /\ MaxFiveMinutes \in Nat /\ Durations \subseteq Nat
  /\ RequiredModules \subseteq DOMAIN ShopModules
  /\ \A m \in DOMAIN ShopModules : NoSub \notin ShopModules[m]

VARIABLES
  hour,          \* the clock
  supportRow,    \* support_session
  firstEnd,      \* when each session was closed the first time
  entitled,      \* tenant_module
  helping,       \* what each operator is in the middle of
  served         \* requests that were served

supportVars == <<hour, supportRow, firstEnd, entitled, helping, served>>

Open_ == -1
SupportIds == 1..MaxSupport
Hours == 0..MaxFiveMinutes

SupportRows == [status : {"none", "open", "ended"}, canWrite : BOOLEAN, ends : Nat, ended : Hours \cup {Open_}]
NoSupport == [status |-> "none", canWrite |-> FALSE, ends |-> 0, ended |-> Open_]

EntitledRows(m) == [row : BOOLEAN, enabled : BOOLEAN, disabled : SUBSET ShopModules[m]]

Helpings == [pc : {"idle", "ending", "admitted"}, session : {0} \cup SupportIds, writes : BOOLEAN, came : Hours, late : BOOLEAN]
NotHelping == [pc |-> "idle", session |-> 0, writes |-> FALSE, came |-> 0, late |-> FALSE]

SupportTypeOK ==
  /\ hour \in Hours
  /\ supportRow \in [SupportIds -> SupportRows]
  /\ firstEnd \in [SupportIds -> Hours \cup {Open_}]
  /\ \A m \in DOMAIN ShopModules : entitled[m] \in EntitledRows(m)
  /\ helping \in [Agents -> Helpings]
  /\ \A s \in served : s.session \in SupportIds

\* A shop has a row for what its kind uses; what it has none for is on.
SupportInit ==
  /\ hour = 0
  /\ supportRow = [s \in SupportIds |-> NoSupport]
  /\ firstEnd = [s \in SupportIds |-> Open_]
  /\ entitled = [m \in DOMAIN ShopModules |-> [row |-> m \in RequiredModules, enabled |-> TRUE, disabled |-> {}]]
  /\ helping = [a \in Agents |-> NotHelping]
  /\ served = {}

FiveMinutes ==
  /\ hour < MaxFiveMinutes
  /\ \A a \in Agents : helping[a].pc # "admitted"
  /\ hour' = hour + 1
  /\ UNCHANGED <<supportRow, firstEnd, entitled, helping, served>>

-------------------------------------------------------------------------------
\* Write access is given to whoever asks for it here.
startSupportSession(a) ==
  \E s \in SupportIds, minutes \in Durations, canWrite \in BOOLEAN :
    /\ helping[a].pc = "idle"
    /\ minutes <= MaxDuration
    /\ supportRow[s].status = "none" /\ \A r \in 1..s - 1 : supportRow[r].status # "none"
    /\ supportRow' = [supportRow EXCEPT ![s] = [status |-> "open", canWrite |-> canWrite, ends |-> hour + minutes, ended |-> Open_]]
    /\ UNCHANGED <<hour, firstEnd, entitled, helping, served>>

\* Any operator may; that it is not closed yet is read first.
BeginEndSupport(a, s) ==
  /\ helping[a].pc = "idle"
  /\ supportRow[s].status = "open"
  /\ helping' = [helping EXCEPT ![a] = [NotHelping EXCEPT !.pc = "ending", !.session = s]]
  /\ UNCHANGED <<hour, supportRow, firstEnd, entitled, served>>

\* The second of two writes over the first.
endSupportSession(a) ==
  LET s == helping[a].session IN
  /\ helping[a].pc = "ending"
  /\ supportRow' = [supportRow EXCEPT ![s].status = "ended", ![s].ended = hour]
  /\ firstEnd' = [firstEnd EXCEPT ![s] = IF @ = Open_ THEN hour ELSE @]
  /\ helping' = [helping EXCEPT ![a] = NotHelping]
  /\ UNCHANGED <<hour, entitled, served>>

-------------------------------------------------------------------------------
\* Only the time the session runs out.
loadLiveSession_Claim(s) == supportRow[s].status # "none" /\ supportRow[s].ends > hour

\* The row decides: its token is still kept, it is not closed and has time left.
loadLiveSession(s) == supportRow[s].status = "open" /\ supportRow[s].ends > hour

\* A read-only session may only read.
assertCanWrite(s, writes) == writes => supportRow[s].canWrite

\* authenticateSupport.
BeginSupportRequest(a, s) ==
  \E writes \in BOOLEAN :
    /\ helping[a].pc = "idle"
    /\ loadLiveSession(s)
    /\ assertCanWrite(s, writes)
    /\ helping' = [helping EXCEPT ![a] = [pc |-> "admitted", session |-> s, writes |-> writes, came |-> hour,
                                              late |-> firstEnd[s] # Open_]]
    /\ UNCHANGED <<hour, supportRow, firstEnd, entitled, served>>

Gates == {[module |-> m, sub |-> u] : m \in DOMAIN ShopModules, u \in {NoSub} \cup UNION {ShopModules[m] : m \in DOMAIN ShopModules}}

\* moduleGateFor and gateRefusal: required modules have no gate, and a module without a
\* row is on.
refused(gate) ==
  LET state == entitled[gate.module] IN
  gate.module \notin RequiredModules /\ state.row /\ (~state.enabled \/ gate.sub \in state.disabled)

\* What the console's switches show of a module, and what the shop's dock shows of it.
moduleRows(m) == IF entitled[m].row THEN [on |-> entitled[m].enabled, off |-> entitled[m].disabled] ELSE [on |-> TRUE, off |-> {}]

catalogFor(m) ==
  IF entitled[m].row /\ ~entitled[m].enabled THEN {} ELSE {NoSub} \cup (ShopModules[m] \ entitled[m].disabled)

\* The module is looked at last, and then the request is served or not.
serveSupport(a) ==
  \E gate \in Gates :
    LET asked == helping[a] IN
    /\ asked.pc = "admitted"
    /\ gate.sub \in {NoSub} \cup ShopModules[gate.module]
    /\ served' = IF refused(gate) THEN served
                 ELSE served \cup {[session |-> asked.session, writes |-> asked.writes, came |-> asked.came,
                                     late |-> asked.late]}
    /\ helping' = [helping EXCEPT ![a] = NotHelping]
    /\ UNCHANGED <<hour, supportRow, firstEnd, entitled>>

\* The row as it was but for what is sent; a required module is never switched off.
putModule(a) ==
  \E m \in DOMAIN ShopModules : \E enabled \in BOOLEAN, disabled \in SUBSET ShopModules[m] :
    /\ helping[a].pc = "idle"
    /\ m \in RequiredModules => enabled /\ disabled = {}
    /\ entitled' = [entitled EXCEPT ![m] = [row |-> TRUE, enabled |-> enabled, disabled |-> disabled]]
    /\ UNCHANGED <<hour, supportRow, firstEnd, helping, served>>

SupportNext ==
  \/ FiveMinutes
  \/ \E a \in Agents :
       \/ startSupportSession(a)
       \/ \E s \in SupportIds : BeginEndSupport(a, s)
       \/ endSupportSession(a)
       \/ \E s \in SupportIds : BeginSupportRequest(a, s)
       \/ serveSupport(a)
       \/ putModule(a)

-------------------------------------------------------------------------------
\* "Ending a session, or letting it run past ends_at, locks the operator out on their next
\* call" (support-session.service.ts:81), also when two operators close it and the row's
\* ended_at is the later: no request is served that came after the time was over or after
\* the first closing, and none that writes in a read-only session.  What a shop has is
\* never a required module switched off, and the console, the dock and the gate agree on
\* the rest ("exactly how the tenant's dock and the API gate treat it",
\* platform/provisioning.service.ts:459).
SupportWindow ==
  /\ \A r \in served :
       /\ r.came < supportRow[r.session].ends /\ ~r.late
       /\ r.writes => supportRow[r.session].canWrite
  /\ \A s \in SupportIds : supportRow[s].status = "ended" => firstEnd[s] <= supportRow[s].ended
  /\ \A m \in RequiredModules : entitled[m].enabled /\ entitled[m].disabled = {}
  /\ \A m \in DOMAIN ShopModules : \A sub \in {NoSub} \cup ShopModules[m] :
       LET inDock == sub \in catalogFor(m) IN
       /\ inDock <=> ~refused([module |-> m, sub |-> sub])
       /\ inDock <=> moduleRows(m).on /\ sub \notin moduleRows(m).off
===============================================================================

------------------------------ MODULE OfficeProofs ------------------------------
(***************************************************************************)
(* What the parts of the shop's system keep to, for every instance.  First *)
(* support sessions, branches, staff and roles, sign-ins and prices: for   *)
(* each an inductive invariant, that it holds at the start and is kept by  *)
(* every step, and what follows from it (AccountsProofs has the other      *)
(* parts).                                                                 *)
(* Then the theorems: a step of the system is a step of one part and       *)
(* leaves every other part alone.                                          *)
(***************************************************************************)
EXTENDS Office, AccountsProofs

-------------------------------------------------------------------------------
\* Support sessions

\* A session begins open, with no closing, and is closed at most up to now.
SupportRowTold ==
  \A s \in SupportIds :
    /\ supportRow[s].status # "ended" => firstEnd[s] = Open_
    /\ supportRow[s].status = "ended" => firstEnd[s] \in Nat /\ firstEnd[s] <= supportRow[s].ended /\ supportRow[s].ended <= hour

\* What an operator is in the middle of is about a session that was started; one let in
\* came in time, before the first closing, and writes only where that is allowed.
HelpingTold ==
  \A a \in Agents : helping[a].pc # "idle" =>
    /\ helping[a].session \in SupportIds /\ supportRow[helping[a].session].status # "none"
    /\ helping[a].pc = "admitted" =>
         /\ helping[a].came < supportRow[helping[a].session].ends /\ ~helping[a].late
         /\ helping[a].writes => supportRow[helping[a].session].canWrite

ServedTold ==
  /\ served \subseteq [session : SupportIds, writes : BOOLEAN, came : Hours, late : BOOLEAN]
  /\ \A r \in served :
       /\ supportRow[r.session].status # "none"
       /\ r.came < supportRow[r.session].ends /\ ~r.late
       /\ r.writes => supportRow[r.session].canWrite

EntitledTold ==
  /\ entitled = [m \in DOMAIN ShopModules |-> entitled[m]]
  /\ \A m \in DOMAIN ShopModules :
       m \in RequiredModules \/ ~entitled[m].row => entitled[m].enabled /\ entitled[m].disabled = {}

SupportInv == SupportTypeOK /\ SupportRowTold /\ HelpingTold /\ ServedTold /\ EntitledTold

LEMMA SupportInitInv == SupportInit => SupportInv
<1> SUFFICES ASSUME SupportInit PROVE SupportInv
  OBVIOUS
<1> USE SupportAssumption DEF SupportInit, SupportTypeOK, NoSupport, NotHelping, SupportRows, Helpings, Hours, Open_
<1>1. SupportTypeOK
  BY DEF EntitledRows
<1>2. SupportRowTold
  BY DEF SupportRowTold
<1>3. HelpingTold /\ ServedTold
  BY DEF HelpingTold, ServedTold
<1>4. EntitledTold
  BY DEF EntitledTold
<1> QED
  BY <1>1, <1>2, <1>3, <1>4 DEF SupportInv

LEMMA SupportNextInv == SupportInv /\ [SupportNext]_supportVars => SupportInv'
<1> SUFFICES ASSUME SupportInv, [SupportNext]_supportVars PROVE SupportInv'
  OBVIOUS
<1> USE SupportAssumption DEF SupportInv, NotHelping, Hours, Open_
<1>0. /\ hour \in Nat /\ MaxFiveMinutes \in Nat /\ -1 \notin Nat
      /\ \A s \in SupportIds : supportRow[s].ends \in Nat /\ supportRow[s].canWrite \in BOOLEAN
  BY DEF SupportTypeOK, SupportRows
<1>1. CASE FiveMinutes
  <2> USE <1>1 DEF FiveMinutes
  <2>1. SupportTypeOK'
    BY DEF SupportTypeOK, EntitledRows
  <2>2. SupportRowTold'
    BY <1>0 DEF SupportTypeOK, SupportRows, SupportRowTold
  <2> QED
    BY <2>1, <2>2 DEF HelpingTold, ServedTold, EntitledTold
<1>2. ASSUME NEW a \in Agents, startSupportSession(a) PROVE SupportInv'
  <2>1. PICK s \in SupportIds, minutes \in Durations, canWrite \in BOOLEAN :
          /\ supportRow[s].status = "none"
          /\ supportRow' = [supportRow EXCEPT ![s] = [status |-> "open", canWrite |-> canWrite, ends |-> hour + minutes, ended |-> Open_]]
    BY <1>2 DEF startSupportSession
  <2>2. UNCHANGED <<hour, firstEnd, entitled, helping, served>>
    BY <1>2 DEF startSupportSession
  <2>3. SupportTypeOK'
    BY <1>0, <2>1, <2>2 DEF SupportTypeOK, SupportRows, EntitledRows
  <2>4. \A r \in SupportIds : r # s => supportRow'[r] = supportRow[r]
    BY <2>1 DEF SupportTypeOK
  <2>5. supportRow'[s].status = "open"
    BY <2>1 DEF SupportTypeOK
  <2>6. SupportRowTold'
    BY <2>1, <2>2, <2>4, <2>5 DEF SupportRowTold
  <2>7. HelpingTold' /\ ServedTold'
    BY <2>1, <2>2, <2>4 DEF HelpingTold, ServedTold, SupportTypeOK
  <2> QED
    BY <2>2, <2>3, <2>6, <2>7 DEF EntitledTold
<1>3. ASSUME NEW a \in Agents, NEW s \in SupportIds, BeginEndSupport(a, s) PROVE SupportInv'
  <2> USE <1>3 DEF BeginEndSupport
  <2>1. SupportTypeOK'
    <3>1. [pc |-> "ending", session |-> s, writes |-> FALSE, came |-> 0, late |-> FALSE] \in Helpings
      BY <1>0 DEF Helpings
    <3> QED
      BY <3>1 DEF SupportTypeOK, EntitledRows
  <2>2. HelpingTold'
    BY DEF HelpingTold, SupportTypeOK, Helpings
  <2> QED
    BY <2>1, <2>2 DEF SupportRowTold, ServedTold, EntitledTold
<1>4. ASSUME NEW a \in Agents, endSupportSession(a) PROVE SupportInv'
  <2> DEFINE s == helping[a].session
  <2>1. /\ supportRow' = [supportRow EXCEPT ![s].status = "ended", ![s].ended = hour]
        /\ firstEnd' = [firstEnd EXCEPT ![s] = IF @ = Open_ THEN hour ELSE @]
        /\ helping' = [helping EXCEPT ![a] = NotHelping]
        /\ UNCHANGED <<hour, entitled, served>>
    BY <1>4 DEF endSupportSession
  <2>2. s \in SupportIds /\ supportRow[s].status # "none"
    BY <1>4 DEF endSupportSession, HelpingTold
  <2> HIDE DEF s
  <2>3. SupportTypeOK'
    <3>1. [supportRow[s] EXCEPT !.status = "ended", !.ended = hour] \in SupportRows
      BY <2>2, ZenonT(30) DEF SupportTypeOK, SupportRows
    <3>2. supportRow' \in [SupportIds -> SupportRows]
      BY <2>1, <2>2, <3>1 DEF SupportTypeOK
    <3>3. firstEnd' \in [SupportIds -> Hours \cup {Open_}]
      BY <2>1, <2>2 DEF SupportTypeOK
    <3>4. helping' \in [Agents -> Helpings]
      BY <1>0, <2>1 DEF SupportTypeOK, Helpings
    <3> QED
      BY <2>1, <3>2, <3>3, <3>4 DEF SupportTypeOK, EntitledRows
  <2>4. \A r \in SupportIds : /\ supportRow'[r].ends = supportRow[r].ends /\ supportRow'[r].canWrite = supportRow[r].canWrite
                              /\ supportRow'[r].status = "none" => supportRow[r].status = "none"
                              /\ r # s => supportRow'[r] = supportRow[r] /\ firstEnd'[r] = firstEnd[r]
    BY <2>1, <2>2 DEF SupportTypeOK, SupportRows
  <2>5. supportRow'[s].status = "ended" /\ supportRow'[s].ended = hour /\ firstEnd'[s] = IF firstEnd[s] = Open_ THEN hour ELSE firstEnd[s]
    BY <2>1, <2>2 DEF SupportTypeOK, SupportRows
  <2>6. SupportRowTold'
    <3>1. firstEnd[s] # Open_ => firstEnd[s] \in Nat /\ firstEnd[s] <= hour
      BY <1>0, <2>2 DEF SupportRowTold, SupportTypeOK, SupportRows
    <3>2. ASSUME NEW r \in SupportIds
          PROVE  /\ supportRow'[r].status # "ended" => firstEnd'[r] = Open_
                 /\ supportRow'[r].status = "ended" =>
                      firstEnd'[r] \in Nat /\ firstEnd'[r] <= supportRow'[r].ended /\ supportRow'[r].ended <= hour
      <4>1. CASE r = s
        BY <1>0, <2>5, <3>1, <4>1
      <4>2. CASE r # s
        BY <2>4, <4>2 DEF SupportRowTold
      <4> QED
        BY <4>1, <4>2
    <3> QED
      BY <2>1, <3>2 DEF SupportRowTold
  <2>7. HelpingTold'
    <3> SUFFICES ASSUME NEW b \in Agents, helping'[b].pc # "idle"
                 PROVE  /\ helping'[b].session \in SupportIds /\ supportRow'[helping'[b].session].status # "none"
                        /\ helping'[b].pc = "admitted" =>
                             /\ helping'[b].came < supportRow'[helping'[b].session].ends /\ ~helping'[b].late
                             /\ helping'[b].writes => supportRow'[helping'[b].session].canWrite
      BY DEF HelpingTold
    <3>1. helping'[b] = helping[b]
      BY <2>1 DEF SupportTypeOK
    <3> QED
      BY <2>4, <3>1 DEF HelpingTold
  <2>8. ServedTold'
    BY <2>1, <2>4 DEF ServedTold, SupportTypeOK
  <2> QED
    BY <2>1, <2>3, <2>6, <2>7, <2>8 DEF EntitledTold
<1>5. ASSUME NEW a \in Agents, NEW s \in SupportIds, BeginSupportRequest(a, s) PROVE SupportInv'
  <2>1. PICK writes \in BOOLEAN :
          /\ supportRow[s].status = "open" /\ supportRow[s].ends > hour
          /\ writes => supportRow[s].canWrite
          /\ helping' = [helping EXCEPT ![a] = [pc |-> "admitted", session |-> s, writes |-> writes, came |-> hour,
                                                late |-> firstEnd[s] # Open_]]
          /\ UNCHANGED <<hour, supportRow, firstEnd, entitled, served>>
    BY <1>5 DEF BeginSupportRequest, loadLiveSession, assertCanWrite
  <2>2. SupportTypeOK'
    BY <2>1 DEF SupportTypeOK, Helpings, EntitledRows
  <2>3. firstEnd[s] = Open_
    BY <2>1 DEF SupportRowTold
  <2>4. HelpingTold'
    <3>1. \A b \in Agents : b # a => helping'[b] = helping[b]
      BY <2>1 DEF SupportTypeOK
    <3>2. helping'[a] = [pc |-> "admitted", session |-> s, writes |-> writes, came |-> hour, late |-> FALSE]
      BY <2>1, <2>3 DEF SupportTypeOK
    <3> QED
      BY <1>0, <2>1, <3>1, <3>2 DEF HelpingTold
  <2> QED
    BY <2>1, <2>2, <2>4 DEF SupportRowTold, ServedTold, EntitledTold
<1>6. ASSUME NEW a \in Agents, serveSupport(a) PROVE SupportInv'
  <2> DEFINE new == [session |-> helping[a].session, writes |-> helping[a].writes, came |-> helping[a].came, late |-> helping[a].late]
  <2>1. /\ helping[a].pc = "admitted"
        /\ served' \subseteq served \cup {new}
        /\ helping' = [helping EXCEPT ![a] = NotHelping]
        /\ UNCHANGED <<hour, supportRow, firstEnd, entitled>>
    BY <1>6 DEF serveSupport
  <2>2. /\ new \in [session : SupportIds, writes : BOOLEAN, came : Hours, late : BOOLEAN]
        /\ supportRow[new.session].status # "none" /\ new.came < supportRow[new.session].ends /\ ~new.late
        /\ new.writes => supportRow[new.session].canWrite
    BY <2>1 DEF HelpingTold, SupportTypeOK, Helpings
  <2> HIDE DEF new
  <2>3. ServedTold'
    BY <2>1, <2>2 DEF ServedTold
  <2>4. SupportTypeOK'
    BY <2>1, <2>3 DEF SupportTypeOK, Helpings, EntitledRows, ServedTold
  <2>5. HelpingTold'
    BY <2>1 DEF HelpingTold, SupportTypeOK
  <2> QED
    BY <2>1, <2>3, <2>4, <2>5 DEF SupportRowTold, EntitledTold
<1>7. ASSUME NEW a \in Agents, putModule(a) PROVE SupportInv'
  <2>1. PICK m \in DOMAIN ShopModules : \E enabled \in BOOLEAN, disabled \in SUBSET ShopModules[m] :
          /\ m \in RequiredModules => enabled /\ disabled = {}
          /\ entitled' = [entitled EXCEPT ![m] = [row |-> TRUE, enabled |-> enabled, disabled |-> disabled]]
    BY <1>7 DEF putModule
  <2>2. UNCHANGED <<hour, supportRow, firstEnd, helping, served>>
    BY <1>7 DEF putModule
  <2>3. PICK enabled \in BOOLEAN, disabled \in SUBSET ShopModules[m] :
          /\ m \in RequiredModules => enabled /\ disabled = {}
          /\ entitled' = [entitled EXCEPT ![m] = [row |-> TRUE, enabled |-> enabled, disabled |-> disabled]]
    BY <2>1
  <2>4. DOMAIN entitled = DOMAIN ShopModules
    BY DEF EntitledTold
  <2>5. /\ entitled' = [n \in DOMAIN ShopModules |-> entitled'[n]]
        /\ entitled'[m] = [row |-> TRUE, enabled |-> enabled, disabled |-> disabled]
        /\ \A n \in DOMAIN ShopModules : n # m => entitled'[n] = entitled[n]
    BY <2>3, <2>4
  <2>6. EntitledTold'
    BY <2>3, <2>5 DEF EntitledTold
  <2>7. \A n \in DOMAIN ShopModules : entitled'[n] \in EntitledRows(n)
    BY <2>3, <2>5 DEF SupportTypeOK, EntitledRows
  <2>8. SupportTypeOK'
    BY <2>2, <2>7 DEF SupportTypeOK
  <2> QED
    BY <2>2, <2>6, <2>8 DEF SupportRowTold, HelpingTold, ServedTold
<1>8. CASE UNCHANGED supportVars
  BY <1>8 DEF supportVars, SupportTypeOK, EntitledRows, SupportRowTold, HelpingTold, ServedTold, EntitledTold
<1> QED
  BY <1>1, <1>2, <1>3, <1>4, <1>5, <1>6, <1>7, <1>8 DEF SupportNext

LEMMA SupportInvWindow == SupportInv => SupportWindow
<1> SUFFICES ASSUME SupportInv PROVE SupportWindow
  OBVIOUS
<1>1. ASSUME NEW m \in DOMAIN ShopModules, NEW sub \in {NoSub} \cup ShopModules[m]
      PROVE  LET inDock == sub \in catalogFor(m) IN
             /\ inDock <=> ~refused([module |-> m, sub |-> sub])
             /\ inDock <=> moduleRows(m).on /\ sub \notin moduleRows(m).off
  <2> DEFINE state == entitled[m]
  <2>1. /\ state.row \in BOOLEAN /\ state.enabled \in BOOLEAN /\ state.disabled \subseteq ShopModules[m]
        /\ m \in RequiredModules \/ ~state.row => state.enabled /\ state.disabled = {}
    BY DEF SupportInv, SupportTypeOK, EntitledRows, EntitledTold
  <2>2. NoSub \notin ShopModules[m]
    BY SupportAssumption
  <2>3. sub \in catalogFor(m) <=> (state.row => state.enabled) /\ sub \notin state.disabled
    BY <2>1, <2>2 DEF catalogFor
  <2>4. refused([module |-> m, sub |-> sub]) <=>
          m \notin RequiredModules /\ state.row /\ (~state.enabled \/ sub \in state.disabled)
    BY DEF refused
  <2>5. moduleRows(m).on /\ sub \notin moduleRows(m).off <=> IF state.row THEN state.enabled /\ sub \notin state.disabled ELSE TRUE
    BY DEF moduleRows
  <2> QED
    BY <2>1, <2>3, <2>4, <2>5
<1> QED
  BY <1>1, SupportAssumption DEF SupportInv, SupportTypeOK, SupportRows, SupportRowTold, ServedTold, EntitledTold, SupportWindow

-------------------------------------------------------------------------------
\* Branches

\* What a request sends is what its handler checked.
AddTold(a) ==
  /\ a.pc \in {"found", "insert"} => a.sent \in BranchRows /\ a.sent.status = "live" /\ a.sent.active /\ a.sent.locations # <<>>
  /\ a.pc = "update" => a.row \in BranchIds /\ a.sent \in [code : BranchCodes] \cup [active : BOOLEAN]

SwitchesOff(a) == a.pc = "update" /\ "active" \in DOMAIN a.sent /\ ~a.sent.active

Inserting == {m \in managers : adding[m].pc = "insert"}

\* Every insert on its way was let through beside the branches there are.
RoomLeft ==
  Cardinality(Live) + Cardinality(Inserting)
    <= (IF standing > allowance THEN standing ELSE allowance) + Cardinality(managers) - 1

\* Nothing but deletion takes the last active branch from a manager alone.
LastActive ==
  Cardinality(managers) = 1 =>
    /\ Founded /\ Trading = {} => \E b \in BranchIds : branch[b].status = "deleted" /\ branch[b].active
    /\ \A m \in Managers : SwitchesOff(adding[m]) => Trading # {adding[m].row}

BranchesInv ==
  /\ BranchesTypeOK /\ managers \subseteq Managers /\ managers # {}
  /\ \A m \in Managers : AddTold(adding[m]) /\ (adding[m].pc # "idle" => m \in managers)
                         /\ (adding[m].pc \in {"insert", "update"} => Founded)
  /\ ~Founded => \A b \in BranchIds : branch[b].status = "none"
  /\ \A b \in BranchIds : branch[b].status = "live" => branch[b].locations # <<>>
  /\ RoomLeft /\ LastActive

LEMMA BranchesFinite ==
  /\ 1 \in BranchIds
  /\ \A S : S \subseteq BranchIds => IsFiniteSet(S) /\ Cardinality(S) \in Nat
  /\ \A S : S \subseteq Managers => IsFiniteSet(S) /\ Cardinality(S) \in Nat
<1>1. 1 \in Int /\ MaxBranches \in Int /\ 1 \in BranchIds
  BY BranchesAssumption DEF BranchIds
<1>2. IsFiniteSet(BranchIds)
  BY <1>1, FS_Interval, Zenon DEF BranchIds
<1>3. ASSUME NEW T, IsFiniteSet(T), NEW S, S \subseteq T PROVE IsFiniteSet(S) /\ Cardinality(S) \in Nat
  <2>1. S \in SUBSET T
    BY <1>3
  <2>2. IsFiniteSet(S)
    BY <1>3, <2>1, FS_Subset, Zenon
  <2> QED
    BY <2>2, FS_CardinalityType, Zenon
<1> QED
  BY <1>1, <1>2, <1>3, BranchesAssumption

LEMMA PlacesOf == \A k : locationsOf(k) \in {locationsOf(c) : c \in {"factory", "showroom", "office"}} /\ locationsOf(k) # <<>>
<1> SUFFICES ASSUME NEW k PROVE locationsOf(k) \in {locationsOf(c) : c \in {"factory", "showroom", "office"}}
                                /\ locationsOf(k) # <<>>
  OBVIOUS
<1>1. CASE k = "factory"
  BY <1>1 DEF locationsOf
<1>2. CASE k = "showroom"
  BY <1>2 DEF locationsOf
<1>3. CASE k # "factory" /\ k # "showroom"
  BY <1>3 DEF locationsOf
<1> QED
  BY <1>1, <1>2, <1>3

LEMMA BranchesInitInv == BranchesInit => BranchesInv
<1> SUFFICES ASSUME BranchesInit PROVE BranchesInv
  OBVIOUS
<1>1. NoBranch \in BranchRows /\ NoBranch.status = "none"
  BY BranchesAssumption DEF NoBranch, BranchRows
<1>2. NotAdding \in Addings /\ NotAdding.pc = "idle"
  BY <1>1 DEF NotAdding, Addings
<1>3. BranchesTypeOK
  BY <1>1, <1>2, BranchesAssumption DEF BranchesInit, BranchesTypeOK, NoLimit
<1>4. Live = {} /\ Inserting = {} /\ ~Founded
  BY <1>1, <1>2, BranchesFinite DEF BranchesInit, Live, Inserting, Founded
<1>5. RoomLeft
  <2>1. Cardinality(Live) = 0 /\ Cardinality(Inserting) = 0
    BY <1>4, FS_EmptySet
  <2>2. Cardinality(managers) \in Nat
    BY BranchesFinite DEF BranchesInit
  <2> QED
    BY <2>1, <2>2 DEF BranchesInit, RoomLeft, NoLimit
<1>6. LastActive
  BY <1>2, <1>4 DEF BranchesInit, LastActive, SwitchesOff
<1> QED
  BY <1>1, <1>2, <1>3, <1>4, <1>5, <1>6 DEF BranchesInit, BranchesInv, AddTold

\* What may be taken from the invariant about who is at work.
LEMMA BranchesInvFacts ==
  ASSUME BranchesInv
  PROVE  /\ branch \in [BranchIds -> BranchRows] /\ adding \in [Managers -> Addings]
         /\ allowance \in Nat /\ standing \in Nat
         /\ managers \subseteq Managers
         /\ Cardinality(managers) \in Nat /\ Cardinality(managers) >= 1
         /\ Cardinality(Live) \in Nat /\ Cardinality(Inserting) \in Nat
         /\ Cardinality(Inserting) <= Cardinality(managers)
         /\ \A m \in managers : m \notin Inserting => Cardinality(Inserting) <= Cardinality(managers) - 1
<1>1. branch \in [BranchIds -> BranchRows] /\ adding \in [Managers -> Addings] /\ allowance \in Nat /\ standing \in Nat
      /\ managers \subseteq Managers /\ managers # {}
  BY DEF BranchesInv, BranchesTypeOK
<1>2. Live \subseteq BranchIds /\ Inserting \subseteq Managers /\ Inserting \in SUBSET managers
  BY <1>1 DEF Live, Inserting
<1>3. IsFiniteSet(managers) /\ Cardinality(managers) \in Nat /\ Cardinality(Live) \in Nat /\ Cardinality(Inserting) \in Nat
  BY <1>1, <1>2, BranchesFinite
<1>4. Cardinality(managers) # 0
  BY <1>1, <1>3, FS_EmptySet
<1>5. Cardinality(Inserting) <= Cardinality(managers)
  BY <1>2, <1>3, FS_Subset
<1>6. ASSUME NEW m \in managers, m \notin Inserting PROVE Cardinality(Inserting) <= Cardinality(managers) - 1
  <2>1. IsFiniteSet(managers \ {m}) /\ Cardinality(managers \ {m}) = Cardinality(managers) - 1
    BY <1>3, FS_RemoveElement
  <2>2. Inserting \in SUBSET (managers \ {m})
    BY <1>2, <1>6
  <2> QED
    BY <2>1, <2>2, FS_Subset
<1> QED
  BY <1>1, <1>3, <1>4, <1>5, <1>6

\* What a manager begins: the branches stay as they are.
LEMMA BeginsBranch ==
  ASSUME BranchesInv, NEW m \in managers, NEW a \in Addings, AddTold(a), adding[m].pc = "idle",
         a.pc = "insert" => Cardinality(Live) < allowance,
         a.pc \in {"insert", "update"} => Founded,
         SwitchesOff(a) => Trading # {a.row},
         adding' = [adding EXCEPT ![m] = a], UNCHANGED <<managers, branch, allowance, standing>>
  PROVE  BranchesInv'
<1>1. /\ branch \in [BranchIds -> BranchRows] /\ adding \in [Managers -> Addings] /\ managers \subseteq Managers
      /\ allowance \in Nat /\ standing \in Nat /\ Cardinality(managers) \in Nat
      /\ Cardinality(Live) \in Nat /\ Cardinality(Inserting) \in Nat
  BY BranchesInvFacts
<1>2. BranchesTypeOK'
  BY <1>1 DEF BranchesTypeOK
<1>3. \A w \in Managers : w # m => adding'[w] = adding[w]
  BY <1>1
<1>4. adding'[m] = a /\ m \in Managers
  BY <1>1
<1>5. Live' = Live /\ Trading' = Trading /\ (Founded' <=> Founded)
  BY DEF Live, Trading, Founded
<1>6. \A w \in Managers : AddTold(adding'[w]) /\ (adding'[w].pc # "idle" => w \in managers)
                         /\ (adding'[w].pc \in {"insert", "update"} => Founded)
  BY <1>3, <1>4 DEF BranchesInv
<1>7. RoomLeft'
  <2>1. CASE a.pc = "insert"
    <3>1. Inserting' \in SUBSET managers
      BY DEF Inserting
    <3>2. IsFiniteSet(managers)
      BY <1>1, BranchesFinite
    <3>3. Cardinality(Inserting') <= Cardinality(managers) /\ IsFiniteSet(Inserting')
      BY <3>1, <3>2, FS_Subset
    <3>4. Cardinality(Inserting') \in Nat
      BY <3>3, FS_CardinalityType
    <3> QED
      BY <1>1, <1>5, <2>1, <3>3, <3>4 DEF RoomLeft
  <2>2. CASE a.pc # "insert"
    <3>1. Inserting' = Inserting
      BY <1>1, <1>3, <1>4, <2>2 DEF Inserting
    <3> QED
      BY <1>5, <3>1 DEF BranchesInv, RoomLeft
  <2> QED
    BY <2>1, <2>2
<1>8. LastActive'
  BY <1>3, <1>4, <1>5 DEF BranchesInv, LastActive
<1> QED
  BY <1>1, <1>2, <1>5, <1>6, <1>7, <1>8 DEF BranchesInv, Founded

\* What ends a request, or needs none: the branches change to rows that are as they must
\* be, and at most one more is live than the inserts on their way allow for.
LEMMA EndsBranch ==
  ASSUME BranchesInv, branch' \in [BranchIds -> BranchRows], managers' = managers,
         allowance' \in Nat, standing' \in Nat, adding' \in [Managers -> Addings],
         \A w \in Managers : adding'[w] = adding[w] \/ adding'[w].pc = "idle",
         \A w \in Managers : adding'[w].pc \in {"insert", "update"} => Founded',
         ~Founded' => \A b \in BranchIds : branch'[b].status = "none",
         \A b \in BranchIds : branch'[b].status = "live" => branch'[b].locations # <<>>,
         RoomLeft', LastActive'
  PROVE  BranchesInv'
<1>1. BranchesTypeOK'
  BY DEF BranchesTypeOK
<1>2. \A w \in Managers : AddTold(adding'[w]) /\ (adding'[w].pc # "idle" => w \in managers)
  BY DEF BranchesInv, AddTold
<1> QED
  BY <1>1, <1>2 DEF BranchesInv

\* Alone at work: whoever has begun something is that manager.
LEMMA OnlyManager ==
  ASSUME BranchesInv, Cardinality(managers) = 1, NEW m \in managers
  PROVE  managers = {m} /\ \A w \in Managers : w # m => adding[w].pc = "idle"
<1>1. IsFiniteSet(managers)
  BY BranchesFinite DEF BranchesInv
<1>2. PICK x : managers = {x}
  BY <1>1, FS_Singleton
<1> QED
  BY <1>2 DEF BranchesInv

LEMMA SentBranch ==
  ASSUME NEW p, NEW r
  PROVE  [NotAdding EXCEPT !.pc = p, !.sent = r] = [pc |-> p, row |-> 0, sent |-> r]
<1> DEFINE asks == [NotAdding EXCEPT !.pc = p]
<1>1. asks = [pc |-> p, row |-> 0, sent |-> NoBranch]
  BY DEF NotAdding
<1> HIDE DEF asks
<1>2. [asks EXCEPT !.sent = r] = [pc |-> p, row |-> 0, sent |-> r]
  BY <1>1
<1> QED
  BY <1>2 DEF asks

LEMMA BeginCreateTenantInv == ASSUME BranchesInv, NEW m \in Managers, BeginCreateTenant(m) PROVE BranchesInv'
<1>1. PICK shopKind \in ShopKinds : \E k \in {shopKind} \cup BranchKinds :
        /\ m \in managers /\ adding[m].pc = "idle"
        /\ ~Founded
        /\ adding' = [adding EXCEPT ![m] = [NotAdding EXCEPT !.pc = "found", !.sent = createFirstBranch(shopKind, k)]]
        /\ UNCHANGED <<managers, branch, allowance, standing>>
  BY DEF BeginCreateTenant
<1>2. PICK k \in {shopKind} \cup BranchKinds :
        /\ m \in managers /\ adding[m].pc = "idle"
        /\ adding' = [adding EXCEPT ![m] = [NotAdding EXCEPT !.pc = "found", !.sent = createFirstBranch(shopKind, k)]]
        /\ UNCHANGED <<managers, branch, allowance, standing>>
  BY <1>1
<1> DEFINE row == createFirstBranch(shopKind, k)
           a == [NotAdding EXCEPT !.pc = "found", !.sent = row]
<1>3. row = [status |-> "live", code |-> FirstCode, kind |-> k, active |-> TRUE, locations |-> locationsOf(shopKind)]
  BY DEF createFirstBranch
<1>4. row \in BranchRows
  BY <1>3, PlacesOf, BranchesAssumption DEF BranchRows
<1>5. row.status = "live" /\ row.active /\ row.locations # <<>>
  BY <1>3, PlacesOf
<1> HIDE DEF row
<1>6. a = [pc |-> "found", row |-> 0, sent |-> row]
  BY SentBranch DEF a
<1>7. a \in Addings /\ AddTold(a) /\ a.pc = "found" /\ ~SwitchesOff(a)
  BY <1>4, <1>5, <1>6 DEF Addings, AddTold, SwitchesOff
<1>8. adding' = [adding EXCEPT ![m] = a]
  BY <1>2 DEF row
<1> HIDE DEF a
<1> QED
  BY <1>2, <1>7, <1>8, BeginsBranch

LEMMA BeginCreateBranchInv == ASSUME BranchesInv, NEW m \in Managers, BeginCreateBranch(m) PROVE BranchesInv'
<1>1. PICK code \in BranchCodes, k \in BranchKinds :
        /\ Idle(m)
        /\ assertBranchAllowance
        /\ adding' = [adding EXCEPT ![m] = [NotAdding EXCEPT !.pc = "insert",
             !.sent = [status |-> "live", code |-> code, kind |-> k, active |-> TRUE, locations |-> locationsOf(k)]]]
        /\ UNCHANGED <<managers, branch, allowance, standing>>
  BY DEF BeginCreateBranch
<1> DEFINE row == [status |-> "live", code |-> code, kind |-> k, active |-> TRUE, locations |-> locationsOf(k)]
           a == [NotAdding EXCEPT !.pc = "insert", !.sent = row]
<1>4. row \in BranchRows
  BY PlacesOf DEF BranchRows
<1>5. row.status = "live" /\ row.active /\ row.locations # <<>>
  BY PlacesOf
<1>8. adding' = [adding EXCEPT ![m] = a]
  BY <1>1
<1> HIDE DEF row
<1>6. a = [pc |-> "insert", row |-> 0, sent |-> row]
  BY SentBranch DEF a
<1>7. a \in Addings /\ AddTold(a) /\ a.pc = "insert" /\ ~SwitchesOff(a)
  BY <1>4, <1>5, <1>6 DEF Addings, AddTold, SwitchesOff
<1>9. m \in managers /\ adding[m].pc = "idle" /\ Founded /\ Cardinality(Live) < allowance
  BY <1>1 DEF Idle, assertBranchAllowance
<1> HIDE DEF a
<1> QED
  BY <1>1, <1>7, <1>8, <1>9, BeginsBranch

LEMMA BeginUpdateBranchInv ==
  ASSUME BranchesInv, NEW m \in Managers, NEW b \in BranchIds, BeginUpdateBranch(m, b)
  PROVE  BranchesInv'
<1>1. PICK sent \in [code : BranchCodes \ {branch[b].code}] \cup [active : {~branch[b].active}] :
        /\ Idle(m)
        /\ "active" \in DOMAIN sent /\ branch[b].active => Trading # {b}
        /\ adding' = [adding EXCEPT ![m] = [pc |-> "update", row |-> b, sent |-> sent]]
        /\ UNCHANGED <<managers, branch, allowance, standing>>
  BY DEF BeginUpdateBranch
<1> DEFINE a == [pc |-> "update", row |-> b, sent |-> sent]
<1>2. branch[b].active \in BOOLEAN
  BY DEF BranchesInv, BranchesTypeOK, BranchRows
<1>3. sent \in [code : BranchCodes] \cup [active : BOOLEAN]
  BY <1>1, <1>2
<1>4. a \in Addings /\ AddTold(a) /\ a.pc = "update"
  BY <1>3 DEF Addings, AddTold
<1>5. SwitchesOff(a) => Trading # {a.row}
  <2>1. CASE sent \in [code : BranchCodes]
    BY <2>1 DEF SwitchesOff
  <2>2. CASE sent \in [active : {~branch[b].active}]
    BY <1>1, <1>2, <2>2 DEF SwitchesOff
  <2> QED
    BY <1>1, <2>1, <2>2
<1>6. m \in managers /\ adding[m].pc = "idle" /\ Founded
  BY <1>1 DEF Idle
<1> HIDE DEF a
<1>7. adding' = [adding EXCEPT ![m] = a]
  BY <1>1 DEF a
<1> QED
  BY <1>1, <1>4, <1>5, <1>6, <1>7, BeginsBranch

LEMMA updateAllowanceInv == ASSUME BranchesInv, NEW m \in Managers, updateAllowance(m) PROVE BranchesInv'
<1>1. PICK limit \in Limits : Idle(m) /\ allowance' = limit /\ standing' = Cardinality(Live)
                             /\ UNCHANGED <<managers, branch, adding>>
  BY DEF updateAllowance
<1>2. m \in managers /\ m \notin Inserting /\ Founded
  BY <1>1 DEF Idle, Inserting
<1>3. Live' = Live /\ Inserting' = Inserting /\ Trading' = Trading /\ (Founded' <=> Founded)
  BY <1>1 DEF Live, Inserting, Trading, Founded
<1>4. allowance' \in Nat /\ standing' \in Nat
  BY <1>1, BranchesAssumption, BranchesInvFacts
<1>5. RoomLeft'
  <2>1. Cardinality(Inserting) <= Cardinality(managers) - 1
    BY <1>2, BranchesInvFacts
  <2> DEFINE n == Cardinality(Live)
             k == Cardinality(Inserting)
             c == Cardinality(managers)
             l == allowance'
  <2>2. n \in Nat /\ k \in Nat /\ c \in Nat /\ l \in Nat /\ k <= c - 1
    BY <1>4, <2>1, BranchesInvFacts
  <2>3. n + k <= (IF n > l THEN n ELSE l) + c - 1
    <3> HIDE DEF n, k, c, l
    <3> QED
      BY <2>2
  <2> QED
    BY <1>1, <1>3, <2>3 DEF RoomLeft
<1>6. LastActive'
  BY <1>1, <1>3 DEF BranchesInv, LastActive
<1> QED
  BY <1>1, <1>2, <1>3, <1>4, <1>5, <1>6, EndsBranch, BranchesInvFacts DEF BranchesInv

\* A request that changes no branch.
LEMMA EndsUnchanged ==
  ASSUME BranchesInv, NEW m \in Managers, adding' = [adding EXCEPT ![m] = NotAdding],
         UNCHANGED <<managers, branch, allowance, standing>>
  PROVE  BranchesInv'
<1>0. /\ adding \in [Managers -> Addings] /\ managers \subseteq Managers
      /\ Cardinality(Live) \in Nat /\ Cardinality(Inserting) \in Nat
  BY BranchesInvFacts
<1>1. NotAdding \in Addings /\ NotAdding.pc = "idle"
  BY BranchesAssumption DEF NotAdding, Addings, NoBranch, BranchRows
<1>2. adding' \in [Managers -> Addings] /\ \A w \in Managers : adding'[w] = adding[w] \/ adding'[w].pc = "idle"
  BY <1>0, <1>1
<1>3. Live' = Live /\ Trading' = Trading /\ (Founded' <=> Founded)
  BY DEF Live, Trading, Founded
<1>4. Inserting' \in SUBSET Inserting /\ IsFiniteSet(Inserting)
  BY <1>0, <1>2, BranchesFinite DEF Inserting
<1>5. Cardinality(Inserting') <= Cardinality(Inserting) /\ Cardinality(Inserting') \in Nat
  BY <1>4, FS_Subset, FS_CardinalityType
<1>6. RoomLeft'
  BY <1>0, <1>3, <1>5, BranchesInvFacts DEF BranchesInv, RoomLeft
<1>7. LastActive'
  BY <1>2, <1>3 DEF BranchesInv, LastActive, SwitchesOff
<1>8. \A w \in Managers : adding'[w].pc \in {"insert", "update"} => Founded'
  BY <1>2, <1>3 DEF BranchesInv
<1> QED
  BY <1>2, <1>3, <1>6, <1>7, <1>8, EndsBranch, BranchesInvFacts DEF BranchesInv

\* One request ends, and one row changes.
LEMMA OneBranch ==
  ASSUME BranchesInv, NEW m \in Managers, adding' = [adding EXCEPT ![m] = NotAdding],
         NEW b \in BranchIds, NEW row \in BranchRows, branch' = [branch EXCEPT ![b] = row],
         row.status # "none", row.status = "live" => row.locations # <<>>
  PROVE  /\ branch' \in [BranchIds -> BranchRows] /\ branch'[b] = row /\ \A c \in BranchIds : c # b => branch'[c] = branch[c]
         /\ adding' \in [Managers -> Addings] /\ \A w \in Managers : adding'[w] = adding[w] \/ adding'[w].pc = "idle"
         /\ adding'[m].pc = "idle" /\ \A w \in Managers : w # m => adding'[w] = adding[w]
         /\ \A c \in BranchIds : branch'[c].status = "live" => branch'[c].locations # <<>>
         /\ Founded => Founded'
<1>1. branch \in [BranchIds -> BranchRows] /\ adding \in [Managers -> Addings]
  BY BranchesInvFacts
<1>2. NotAdding \in Addings /\ NotAdding.pc = "idle"
  BY BranchesAssumption DEF NotAdding, Addings, NoBranch, BranchRows
<1>3. branch' \in [BranchIds -> BranchRows] /\ branch'[b] = row /\ \A c \in BranchIds : c # b => branch'[c] = branch[c]
  BY <1>1
<1>4. adding' \in [Managers -> Addings] /\ adding'[m].pc = "idle" /\ \A w \in Managers : w # m => adding'[w] = adding[w]
  BY <1>1, <1>2
<1>5. \A c \in BranchIds : branch'[c].status = "live" => branch'[c].locations # <<>>
  BY <1>3 DEF BranchesInv
<1>6. Founded => Founded'
  BY <1>3, BranchesFinite DEF Founded
<1> QED
  BY <1>3, <1>4, <1>5, <1>6

LEMMA createTenantInv == ASSUME BranchesInv, NEW m \in Managers, createTenant(m) PROVE BranchesInv'
<1>1. adding[m].pc = "found" /\ adding' = [adding EXCEPT ![m] = NotAdding] /\ managers' = managers
  BY DEF createTenant
<1>2. CASE Founded /\ UNCHANGED <<branch, allowance, standing>>
  BY <1>1, <1>2, EndsUnchanged
<1>3. CASE /\ ~Founded
           /\ branch' = [branch EXCEPT ![1] = adding[m].sent]
           /\ allowance' \in Limits \cup {NoLimit}
           /\ standing' = 1
  <2> DEFINE row == adding[m].sent
  <2>1. row \in BranchRows /\ row.status = "live" /\ row.active /\ row.locations # <<>>
    BY <1>1 DEF BranchesInv, AddTold
  <2> HIDE DEF row
  <2>2. branch' = [branch EXCEPT ![1] = row] /\ 1 \in BranchIds
    BY <1>3, BranchesFinite DEF row
  <2>3. /\ branch' \in [BranchIds -> BranchRows] /\ branch'[1] = row /\ \A c \in BranchIds : c # 1 => branch'[c] = branch[c]
        /\ adding' \in [Managers -> Addings] /\ \A w \in Managers : adding'[w] = adding[w] \/ adding'[w].pc = "idle"
        /\ \A c \in BranchIds : branch'[c].status = "live" => branch'[c].locations # <<>>
    BY <1>1, <2>1, <2>2, OneBranch
  <2>4. Founded' /\ 1 \in Trading' /\ Live' = {1}
    BY <1>3, <2>1, <2>2, <2>3 DEF BranchesInv, Founded, Trading, Live
  <2>5. Inserting' = {}
    BY <1>1, <1>3, <2>3 DEF BranchesInv, Inserting
  <2>6. allowance' \in Nat /\ standing' = 1
    BY <1>3, BranchesAssumption DEF NoLimit
  <2>7. RoomLeft'
    <3>1. Cardinality(Live') = 1 /\ Cardinality(Inserting') = 0
      BY <2>4, <2>5, FS_EmptySet, FS_Singleton
    <3>2. Cardinality(managers) \in Nat /\ Cardinality(managers) >= 1
      BY BranchesInvFacts
    <3> QED
      BY <1>1, <2>6, <3>1, <3>2 DEF RoomLeft
  <2>8. LastActive'
    <3>1. \A w \in Managers : ~SwitchesOff(adding'[w])
      BY <1>3, <2>3 DEF BranchesInv, SwitchesOff
    <3> QED
      BY <2>4, <3>1 DEF LastActive
  <2> QED
    BY <1>1, <2>3, <2>4, <2>6, <2>7, <2>8, EndsBranch
<1> QED
  BY <1>2, <1>3 DEF createTenant

LEMMA createBranchInv == ASSUME BranchesInv, NEW m \in Managers, createBranch(m) PROVE BranchesInv'
<1>1. adding[m].pc = "insert" /\ adding' = [adding EXCEPT ![m] = NotAdding] /\ UNCHANGED <<managers, allowance, standing>>
  BY DEF createBranch
<1>2. CASE UNCHANGED branch
  BY <1>1, <1>2, EndsUnchanged
<1>3. CASE \E b \in NextBranch : branch' = [branch EXCEPT ![b] = adding[m].sent]
  <2> DEFINE row == adding[m].sent
  <2>0. PICK b \in NextBranch : branch' = [branch EXCEPT ![b] = row]
    BY <1>3
  <2>1. row \in BranchRows /\ row.status = "live" /\ row.active /\ row.locations # <<>> /\ Founded /\ m \in managers
    BY <1>1 DEF BranchesInv, AddTold
  <2> HIDE DEF row
  <2>2. b \in BranchIds /\ branch[b].status = "none"
    BY DEF NextBranch
  <2>3. /\ branch' \in [BranchIds -> BranchRows] /\ branch'[b] = row /\ \A c \in BranchIds : c # b => branch'[c] = branch[c]
        /\ adding' \in [Managers -> Addings] /\ \A w \in Managers : adding'[w] = adding[w] \/ adding'[w].pc = "idle"
        /\ adding'[m].pc = "idle" /\ \A w \in Managers : w # m => adding'[w] = adding[w]
        /\ \A c \in BranchIds : branch'[c].status = "live" => branch'[c].locations # <<>>
        /\ Founded'
    BY <1>1, <2>0, <2>1, <2>2, OneBranch
  <2>4. Live' = Live \cup {b} /\ b \notin Live /\ b \in Trading'
    BY <2>1, <2>2, <2>3 DEF Live, Trading
  <2>5. Inserting' = Inserting \ {m} /\ m \in Inserting
    BY <1>1, <2>1, <2>3 DEF Inserting, BranchesInv
  <2>6. RoomLeft'
    <3>1. IsFiniteSet(Live) /\ IsFiniteSet(Inserting)
      BY BranchesFinite DEF Live, Inserting, BranchesInv
    <3>2. Cardinality(Live') = Cardinality(Live) + 1
      BY <2>4, <3>1, FS_AddElement
    <3>3. Cardinality(Inserting') = Cardinality(Inserting) - 1
      BY <2>5, <3>1, FS_RemoveElement
    <3>4. Cardinality(Live) \in Nat /\ Cardinality(Inserting) \in Nat
      BY BranchesInvFacts
    <3> QED
      BY <1>1, <3>2, <3>3, <3>4 DEF BranchesInv, RoomLeft
  <2>7. LastActive'
    <3> SUFFICES ASSUME Cardinality(managers) = 1
                 PROVE  \A w \in Managers : ~SwitchesOff(adding'[w])
      BY <1>1, <2>4 DEF LastActive
    <3>1. \A w \in Managers : w # m => adding[w].pc = "idle"
      BY <2>1, OnlyManager
    <3> QED
      BY <2>3, <3>1 DEF SwitchesOff
  <2>8. allowance' \in Nat /\ standing' \in Nat
    BY <1>1, BranchesInvFacts
  <2> QED
    BY <1>1, <2>3, <2>6, <2>7, <2>8, EndsBranch
<1> QED
  BY <1>2, <1>3 DEF createBranch

\* A row that is written over or deleted: no branch comes, and there are the same requests
\* or one fewer.
LEMMA RowChanges ==
  ASSUME BranchesInv, UNCHANGED <<managers, allowance, standing>>, Founded,
         NEW b \in BranchIds, NEW row \in BranchRows, branch' = [branch EXCEPT ![b] = row],
         branch[b].status = "live", row.status \in {"live", "deleted"}, row.locations = branch[b].locations,
         adding' \in [Managers -> Addings], \A w \in Managers : adding'[w] = adding[w] \/ adding'[w].pc = "idle",
         LastActive'
  PROVE  BranchesInv'
<1>1. branch \in [BranchIds -> BranchRows] /\ Cardinality(Live) \in Nat /\ Cardinality(Inserting) \in Nat
  BY BranchesInvFacts
<1>2. branch' \in [BranchIds -> BranchRows] /\ branch'[b] = row /\ \A c \in BranchIds : c # b => branch'[c] = branch[c]
  BY <1>1
<1>3. Live' \in SUBSET Live /\ Inserting' \in SUBSET Inserting
  BY <1>2 DEF Live, Inserting, BranchesInv
<1>4. IsFiniteSet(Live) /\ IsFiniteSet(Inserting)
  BY BranchesFinite DEF Live, Inserting, BranchesInv
<1>5. Cardinality(Live') <= Cardinality(Live) /\ Cardinality(Live') \in Nat
  BY <1>3, <1>4, FS_Subset, FS_CardinalityType
<1>6. Cardinality(Inserting') <= Cardinality(Inserting) /\ Cardinality(Inserting') \in Nat
  BY <1>3, <1>4, FS_Subset, FS_CardinalityType
<1>7. RoomLeft'
  BY <1>1, <1>5, <1>6, BranchesInvFacts DEF BranchesInv, RoomLeft
<1>8. \A c \in BranchIds : branch'[c].status = "live" => branch'[c].locations # <<>>
  BY <1>2 DEF BranchesInv
<1>9. Founded'
  BY <1>2, BranchesFinite DEF Founded
<1> QED
  BY <1>2, <1>7, <1>8, <1>9, EndsBranch, BranchesInvFacts

LEMMA updateBranchInv == ASSUME BranchesInv, NEW m \in Managers, updateBranch(m) PROVE BranchesInv'
<1> DEFINE ask == adding[m]
           b == ask.row
           row == branch[b]
           now == [f \in DOMAIN row |-> IF f \in DOMAIN ask.sent THEN ask.sent[f] ELSE row[f]]
<1>1. /\ ask.pc = "update"
      /\ branch' = IF row.status # "live" \/ codeTaken(now.code, b) THEN branch ELSE [branch EXCEPT ![b] = now]
      /\ adding' = [adding EXCEPT ![m] = NotAdding] /\ UNCHANGED <<managers, allowance, standing>>
  BY DEF updateBranch
<1>2. CASE UNCHANGED branch
  BY <1>1, <1>2, EndsUnchanged
<1>3. CASE row.status = "live" /\ branch' = [branch EXCEPT ![b] = now]
  <2>1. b \in BranchIds /\ ask.sent \in [code : BranchCodes] \cup [active : BOOLEAN] /\ Founded /\ m \in managers
    BY <1>1 DEF BranchesInv, AddTold
  <2>2. row \in BranchRows
    BY <2>1, BranchesInvFacts
  <2>3. CASE ask.sent \in [code : BranchCodes]
    <3>1. now = [status |-> row.status, code |-> ask.sent.code, kind |-> row.kind, active |-> row.active, locations |-> row.locations]
      BY <2>2, <2>3 DEF BranchRows
    <3>2. ask.sent.code \in BranchCodes /\ "active" \notin DOMAIN ask.sent
      BY <2>3
    <3>3. now \in BranchRows /\ now.status = row.status /\ now.locations = row.locations /\ (now.active <=> row.active)
      BY <2>2, <3>1, <3>2 DEF BranchRows
    <3> HIDE DEF now
    <3>a. now.status = "live" /\ now.locations # <<>> /\ now.locations = branch[b].locations /\ branch[b].status = "live"
      BY <1>3, <2>1, <3>3 DEF BranchesInv
    <3>b. branch' = [branch EXCEPT ![b] = now]
      BY <1>3
    <3> HIDE DEF b
    <3>4. /\ branch' \in [BranchIds -> BranchRows] /\ branch'[b] = now /\ \A c \in BranchIds : c # b => branch'[c] = branch[c]
          /\ adding' \in [Managers -> Addings] /\ \A w \in Managers : adding'[w] = adding[w] \/ adding'[w].pc = "idle"
          /\ Founded'
      BY <1>1, <2>1, <3>3, <3>a, <3>b, OneBranch
    <3>5. Trading' = Trading /\ \A c \in BranchIds : branch[c].status = "deleted" => branch'[c] = branch[c]
      BY <1>3, <3>3, <3>4 DEF Trading, Live
    <3>6. LastActive'
      BY <1>1, <2>1, <3>4, <3>5 DEF BranchesInv, LastActive, SwitchesOff
    <3> QED
      BY <1>1, <2>1, <3>3, <3>a, <3>b, <3>4, <3>6, RowChanges
  <2>4. CASE ask.sent \in [active : BOOLEAN]
    <3>1. now = [status |-> row.status, code |-> row.code, kind |-> row.kind, active |-> ask.sent.active, locations |-> row.locations]
      BY <2>2, <2>4 DEF BranchRows
    <3>2. ask.sent.active \in BOOLEAN /\ "active" \in DOMAIN ask.sent
      BY <2>4
    <3>3. now \in BranchRows /\ now.status = row.status /\ now.locations = row.locations /\ (now.active <=> ask.sent.active)
      BY <2>2, <3>1, <3>2 DEF BranchRows
    <3> HIDE DEF now
    <3>a. now.status = "live" /\ now.locations # <<>> /\ now.locations = branch[b].locations /\ branch[b].status = "live"
      BY <1>3, <2>1, <3>3 DEF BranchesInv
    <3>b. branch' = [branch EXCEPT ![b] = now]
      BY <1>3
    <3> HIDE DEF b
    <3>4. /\ branch' \in [BranchIds -> BranchRows] /\ branch'[b] = now /\ \A c \in BranchIds : c # b => branch'[c] = branch[c]
          /\ adding' \in [Managers -> Addings] /\ \A w \in Managers : adding'[w] = adding[w] \/ adding'[w].pc = "idle"
          /\ adding'[m].pc = "idle" /\ \A w \in Managers : w # m => adding'[w] = adding[w]
          /\ Founded'
      BY <1>1, <2>1, <3>3, <3>a, <3>b, OneBranch
    <3>5. LastActive'
      <4> SUFFICES ASSUME Cardinality(managers) = 1
                   PROVE  /\ Trading' = {} => \E c \in BranchIds : branch'[c].status = "deleted" /\ branch'[c].active
                          /\ \A w \in Managers : ~SwitchesOff(adding'[w])
        BY <1>1 DEF LastActive
      <4>1. \A w \in Managers : w # m => adding[w].pc = "idle"
        BY <2>1, OnlyManager
      <4>2. \A w \in Managers : ~SwitchesOff(adding'[w])
        BY <3>4, <4>1 DEF SwitchesOff
      <4>3. ASSUME Trading' = {} PROVE \E c \in BranchIds : branch'[c].status = "deleted" /\ branch'[c].active
        <5>1. ~ask.sent.active
          BY <3>a, <2>1, <3>3, <3>4, <4>3 DEF Trading, Live
        <5>2. Trading # {b}
          BY <1>1, <3>2, <5>1 DEF BranchesInv, LastActive, SwitchesOff, b
        <5>3. Trading \subseteq {b}
          BY <3>4, <4>3 DEF Trading, Live
        <5>4. \E c \in BranchIds : branch[c].status = "deleted" /\ branch[c].active
          BY <2>1, <5>2, <5>3 DEF BranchesInv, LastActive
        <5> QED
          BY <3>a, <3>4, <5>4
      <4> QED
        BY <4>2, <4>3
    <3> QED
      BY <1>1, <2>1, <3>3, <3>a, <3>b, <3>4, <3>5, RowChanges
  <2> QED
    BY <2>1, <2>3, <2>4
<1> QED
  BY <1>1, <1>2, <1>3

LEMMA deleteBranchInv == ASSUME BranchesInv, NEW m \in Managers, NEW b \in BranchIds, deleteBranch(m, b) PROVE BranchesInv'
<1>1. Idle(m) /\ b \in Live /\ branch' = [branch EXCEPT ![b].status = "deleted"] /\ UNCHANGED <<managers, allowance, standing, adding>>
  BY DEF deleteBranch
<1> DEFINE row == [branch[b] EXCEPT !.status = "deleted"]
<1>2. branch[b] \in BranchRows /\ branch[b].status = "live" /\ branch \in [BranchIds -> BranchRows]
      /\ adding \in [Managers -> Addings]
  BY <1>1, BranchesInvFacts DEF Live
<1>3. row \in BranchRows /\ row.status = "deleted" /\ row.locations = branch[b].locations /\ (row.active <=> branch[b].active)
  BY <1>2 DEF BranchRows
<1>4. branch' = [branch EXCEPT ![b] = row]
  BY <1>1, <1>2
<1> HIDE DEF row
<1>5. branch'[b] = row /\ \A c \in BranchIds : c # b => branch'[c] = branch[c]
  BY <1>2, <1>4
<1>6. Founded /\ m \in managers /\ adding[m].pc = "idle"
  BY <1>1 DEF Idle
<1>7. LastActive'
  <2> SUFFICES ASSUME Cardinality(managers) = 1
               PROVE  /\ Trading' = {} => \E c \in BranchIds : branch'[c].status = "deleted" /\ branch'[c].active
                      /\ \A w \in Managers : ~SwitchesOff(adding[w])
    BY <1>1 DEF LastActive
  <2>1. \A w \in Managers : ~SwitchesOff(adding[w])
    BY <1>6, OnlyManager DEF SwitchesOff
  <2>2. CASE branch[b].active
    BY <1>3, <1>5, <2>1, <2>2
  <2>3. CASE ~branch[b].active
    <3>1. Trading' = Trading
      BY <1>2, <1>3, <1>5, <2>3 DEF Trading, Live
    <3> QED
      BY <1>2, <1>5, <1>6, <2>1, <3>1 DEF BranchesInv, LastActive
  <2> QED
    BY <2>2, <2>3
<1> QED
  BY <1>1, <1>2, <1>3, <1>4, <1>6, <1>7, RowChanges

LEMMA BranchesNextInv == BranchesInv /\ [BranchesNext]_branchVars => BranchesInv'
<1> SUFFICES ASSUME BranchesInv, [BranchesNext]_branchVars PROVE BranchesInv'
  OBVIOUS
<1>1. CASE UNCHANGED branchVars
  BY <1>1 DEF branchVars, BranchesInv, BranchesTypeOK, Founded, RoomLeft, LastActive, Live, Trading, Inserting
<1>2. CASE BranchesNext
  BY <1>2, BeginCreateTenantInv, createTenantInv, updateAllowanceInv, BeginCreateBranchInv, createBranchInv,
     BeginUpdateBranchInv, updateBranchInv, deleteBranchInv DEF BranchesNext
<1> QED
  BY <1>1, <1>2

LEMMA BranchesInvAllowance == BranchesInv => BranchAllowance
<1> SUFFICES ASSUME BranchesInv PROVE BranchAllowance
  OBVIOUS
<1>1. Cardinality(Live) <= (IF standing > allowance THEN standing ELSE allowance) + Cardinality(managers) - 1
  BY BranchesInvFacts DEF BranchesInv, RoomLeft
<1> QED
  BY <1>1 DEF BranchesInv, LastActive, BranchAllowance, Live

-------------------------------------------------------------------------------
\* Staff and roles

grants(u) == grantsOf(person, staffRole, u)

\* What a version may have meant: one set of grants, or none once the role was deleted.
HeldTold(had, g) == \E h : had \subseteq {h, NoGrant} /\ (g # NoGrant => h = g)

VersionsTold ==
  \A u \in People : /\ ~person[u].exists => held[u] = {}
                    /\ HeldTold(held[u], grants(u))
                    /\ Cardinality(operators) = 1 => held[u] \subseteq {grants(u)}
                    /\ held[u] \subseteq Grants

\* A role that somebody has, or is about to have, was created.
RoleMade(r, roles) == r \in StaffRoles => roles[r].status # "none"

\* The user a request holds is there, has a change left, and is held by it alone.
EditTold(e, rows, roles, most) ==
  e.pc \in {"role", "move"} =>
    /\ e.user \in People /\ rows[e.user].exists /\ rows[e.user].version < most
    /\ e.pc = "role" => RoleMade(e.role, roles)

\* What a single operator looked at is still so when the change is made.
StillFree(e) ==
  /\ e.pc = "role" => assertBranchAdminFree(e.user, e.role, e.branch)
  /\ e.pc = "move" => assertBranchAdminFree(e.user, person[e.user].role, e.branch)
  /\ e.pc = "delete" => Holders(e.role) = {}

\* Two admins of whom both were looked at when they came to be.
AdminsClash(a, b) ==
  a.active /\ b.active /\ a.role = "admin" /\ b.role = "admin" /\ Meet(a.branch, b.branch) /\ a.checked /\ b.checked

PeopleTold ==
  \A u \in People : /\ ~person[u].exists => ~person[u].active
                    /\ person[u].exists => RoleMade(person[u].role, staffRole)

EditsTold ==
  /\ \A o \in Operators : /\ edit[o].pc # "idle" => o \in operators
                          /\ EditTold(edit[o], person, staffRole, MaxVersion[Cardinality(operators)])
                          /\ edit[o].pc = "delete" => edit[o].role \in StaffRoles /\ staffRole[edit[o].role].status # "none"
  /\ \A o, q \in Operators : o # q /\ edit[o].pc \in {"role", "move"} /\ edit[q].pc \in {"role", "move"} => edit[o].user # edit[q].user

AdminsTold ==
  Cardinality(operators) = 1 =>
    /\ \A o \in Operators : StillFree(edit[o])
    /\ \A u, w \in People : u # w => ~AdminsClash(person[u], person[w])

StaffInv ==
  /\ StaffTypeOK /\ person \in [People -> Persons] /\ operators \subseteq Operators /\ operators # {}
  /\ PeopleTold /\ EditsTold /\ VersionsTold /\ AdminsTold

LEMMA StaffFinite ==
  ASSUME operators \subseteq Operators, operators # {}
  PROVE  /\ IsFiniteSet(operators) /\ Cardinality(operators) \in 1..Cardinality(Operators)
         /\ MaxVersion[Cardinality(operators)] \in 0..MaxVersion[1]
         /\ \A o \in operators : Cardinality(operators) = 1 => operators = {o}
<1>1. operators \in SUBSET Operators
  OBVIOUS
<1>2. IsFiniteSet(operators) /\ Cardinality(operators) <= Cardinality(Operators)
  BY <1>1, StaffAssumption, FS_Subset
<1>3. Cardinality(operators) \in Nat /\ Cardinality(Operators) \in Nat /\ Cardinality(operators) # 0
  BY <1>2, StaffAssumption, FS_CardinalityType, FS_EmptySet
<1>4. \A o \in operators : Cardinality(operators) = 1 => operators = {o}
  BY <1>2, FS_Singleton
<1>5. Cardinality(operators) \in 1..Cardinality(Operators)
  BY <1>2, <1>3
<1> QED
  BY <1>2, <1>4, <1>5, StaffAssumption

LEMMA StaffInitInv == StaffInit => StaffInv
<1> SUFFICES ASSUME StaffInit PROVE StaffInv
  OBVIOUS
<1>1. NoPerson \in Persons /\ ~NoPerson.exists /\ ~NoPerson.active /\ NoPerson.role = "admin"
  BY StaffAssumption DEF NoPerson, Persons, Versions, RoleCodes, Reach
<1>2. NoRole \in RoleRows /\ NoRole.status = "none"
  BY DEF NoRole, RoleRows
<1>3. NoEdit \in Edits /\ NoEdit.pc = "idle"
  BY DEF NoEdit, Edits, RoleCodes, Reach
<1>4. StaffTypeOK /\ person \in [People -> Persons]
  BY <1>1, <1>2, <1>3 DEF StaffInit, StaffTypeOK
<1>5. VersionsTold
  BY <1>1 DEF StaffInit, VersionsTold, HeldTold
<1>6. \A u, w \in People : ~AdminsClash(person[u], person[w])
  BY <1>1 DEF StaffInit, AdminsClash
<1>7. \A o \in Operators : edit[o].pc = "idle"
  BY <1>3 DEF StaffInit
<1> QED
  BY <1>1, <1>4, <1>5, <1>6, <1>7 DEF StaffInit, StaffInv, PeopleTold, EditsTold, AdminsTold, EditTold, StillFree

LEMMA StaffInvFacts ==
  ASSUME StaffInv
  PROVE  /\ person \in [People -> Persons] /\ staffRole \in [StaffRoles -> RoleRows] /\ edit \in [Operators -> Edits]
         /\ MaxVersion[Cardinality(operators)] \in 0..MaxVersion[1] /\ MaxVersion[1] \in Nat
         /\ operators \subseteq Operators
         /\ \A o \in operators : Cardinality(operators) = 1 => operators = {o}
         /\ NoEdit \in Edits /\ NoEdit.pc = "idle"
         /\ "admin" \in RoleCodes
<1>1. NoEdit \in Edits /\ NoEdit.pc = "idle" /\ "admin" \in RoleCodes
  BY DEF NoEdit, Edits, RoleCodes, Reach
<1> QED
  BY <1>1, StaffFinite, StaffAssumption DEF StaffInv, StaffTypeOK

\* What users may do stays among the grants.
LEMMA GrantsTyped ==
  ASSUME NEW rows \in [People -> Persons], NEW roles \in [StaffRoles -> RoleRows], NEW u \in People
  PROVE  grantsOf(rows, roles, u) \in Grants
<1> DEFINE r == rows[u].role
<1>1. rows[u] \in Persons /\ r \in RoleCodes /\ rows[u].branch \in Reach
  BY DEF Persons
<1>2. CASE r \notin StaffRoles
  <2> DEFINE p == {"*"}
  <2>1. grantsOf(rows, roles, u) = [role |-> r, branch |-> rows[u].branch, permissions |-> p]
    BY <1>2 DEF grantsOf
  <2>2. p \in SUBSET ((UNION PermissionSets) \cup {"*"})
    OBVIOUS
  <2> HIDE DEF r, p
  <2> QED
    BY <1>1, <2>1, <2>2 DEF Grants
<1>3. CASE r \in StaffRoles
  <2>1. roles[r].permissions \in SUBSET UNION PermissionSets
    BY <1>3 DEF RoleRows
  <2>2. NoGrant \in Grants
    BY DEF NoGrant, Grants, Reach
  <2>3. CASE roles[r].status = "live" /\ roles[r].active
    <3>1. grantsOf(rows, roles, u) = [role |-> r, branch |-> rows[u].branch, permissions |-> roles[r].permissions]
      BY <1>3, <2>3 DEF grantsOf
    <3> HIDE DEF r
    <3> QED
      BY <1>1, <2>1, <3>1 DEF Grants
  <2>4. CASE ~(roles[r].status = "live" /\ roles[r].active)
    BY <1>3, <2>2, <2>4 DEF grantsOf
  <2> QED
    BY <2>3, <2>4
<1> QED
  BY <1>2, <1>3

\* What a step writes down, when it changes a user's version or else nothing of what they
\* may do; of several operators one may also take it all away.
LEMMA WrittenDown ==
  ASSUME StaffInv, Recorded, operators' = operators, person' \in [People -> Persons], staffRole' \in [StaffRoles -> RoleRows],
         \A u \in People : person[u].exists => person'[u].exists,
         \A u \in People : person[u].exists /\ person'[u].version = person[u].version =>
           \/ grants(u)' = grants(u)
           \/ grants(u)' = NoGrant /\ Cardinality(operators) # 1
  PROVE  VersionsTold'
<1> SUFFICES ASSUME NEW u \in People
             PROVE  /\ ~person'[u].exists => held'[u] = {}
                    /\ HeldTold(held'[u], grants(u)')
                    /\ Cardinality(operators) = 1 => held'[u] \subseteq {grants(u)'}
                    /\ held'[u] \subseteq Grants
  BY DEF VersionsTold
<1> DEFINE before == grants(u)
           after == grants(u)'
<1>1. after \in Grants
  BY GrantsTyped DEF grants
<1>2. held'[u] = IF ~person'[u].exists THEN {}
                 ELSE {after} \cup (IF person'[u].version = person[u].version THEN held[u] ELSE {})
  BY Zenon DEF Recorded, grants
<1>3. /\ ~person[u].exists => held[u] = {}
      /\ HeldTold(held[u], before)
      /\ Cardinality(operators) = 1 => held[u] \subseteq {before}
      /\ held[u] \subseteq Grants
  BY DEF StaffInv, VersionsTold
<1>4. person[u].exists /\ person'[u].version = person[u].version =>
        after = before \/ (after = NoGrant /\ Cardinality(operators) # 1)
  BY Zenon
<1> HIDE DEF before, after
<1>5. CASE held'[u] = {} \/ held'[u] = {after}
  BY <1>1, <1>2, <1>5 DEF HeldTold, after
<1>6. CASE held'[u] = {after} \cup held[u] /\ person[u].exists /\ person'[u].exists /\ (after = before \/ (after = NoGrant /\ Cardinality(operators) # 1))
  <2>1. PICK h : held[u] \subseteq {h, NoGrant} /\ (before # NoGrant => h = before)
    BY <1>3 DEF HeldTold
  <2>2. held'[u] \subseteq {h, NoGrant} /\ (after # NoGrant => h = after)
    BY <1>6, <2>1
  <2>3. HeldTold(held'[u], after)
    BY <2>2 DEF HeldTold
  <2>4. Cardinality(operators) = 1 => held'[u] \subseteq {after}
    BY <1>3, <1>6
  <2> QED
    BY <1>1, <1>3, <1>6, <2>3, <2>4 DEF after
<1> QED
  BY <1>2, <1>3, <1>4, <1>5, <1>6

\* One user's row changes, of whom no other request holds it.
LEMMA PersonStep ==
  ASSUME StaffInv, UNCHANGED <<operators, staffRole>>, Recorded,
         NEW u \in People, NEW row \in Persons, person' = [person EXCEPT ![u] = row],
         row.exists, person[u].exists => row.version # person[u].version, RoleMade(row.role, staffRole),
         edit' \in [Operators -> Edits],
         \A q \in Operators : \/ edit'[q].pc = "idle"
                              \/ edit'[q] = edit[q] /\ ~(edit[q].pc \in {"role", "move"} /\ edit[q].user = u),
         Cardinality(operators) = 1 =>
           /\ \A q \in Operators : edit'[q].pc = "idle"
           /\ \A w \in People : w # u => ~AdminsClash(row, person[w])
  PROVE  StaffInv'
<1>1. person' \in [People -> Persons] /\ person'[u] = row /\ \A w \in People : w # u => person'[w] = person[w]
  BY StaffInvFacts
<1>2. \A w \in People : w # u => grants(w)' = grants(w)
  BY <1>1 DEF grants, grantsOf
<1>3. VersionsTold'
  <2>1. \A w \in People : person[w].exists => person'[w].exists
    BY <1>1
  <2>2. \A w \in People : person[w].exists /\ person'[w].version = person[w].version => grants(w)' = grants(w)
    BY <1>1, <1>2
  <2>3. staffRole' \in [StaffRoles -> RoleRows] /\ operators' = operators
    BY StaffInvFacts
  <2> QED
    BY <1>1, <2>1, <2>2, <2>3, WrittenDown
<1>4. PeopleTold'
  BY <1>1 DEF StaffInv, PeopleTold
<1>5. EditsTold'
  BY <1>1 DEF StaffInv, EditsTold, EditTold
<1>6. AdminsTold'
  <2> SUFFICES ASSUME Cardinality(operators) = 1
               PROVE  /\ \A o \in Operators : StillFree(edit[o])'
                      /\ \A v, w \in People : v # w => ~AdminsClash(person'[v], person'[w])
    BY DEF AdminsTold
  <2>1. \A o \in Operators : StillFree(edit[o])'
    BY DEF StillFree
  <2>2. \A v, w \in People : v # w => ~AdminsClash(person[v], person[w])
    BY DEF StaffInv, AdminsTold
  <2>3. \A v \in People : v # u => ~AdminsClash(row, person[v]) /\ ~AdminsClash(person[v], row)
    BY DEF AdminsClash, Meet
  <2> QED
    BY <1>1, <2>1, <2>2, <2>3
<1>7. StaffTypeOK'
  BY <1>1, <1>3, StaffInvFacts DEF StaffTypeOK, VersionsTold
<1> QED
  BY <1>1, <1>3, <1>4, <1>5, <1>6, <1>7 DEF StaffInv

\* A request begins: nothing but its own state changes.
LEMMA EditStep ==
  ASSUME StaffInv, UNCHANGED <<operators, person, staffRole, held>>,
         NEW o \in Operators, Working(o), NEW e \in Edits, edit' = [edit EXCEPT ![o] = e],
         EditTold(e, person, staffRole, MaxVersion[Cardinality(operators)]),
         e.pc \in {"role", "move"} => ~PersonHeld(e.user),
         e.pc = "delete" => e.role \in StaffRoles /\ staffRole[e.role].status # "none",
         Cardinality(operators) = 1 => StillFree(e)
  PROVE  StaffInv'
<1>1. edit' \in [Operators -> Edits] /\ edit'[o] = e /\ \A q \in Operators : q # o => edit'[q] = edit[q]
  BY StaffInvFacts
<1>2. EditsTold'
  BY <1>1 DEF StaffInv, EditsTold, PersonHeld, Working
<1>3. AdminsTold'
  BY <1>1 DEF StaffInv, AdminsTold, StillFree, assertBranchAdminFree, Holders
<1>4. VersionsTold' /\ PeopleTold'
  BY DEF StaffInv, VersionsTold, PeopleTold, grants
<1>5. StaffTypeOK'
  BY <1>1 DEF StaffInv, StaffTypeOK
<1> QED
  BY <1>2, <1>3, <1>4, <1>5 DEF StaffInv

\* A role changes, and with it the token versions of users nobody holds.
LEMMA RoleStep ==
  ASSUME StaffInv, operators' = operators, Recorded,
         staffRole' \in [StaffRoles -> RoleRows],
         \A r \in StaffRoles : staffRole[r].status # "none" => staffRole'[r].status # "none",
         person' \in [People -> Persons],
         \A u \in People : \/ person'[u] = person[u]
                           \/ /\ Free(u)
                              /\ person'[u].exists /\ (person'[u].active <=> person[u].active)
                              /\ (person'[u].checked <=> person[u].checked)
                              /\ person'[u].role = person[u].role /\ person'[u].branch = person[u].branch,
         \A u \in People : person[u].exists /\ person'[u].version = person[u].version =>
           \/ grants(u)' = grants(u)
           \/ (grants(u)' = NoGrant /\ Cardinality(operators) # 1),
         edit' \in [Operators -> Edits], \A q \in Operators : edit'[q] = edit[q] \/ edit'[q].pc = "idle",
         Cardinality(operators) = 1 => \A q \in Operators : edit'[q].pc = "idle"
  PROVE  StaffInv'
<1>1. \A u \in People : person[u].exists => person'[u].exists
  BY DEF Free
<1>2. VersionsTold'
  BY <1>1, WrittenDown
<1>3. PeopleTold'
  <2> SUFFICES ASSUME NEW u \in People
               PROVE  /\ ~person'[u].exists => ~person'[u].active
                      /\ person'[u].exists => RoleMade(person'[u].role, staffRole')
    BY DEF PeopleTold
  <2>1. /\ ~person[u].exists => ~person[u].active
        /\ person[u].exists => RoleMade(person[u].role, staffRole)
    BY DEF StaffInv, PeopleTold
  <2> QED
    BY <2>1 DEF RoleMade, Free
<1>4. EditsTold'
  <2>1. ASSUME NEW q \in Operators, edit'[q] = edit[q]
        PROVE  EditTold(edit'[q], person', staffRole', MaxVersion[Cardinality(operators)])
    <3> SUFFICES ASSUME edit[q].pc \in {"role", "move"}
                 PROVE  EditTold(edit[q], person', staffRole', MaxVersion[Cardinality(operators)])
      BY <2>1 DEF EditTold
    <3>1. EditTold(edit[q], person, staffRole, MaxVersion[Cardinality(operators)])
      BY DEF StaffInv, EditsTold
    <3>2. person'[edit[q].user] = person[edit[q].user]
      BY <3>1 DEF EditTold, Free, PersonHeld
    <3> QED
      BY <3>1, <3>2 DEF EditTold, RoleMade
  <2>2. ASSUME NEW q \in Operators, edit'[q].pc = "idle"
        PROVE  EditTold(edit'[q], person', staffRole', MaxVersion[Cardinality(operators)])
    BY <2>2 DEF EditTold
  <2> QED
    BY <2>1, <2>2 DEF StaffInv, EditsTold
<1>5. AdminsTold'
  <2> SUFFICES ASSUME Cardinality(operators) = 1
               PROVE  /\ \A o \in Operators : StillFree(edit[o])'
                      /\ \A v, w \in People : v # w => ~AdminsClash(person'[v], person'[w])
    BY DEF AdminsTold
  <2>1. \A o \in Operators : StillFree(edit[o])'
    BY DEF StillFree
  <2>2. \A v, w \in People : v # w => ~AdminsClash(person[v], person[w])
    BY DEF StaffInv, AdminsTold
  <2>3. \A v \in People : /\ person'[v].active <=> person[v].active
                          /\ person'[v].checked <=> person[v].checked
                          /\ person'[v].role = person[v].role /\ person'[v].branch = person[v].branch
    OBVIOUS
  <2> QED
    BY <2>1, <2>2, <2>3 DEF AdminsClash
<1>6. StaffTypeOK'
  BY <1>2 DEF StaffTypeOK, VersionsTold
<1> QED
  BY <1>2, <1>3, <1>4, <1>5, <1>6 DEF StaffInv

LEMMA WorksAlone ==
  ASSUME StaffInv, Cardinality(operators) = 1, NEW o \in operators
  PROVE  \A q \in Operators : q # o => edit[q].pc = "idle"
  BY StaffInvFacts DEF StaffInv, EditsTold

LEMMA EndsEdit ==
  ASSUME StaffInv, NEW o \in Operators, EndEdit(o)
  PROVE  /\ edit' \in [Operators -> Edits] /\ edit'[o].pc = "idle"
         /\ \A q \in Operators : q # o => edit'[q] = edit[q]
  BY StaffInvFacts DEF EndEdit

\* One more change of a user nobody holds.
LEMMA NextVersion ==
  ASSUME StaffInv, NEW u \in People, person[u].version < MaxVersion[Cardinality(operators)]
  PROVE  person[u].version + 1 \in Versions /\ person[u].version + 1 # person[u].version
  BY StaffInvFacts DEF Persons, Versions

LEMMA createTenantUserInv == ASSUME StaffInv, NEW o \in Operators, createTenantUser(o) PROVE StaffInv'
<1>1. PICK u \in People, r \in RoleCodes, b \in Reach :
        /\ Working(o)
        /\ ~person[u].exists
        /\ RoleExists(r)
        /\ person' = [person EXCEPT ![u] = [NoPerson EXCEPT !.exists = TRUE, !.active = TRUE, !.role = r, !.branch = b]]
        /\ UNCHANGED <<operators, staffRole, edit>>
        /\ Recorded
  BY DEF createTenantUser
<1> DEFINE row == [NoPerson EXCEPT !.exists = TRUE, !.active = TRUE, !.role = r, !.branch = b]
<1>3. person' = [person EXCEPT ![u] = row]
  BY <1>1
<1>2. NoPerson \in Persons /\ ~NoPerson.checked
  BY StaffAssumption DEF NoPerson, Persons, Versions, RoleCodes, Reach
<1>4. row \in Persons /\ row.exists /\ row.role = r /\ (row.checked <=> NoPerson.checked)
  <2> DEFINE first(x, y) == [NoPerson EXCEPT !.exists = x, !.active = y]
  <2>1. \A x, y \in BOOLEAN : first(x, y) \in Persons /\ (first(x, y).exists <=> x) /\ (first(x, y).checked <=> NoPerson.checked)
    BY <1>2 DEF Persons
  <2>2. row = [first(TRUE, TRUE) EXCEPT !.role = r, !.branch = b]
    OBVIOUS
  <2> HIDE DEF row, first
  <2> DEFINE now == first(TRUE, TRUE)
  <2>3. now \in Persons /\ now.exists /\ (now.checked <=> NoPerson.checked)
    BY <2>1, Zenon
  <2> HIDE DEF now
  <2>4. [now EXCEPT !.role = r, !.branch = b] \in Persons /\ [now EXCEPT !.role = r, !.branch = b].role = r
        /\ ([now EXCEPT !.role = r, !.branch = b].exists <=> now.exists)
        /\ ([now EXCEPT !.role = r, !.branch = b].checked <=> now.checked)
    BY <2>3 DEF Persons
  <2> QED
    BY <2>2, <2>3, <2>4 DEF now
<1>5. row.exists /\ ~row.checked /\ row.role = r
  BY <1>2, <1>4
<1> HIDE DEF row
<1>6. RoleMade(row.role, staffRole)
  BY <1>1, <1>5 DEF RoleExists, RoleMade
<1>7. \A q \in Operators : ~(edit[q].pc \in {"role", "move"} /\ edit[q].user = u)
  BY <1>1 DEF StaffInv, EditsTold, EditTold
<1>8. Cardinality(operators) = 1 =>
        /\ \A q \in Operators : edit'[q].pc = "idle"
        /\ \A w \in People : w # u => ~AdminsClash(row, person[w])
  BY <1>1, <1>5, WorksAlone DEF Working, AdminsClash
<1>9. edit' = edit /\ edit \in [Operators -> Edits]
  BY <1>1, StaffInvFacts
<1> QED
  BY <1>1, <1>3, <1>4, <1>5, <1>6, <1>7, <1>8, <1>9, PersonStep

LEMMA setUserActiveInv == ASSUME StaffInv, NEW o \in Operators, NEW u \in People, setUserActive(o, u) PROVE StaffInv'
<1>1. PICK on \in BOOLEAN :
        /\ Working(o) /\ Free(u)
        /\ person' = [person EXCEPT ![u].active = on, ![u].version = @ + 1, ![u].checked = person[u].checked /\ ~on]
        /\ UNCHANGED <<operators, staffRole, edit>>
        /\ Recorded
  BY DEF setUserActive
<1> DEFINE now == person[u]
           kept == now.checked /\ ~on
           row == [now EXCEPT !.active = on, !.version = now.version + 1, !.checked = kept]
<1>2. now \in Persons /\ now.exists /\ person \in [People -> Persons]
  BY <1>1, StaffInvFacts DEF Free
<1>3. person' = [person EXCEPT ![u] = row]
  BY <1>1, <1>2
<1>4. now.version + 1 \in Versions /\ now.version + 1 # now.version
  BY <1>1, NextVersion DEF Free
<1>5. kept \in BOOLEAN /\ (kept => ~on)
  BY <1>2 DEF Persons
<1> HIDE DEF kept
<1>6. row \in Persons
  BY <1>2, <1>4, <1>5 DEF Persons
<1>7. row.exists /\ row.version # now.version /\ row.role = now.role /\ row.checked = kept /\ row.active = on
  BY <1>2, <1>4 DEF Persons
<1> HIDE DEF row
<1>8. RoleMade(row.role, staffRole)
  BY <1>2, <1>7 DEF StaffInv, PeopleTold
<1>9. \A q \in Operators : ~(edit[q].pc \in {"role", "move"} /\ edit[q].user = u)
  BY <1>1 DEF Free, PersonHeld
<1>10. Cardinality(operators) = 1 =>
        /\ \A q \in Operators : edit'[q].pc = "idle"
        /\ \A w \in People : w # u => ~AdminsClash(row, person[w])
  BY <1>1, <1>5, <1>7, WorksAlone DEF Working, AdminsClash
<1>11. edit' = edit /\ edit \in [Operators -> Edits]
  BY <1>1, StaffInvFacts
<1> QED
  BY <1>1, <1>3, <1>6, <1>7, <1>8, <1>9, <1>10, <1>11, PersonStep, ZenonT(30)

\* The last step of a change of role or of branch.
LEMMA ChangeEnds ==
  ASSUME StaffInv, NEW o \in Operators, edit[o].pc \in {"role", "move"}, EndEdit(o),
         UNCHANGED <<operators, staffRole>>, Recorded,
         NEW r \in RoleCodes, NEW b \in Reach,
         person' = [person EXCEPT ![edit[o].user] =
                      [person[edit[o].user] EXCEPT !.role = r, !.branch = b, !.version = person[edit[o].user].version + 1, !.checked = TRUE]],
         RoleMade(r, staffRole),
         Cardinality(operators) = 1 => assertBranchAdminFree(edit[o].user, r, b)
  PROVE  StaffInv'
<1> DEFINE u == edit[o].user
           now == person[u]
           row == [now EXCEPT !.role = r, !.branch = b, !.version = now.version + 1, !.checked = TRUE]
<1>1. u \in People /\ now.exists /\ now.version < MaxVersion[Cardinality(operators)] /\ o \in operators
  BY DEF StaffInv, EditsTold, EditTold
<1>2. now \in Persons
  BY <1>1, StaffInvFacts
<1>3. person' = [person EXCEPT ![u] = row]
  OBVIOUS
<1>4. now.version + 1 \in Versions /\ now.version + 1 # now.version
  BY <1>1, NextVersion
<1> DEFINE moved == [now EXCEPT !.role = r, !.branch = b]
<1>5. moved \in Persons /\ moved.role = r /\ moved.branch = b /\ (moved.exists <=> now.exists) /\ moved.version = now.version
  BY <1>2 DEF Persons
<1>6. row = [moved EXCEPT !.version = now.version + 1, !.checked = TRUE]
  OBVIOUS
<1> HIDE DEF moved
<1>7. row \in Persons /\ row.role = r /\ row.branch = b /\ (row.exists <=> now.exists) /\ row.version = now.version + 1
  <2>1. \A c \in BOOLEAN : [moved EXCEPT !.version = now.version + 1, !.checked = c] \in Persons
    BY <1>4, <1>5 DEF Persons
  <2>2. \A c \in BOOLEAN : LET x == [moved EXCEPT !.version = now.version + 1, !.checked = c] IN
          x.role = moved.role /\ x.branch = moved.branch /\ (x.exists <=> moved.exists) /\ x.version = now.version + 1
    BY <1>5 DEF Persons
  <2> QED
    BY <1>5, <1>6, <2>1, <2>2, Zenon
<1> HIDE DEF row
<1>8. row.exists /\ row.version # now.version /\ RoleMade(row.role, staffRole)
  BY <1>1, <1>4, <1>7
<1>9. \A q \in Operators : \/ edit'[q].pc = "idle"
                           \/ edit'[q] = edit[q] /\ ~(edit[q].pc \in {"role", "move"} /\ edit[q].user = u)
  BY EndsEdit DEF StaffInv, EditsTold
<1>10. Cardinality(operators) = 1 =>
        /\ \A q \in Operators : edit'[q].pc = "idle"
        /\ \A w \in People : w # u => ~AdminsClash(row, person[w])
  <2> SUFFICES ASSUME Cardinality(operators) = 1
               PROVE  /\ \A q \in Operators : edit'[q].pc = "idle"
                      /\ \A w \in People : w # u => ~AdminsClash(row, person[w])
    OBVIOUS
  <2>1. \A q \in Operators : edit'[q].pc = "idle"
    BY <1>1, WorksAlone, EndsEdit
  <2>2. ASSUME NEW w \in People, w # u, AdminsClash(row, person[w]) PROVE FALSE
    <3>1. r = "admin" /\ person[w].exists /\ person[w].active /\ person[w].role = "admin" /\ Meet(b, person[w].branch)
      BY <1>7, <2>2 DEF AdminsClash, StaffInv, PeopleTold
    <3>2. ~Meet(person[w].branch, b)
      BY <2>2, <3>1 DEF assertBranchAdminFree
    <3> QED
      BY <3>1, <3>2 DEF Meet
  <2> QED
    BY <2>1, <2>2
<1>11. edit' \in [Operators -> Edits]
  BY EndsEdit
<1> HIDE DEF u
<1> QED
  BY <1>1, <1>3, <1>7, <1>8, <1>9, <1>10, <1>11, PersonStep

LEMMA BeginChangeRoleInv == ASSUME StaffInv, NEW o \in Operators, NEW u \in People, BeginChangeRole(o, u) PROVE StaffInv'
<1>1. PICK r \in RoleCodes, b \in Reach :
        /\ Working(o)
        /\ Free(u) /\ RoleExists(r)
        /\ assertBranchAdminFree(u, r, b)
        /\ edit' = [edit EXCEPT ![o] = [NoEdit EXCEPT !.pc = "role", !.user = u, !.role = r, !.branch = b]]
        /\ UNCHANGED <<operators, person, staffRole, held>>
  BY DEF BeginChangeRole
<1> DEFINE e == [NoEdit EXCEPT !.pc = "role", !.user = u, !.role = r, !.branch = b]
<1>3. edit' = [edit EXCEPT ![o] = e]
  BY <1>1
<1>4. e \in Edits /\ e.pc = "role" /\ e.user = u /\ e.role = r /\ e.branch = b
  <2> DEFINE first == [NoEdit EXCEPT !.pc = "role", !.user = u]
  <2>1. first \in Edits /\ first.pc = "role" /\ first.user = u
    BY StaffInvFacts DEF Edits
  <2>2. e = [first EXCEPT !.role = r, !.branch = b]
    OBVIOUS
  <2> HIDE DEF e, first
  <2> QED
    BY <2>1, <2>2 DEF Edits
<1> HIDE DEF e
<1>5. EditTold(e, person, staffRole, MaxVersion[Cardinality(operators)])
  BY <1>1, <1>4 DEF EditTold, Free, RoleExists, RoleMade
<1>6. ~PersonHeld(e.user) /\ StillFree(e)
  BY <1>1, <1>4 DEF Free, StillFree
<1> QED
  BY <1>1, <1>3, <1>4, <1>5, <1>6, EditStep

LEMMA BeginMoveInv == ASSUME StaffInv, NEW o \in Operators, NEW u \in People, BeginMove(o, u) PROVE StaffInv'
<1>1. PICK b \in Reach :
        /\ Working(o)
        /\ Free(u)
        /\ assertBranchAdminFree(u, person[u].role, b)
        /\ edit' = [edit EXCEPT ![o] = [NoEdit EXCEPT !.pc = "move", !.user = u, !.branch = b]]
        /\ UNCHANGED <<operators, person, staffRole, held>>
  BY DEF BeginMove
<1> DEFINE e == [NoEdit EXCEPT !.pc = "move", !.user = u, !.branch = b]
<1>3. edit' = [edit EXCEPT ![o] = e]
  BY <1>1
<1>4. e \in Edits /\ e.pc = "move" /\ e.user = u /\ e.branch = b
  BY StaffInvFacts DEF Edits
<1> HIDE DEF e
<1>5. EditTold(e, person, staffRole, MaxVersion[Cardinality(operators)])
  BY <1>1, <1>4 DEF EditTold, Free
<1>6. ~PersonHeld(e.user) /\ StillFree(e)
  BY <1>1, <1>4 DEF Free, StillFree
<1> QED
  BY <1>1, <1>3, <1>4, <1>5, <1>6, EditStep

LEMMA changeUserRoleInv == ASSUME StaffInv, NEW o \in Operators, changeUserRole(o) PROVE StaffInv'
<1> DEFINE e == edit[o]
<1>1. /\ e.pc = "role"
      /\ person' = [person EXCEPT ![e.user].role = e.role, ![e.user].branch = e.branch,
                                  ![e.user].version = @ + 1, ![e.user].checked = TRUE]
      /\ EndEdit(o) /\ UNCHANGED <<operators, staffRole>> /\ Recorded
  BY DEF changeUserRole
<1>2. e \in Edits /\ e.role \in RoleCodes /\ e.branch \in Reach
  BY StaffInvFacts DEF Edits
<1>3. e.user \in People /\ RoleMade(e.role, staffRole)
  BY <1>1 DEF StaffInv, EditsTold, EditTold
<1>4. person' = [person EXCEPT ![e.user] =
        [person[e.user] EXCEPT !.role = e.role, !.branch = e.branch, !.version = person[e.user].version + 1, !.checked = TRUE]]
  BY <1>1, <1>3, StaffInvFacts
<1>5. Cardinality(operators) = 1 => assertBranchAdminFree(e.user, e.role, e.branch)
  BY <1>1 DEF StaffInv, AdminsTold, StillFree
<1> QED
  BY <1>1, <1>2, <1>3, <1>4, <1>5, ChangeEnds

LEMMA updateTenantUserDetailsInv == ASSUME StaffInv, NEW o \in Operators, updateTenantUserDetails(o) PROVE StaffInv'
<1> DEFINE e == edit[o]
           r == person[e.user].role
<1>1. /\ e.pc = "move"
      /\ person' = [person EXCEPT ![e.user].branch = e.branch, ![e.user].version = @ + 1, ![e.user].checked = TRUE]
      /\ EndEdit(o) /\ UNCHANGED <<operators, staffRole>> /\ Recorded
  BY DEF updateTenantUserDetails
<1>2. e \in Edits /\ e.branch \in Reach
  BY StaffInvFacts DEF Edits
<1>3. e.user \in People /\ person[e.user].exists
  BY <1>1 DEF StaffInv, EditsTold, EditTold
<1>4. r \in RoleCodes /\ RoleMade(r, staffRole) /\ person[e.user] \in Persons
  BY <1>3, StaffInvFacts DEF StaffInv, PeopleTold, Persons
<1>5. [person[e.user] EXCEPT !.role = r] = person[e.user]
  BY <1>4 DEF Persons
<1>6. person' = [person EXCEPT ![e.user] =
        [person[e.user] EXCEPT !.role = r, !.branch = e.branch, !.version = person[e.user].version + 1, !.checked = TRUE]]
  BY <1>1, <1>3, <1>5, StaffInvFacts
<1>7. Cardinality(operators) = 1 => assertBranchAdminFree(e.user, r, e.branch)
  BY <1>1 DEF StaffInv, AdminsTold, StillFree
<1> QED
  BY <1>1, <1>2, <1>3, <1>4, <1>6, <1>7, ChangeEnds

LEMMA createStaffRoleInv == ASSUME StaffInv, NEW o \in Operators, createStaffRole(o) PROVE StaffInv'
<1>1. PICK r \in StaffRoles, p \in PermissionSets :
        /\ Working(o)
        /\ staffRole[r].status = "none"
        /\ staffRole' = [staffRole EXCEPT ![r] = [status |-> "live", active |-> TRUE, permissions |-> p]]
        /\ UNCHANGED <<operators, person, edit>>
        /\ Recorded
  BY DEF createStaffRole
<1> DEFINE row == [status |-> "live", active |-> TRUE, permissions |-> p]
<1>2. row \in RoleRows /\ row.status = "live"
  <2>1. p \in SUBSET UNION PermissionSets
    OBVIOUS
  <2> QED
    BY <2>1 DEF RoleRows
<1>3. staffRole' = [staffRole EXCEPT ![r] = row]
  BY <1>1
<1> HIDE DEF row
<1>4. /\ staffRole' \in [StaffRoles -> RoleRows] /\ staffRole'[r] = row
      /\ \A q \in StaffRoles : q # r => staffRole'[q] = staffRole[q]
  BY <1>2, <1>3, StaffInvFacts
<1>5. \A q \in StaffRoles : staffRole[q].status # "none" => staffRole'[q].status # "none"
  BY <1>2, <1>4
<1>6. ASSUME NEW u \in People, person[u].exists PROVE grants(u)' = grants(u)
  <2>1. person[u].role # r
    BY <1>1, <1>6 DEF StaffInv, PeopleTold, RoleMade
  <2> QED
    BY <1>1, <1>4, <2>1 DEF grants, grantsOf
<1>7. Cardinality(operators) = 1 => \A q \in Operators : edit'[q].pc = "idle"
  BY <1>1, WorksAlone DEF Working
<1>8. edit' = edit /\ edit \in [Operators -> Edits] /\ person' = person /\ person \in [People -> Persons] /\ operators' = operators
  BY <1>1, StaffInvFacts
<1> QED
  BY <1>1, <1>4, <1>5, <1>6, <1>7, <1>8, RoleStep

LEMMA updateStaffRoleInv == ASSUME StaffInv, NEW o \in Operators, NEW r \in StaffRoles, updateStaffRole(o, r) PROVE StaffInv'
<1>1. PICK p \in PermissionSets, on \in BOOLEAN :
        /\ Working(o)
        /\ staffRole[r].status = "live"
        /\ \A u \in Holders(r) : Free(u)
        /\ staffRole' = [staffRole EXCEPT ![r].permissions = p, ![r].active = on]
        /\ person' = [u \in People |-> IF u \in Holders(r) THEN [person[u] EXCEPT !.version = @ + 1] ELSE person[u]]
        /\ UNCHANGED <<operators, edit>>
        /\ Recorded
  BY DEF updateStaffRole
<1> DEFINE row == [staffRole[r] EXCEPT !.permissions = p, !.active = on]
<1>2. row \in RoleRows /\ row.status = "live"
  <2>1. p \in SUBSET UNION PermissionSets
    OBVIOUS
  <2> QED
    BY <1>1, <2>1, StaffInvFacts DEF RoleRows
<1>3. staffRole' = [staffRole EXCEPT ![r] = row]
  BY <1>1, StaffInvFacts
<1> HIDE DEF row
<1>4. /\ staffRole' \in [StaffRoles -> RoleRows] /\ staffRole'[r] = row
      /\ \A q \in StaffRoles : q # r => staffRole'[q] = staffRole[q]
  BY <1>2, <1>3, StaffInvFacts
<1>5. \A q \in StaffRoles : staffRole[q].status # "none" => staffRole'[q].status # "none"
  BY <1>2, <1>4
<1>6. ASSUME NEW u \in Holders(r)
      PROVE  /\ person'[u] \in Persons /\ person'[u].version # person[u].version
             /\ Free(u) /\ person'[u].exists /\ (person'[u].active <=> person[u].active)
             /\ (person'[u].checked <=> person[u].checked)
             /\ person'[u].role = person[u].role /\ person'[u].branch = person[u].branch
  <2>1. u \in People /\ Free(u) /\ person[u] \in Persons
    BY <1>1, StaffInvFacts DEF Holders
  <2>2. person[u].version + 1 \in Versions /\ person[u].version + 1 # person[u].version
    BY <2>1, NextVersion DEF Free
  <2>3. person'[u] = [person[u] EXCEPT !.version = person[u].version + 1]
    BY <1>1, <2>1
  <2> QED
    BY <2>1, <2>2, <2>3 DEF Persons, Free
<1>7. ASSUME NEW u \in People, u \notin Holders(r) PROVE person'[u] = person[u] /\ person[u] \in Persons
  BY <1>1, <1>7, StaffInvFacts
<1>8. person' \in [People -> Persons]
  <2>1. person' = [u \in People |-> person'[u]]
    BY <1>1
  <2> QED
    BY <1>6, <1>7, <2>1
<1>9. ASSUME NEW u \in People, person[u].exists, person'[u].version = person[u].version PROVE grants(u)' = grants(u)
  <2>1. u \notin Holders(r)
    BY <1>6, <1>9
  <2>2. person[u].role # r /\ person'[u] = person[u]
    BY <1>7, <1>9, <2>1 DEF Holders
  <2> QED
    BY <1>4, <2>2 DEF grants, grantsOf
<1>10. Cardinality(operators) = 1 => \A q \in Operators : edit'[q].pc = "idle"
  BY <1>1, WorksAlone DEF Working
<1>11. edit' = edit /\ edit \in [Operators -> Edits] /\ operators' = operators
  BY <1>1, StaffInvFacts
<1> QED
  BY <1>1, <1>4, <1>5, <1>6, <1>7, <1>8, <1>9, <1>10, <1>11, RoleStep

LEMMA BeginDeleteRoleInv == ASSUME StaffInv, NEW o \in Operators, NEW r \in StaffRoles, BeginDeleteRole(o, r) PROVE StaffInv'
<1> DEFINE e == [NoEdit EXCEPT !.pc = "delete", !.role = r]
<1>1. /\ Working(o) /\ staffRole[r].status = "live" /\ Holders(r) = {}
      /\ edit' = [edit EXCEPT ![o] = e]
      /\ UNCHANGED <<operators, person, staffRole, held>>
  BY DEF BeginDeleteRole
<1>2. e \in Edits /\ e.pc = "delete" /\ e.role = r
  <2>1. r \in RoleCodes
    BY DEF RoleCodes
  <2> QED
    BY <2>1, StaffInvFacts DEF Edits
<1> HIDE DEF e
<1>3. EditTold(e, person, staffRole, MaxVersion[Cardinality(operators)]) /\ StillFree(e)
  BY <1>1, <1>2 DEF EditTold, StillFree
<1> QED
  BY <1>1, <1>2, <1>3, EditStep

LEMMA deleteStaffRoleInv == ASSUME StaffInv, NEW o \in Operators, deleteStaffRole(o) PROVE StaffInv'
<1> DEFINE r == edit[o].role
           row == [staffRole[r] EXCEPT !.status = "deleted", !.permissions = {}]
<1>1. /\ edit[o].pc = "delete"
      /\ staffRole' = [staffRole EXCEPT ![r].status = "deleted", ![r].permissions = {}]
      /\ EndEdit(o) /\ UNCHANGED <<operators, person>> /\ Recorded
  BY DEF deleteStaffRole
<1>2. r \in StaffRoles /\ staffRole[r] \in RoleRows /\ o \in operators
  BY <1>1, StaffInvFacts DEF StaffInv, EditsTold
<1>3. row \in RoleRows /\ row.status = "deleted"
  <2>1. {} \in SUBSET UNION PermissionSets
    OBVIOUS
  <2> QED
    BY <1>2, <2>1 DEF RoleRows
<1>4. staffRole' = [staffRole EXCEPT ![r] = row]
  BY <1>1, <1>2, StaffInvFacts
<1> HIDE DEF row
<1>5. /\ staffRole' \in [StaffRoles -> RoleRows] /\ staffRole'[r] = row
      /\ \A q \in StaffRoles : q # r => staffRole'[q] = staffRole[q]
  BY <1>2, <1>3, <1>4, StaffInvFacts
<1>6. \A q \in StaffRoles : staffRole[q].status # "none" => staffRole'[q].status # "none"
  BY <1>3, <1>5
<1>7. ASSUME NEW u \in People, person[u].exists
      PROVE  \/ grants(u)' = grants(u)
             \/ (grants(u)' = NoGrant /\ Cardinality(operators) # 1)
  <2>1. CASE person[u].role # r
    BY <1>1, <1>5, <2>1 DEF grants, grantsOf
  <2>2. CASE person[u].role = r
    <3>1. grants(u)' = NoGrant
      BY <1>1, <1>2, <1>3, <1>5, <2>2 DEF grants, grantsOf
    <3>2. Cardinality(operators) # 1
      BY <1>1, <1>7, <2>2 DEF StaffInv, AdminsTold, StillFree, Holders
    <3> QED
      BY <3>1, <3>2
  <2> QED
    BY <2>1, <2>2
<1>8. edit' \in [Operators -> Edits] /\ \A q \in Operators : edit'[q] = edit[q] \/ edit'[q].pc = "idle"
  BY <1>1, EndsEdit
<1>9. Cardinality(operators) = 1 => \A q \in Operators : edit'[q].pc = "idle"
  BY <1>1, <1>2, WorksAlone, EndsEdit
<1>10. person' = person /\ person \in [People -> Persons] /\ operators' = operators
  BY <1>1, StaffInvFacts
<1> QED
  BY <1>1, <1>5, <1>6, <1>7, <1>8, <1>9, <1>10, RoleStep

LEMMA StaffNextInv == StaffInv /\ [StaffNext]_staffVars => StaffInv'
<1> SUFFICES ASSUME StaffInv, [StaffNext]_staffVars PROVE StaffInv'
  OBVIOUS
<1>1. CASE UNCHANGED staffVars
  BY <1>1 DEF staffVars, StaffInv, StaffTypeOK, PeopleTold, EditsTold, VersionsTold, AdminsTold, StillFree,
              assertBranchAdminFree, Holders, grants
<1>2. CASE StaffNext
  BY <1>2, createTenantUserInv, setUserActiveInv, BeginChangeRoleInv, changeUserRoleInv, BeginMoveInv,
     updateTenantUserDetailsInv, createStaffRoleInv, updateStaffRoleInv, BeginDeleteRoleInv, deleteStaffRoleInv DEF StaffNext
<1> QED
  BY <1>1, <1>2

\* At most one member.
LEMMA OneAdminAtMost == ASSUME NEW S, NEW x, S \subseteq {x} PROVE Cardinality(S) <= 1
<1>1. S \in SUBSET {x} /\ IsFiniteSet({x}) /\ Cardinality({x}) = 1
  BY FS_Singleton
<1> QED
  BY <1>1, FS_Subset

LEMMA StaffInvTells == StaffInv => OneAdmin /\ VersionTells
<1> SUFFICES ASSUME StaffInv PROVE OneAdmin /\ VersionTells
  OBVIOUS
<1>1. OneAdmin
  BY DEF StaffInv, AdminsTold, OneAdmin, AdminsClash
<1>2. ASSUME NEW u \in People
      PROVE  Cardinality(IF Cardinality(operators) = 1 THEN held[u] ELSE held[u] \ {NoGrant}) <= 1
  <2>1. CASE Cardinality(operators) = 1
    <3>1. held[u] \subseteq {grants(u)}
      BY <2>1 DEF StaffInv, VersionsTold
    <3> QED
      BY <2>1, <3>1, OneAdminAtMost
  <2>2. CASE Cardinality(operators) # 1
    <3>1. PICK h : held[u] \subseteq {h, NoGrant}
      BY DEF StaffInv, VersionsTold, HeldTold
    <3>2. held[u] \ {NoGrant} \subseteq {h}
      BY <3>1
    <3> QED
      BY <2>2, <3>2, OneAdminAtMost
  <2> QED
    BY <2>1, <2>2
<1> QED
  BY <1>1, <1>2 DEF VersionTells

-------------------------------------------------------------------------------
\* Sign-ins and sessions

FailuresPending == {b \in Browsers : asking[b].pc = "password"}

\* The lock is there with the count that led to it, and the passwords on their way when it
\* came do not take the count beyond one for each of the other browsers.
LockTold ==
  /\ account.failed >= MAX_FAILED_LOGINS <=> account.lockedUntil # Never
  /\ account.failed < MAX_FAILED_LOGINS + Cardinality(browsing.browsers)
  /\ locked => account.failed + Cardinality(FailuresPending) < MAX_FAILED_LOGINS + Cardinality(browsing.browsers)

HasToken(rows, f) == \E t \in Tokens : rows[t].family = f

\* A token of f was replaced less than the grace period before s.
FamilyWindow(rows, f, s) ==
  \E u \in Tokens : rows[u].family = f /\ rows[u].replaced /\ rows[u].revoked \in s - GRACE_TICKS + 1..s

RowsTold(rows, now) ==
  \A t \in Tokens : /\ rows[t].status # "none" => rows[t].family \in Families
                    /\ rows[t].status = "none" => rows[t].family = 0
                    /\ rows[t].replaced => rows[t].status = "revoked" /\ rows[t].revoked \in 0..now

\* A sign-in that was ended has a live token, or had one to replace later, only through
\* such a token.
EndedTold(rows, ended, now) ==
  \A f \in Families : ended[f] # Never =>
    /\ ended[f] \in 0..now /\ HasToken(rows, f)
    /\ \A t \in Tokens : /\ rows[t].family = f
                         /\ rows[t].status = "live" \/ (rows[t].replaced /\ rows[t].revoked > ended[f])
                         => FamilyWindow(rows, f, ended[f])

\* What a request in its transaction has seen; tokens issued since come from a token
\* replaced just now.
AskingTold(a, rows, now) ==
  /\ a.pc = "refresh" => a.token \in Tokens /\ rows[a.token].status # "none"
  /\ a.pc = "end" =>
       \A f \in a.families :
         /\ HasToken(rows, f)
         /\ \A t \in Tokens : rows[t].status = "live" /\ rows[t].family = f /\ t \notin a.set => FamilyWindow(rows, f, now)

SessionsInv ==
  /\ SessionsTypeOK
  /\ browsing \in [browsers : SUBSET Browsers, guesses : BOOLEAN] /\ browsing.browsers # {}
  /\ \A b \in Browsers : (asking[b].pc # "idle" => b \in browsing.browsers) /\ AskingTold(asking[b], token, clock)
  /\ RowsTold(token, clock) /\ EndedTold(token, signedOut, clock)
  /\ LockTold

LEMMA SessionsInvFacts ==
  ASSUME SessionsInv
  PROVE  /\ clock \in Times /\ clock \in Nat /\ Times \subseteq Nat
         /\ account \in [active : BOOLEAN, failed : Nat, lockedUntil : Int]
         /\ token \in [Tokens -> TokenRows] /\ signedOut \in [Families -> Times \cup {Never}]
         /\ asking \in [Browsers -> Askings] /\ NotAsking \in Askings /\ NotAsking.pc = "idle"
         /\ FailuresPending \subseteq browsing.browsers /\ IsFiniteSet(FailuresPending)
         /\ Cardinality(FailuresPending) \in Nat /\ Cardinality(browsing.browsers) \in Nat
         /\ Cardinality(browsing.browsers) >= 1 /\ Cardinality(FailuresPending) <= Cardinality(browsing.browsers)
<1>1. clock \in Times /\ clock \in Nat /\ Times \subseteq Nat
  BY SessionsAssumption DEF SessionsInv, SessionsTypeOK, Times
<1>2. NotAsking \in Askings /\ NotAsking.pc = "idle"
  BY DEF NotAsking, Askings
<1>3. browsing.browsers \in SUBSET Browsers /\ FailuresPending \in SUBSET browsing.browsers
  BY DEF SessionsInv, FailuresPending
<1>4. IsFiniteSet(browsing.browsers)
  BY <1>3, SessionsAssumption, FS_Subset
<1>5. IsFiniteSet(FailuresPending) /\ Cardinality(FailuresPending) <= Cardinality(browsing.browsers)
  BY <1>3, <1>4, FS_Subset
<1>6. Cardinality(FailuresPending) \in Nat /\ Cardinality(browsing.browsers) \in Nat
  BY <1>4, <1>5, FS_CardinalityType
<1>7. Cardinality(browsing.browsers) # 0
  BY <1>4, FS_EmptySet DEF SessionsInv
<1> QED
  BY <1>1, <1>2, <1>3, <1>5, <1>6, <1>7 DEF SessionsInv, SessionsTypeOK

LEMMA SessionsInitInv == SessionsInit => SessionsInv
<1> SUFFICES ASSUME SessionsInit PROVE SessionsInv
  OBVIOUS
<1>1. NoToken \in TokenRows /\ NoToken.status = "none" /\ NoToken.family = 0 /\ ~NoToken.replaced
  BY SessionsAssumption DEF NoToken, TokenRows, Times
<1>2. NotAsking \in Askings /\ NotAsking.pc = "idle"
  BY DEF NotAsking, Askings
<1>3. SessionsTypeOK
  BY <1>1, <1>2, SessionsAssumption DEF SessionsInit, SessionsTypeOK, Times, Never
<1>4. RowsTold(token, clock)
  BY <1>1 DEF SessionsInit, RowsTold
<1>5. EndedTold(token, signedOut, clock)
  BY DEF SessionsInit, EndedTold
<1>6. \A b \in Browsers : asking[b].pc = "idle"
  BY <1>2 DEF SessionsInit
<1>7. LockTold
  <2>1. IsFiniteSet(browsing.browsers)
    BY SessionsAssumption, FS_Subset DEF SessionsInit
  <2>2. Cardinality(browsing.browsers) \in Nat /\ Cardinality(browsing.browsers) # 0
    BY <2>1, FS_CardinalityType, FS_EmptySet DEF SessionsInit
  <2>3. account.failed = 0 /\ account.lockedUntil = Never /\ ~locked
    BY DEF SessionsInit, locked, Never
  <2> QED
    BY <2>2, <2>3, SessionsAssumption DEF LockTold
<1> QED
  BY <1>3, <1>4, <1>5, <1>6, <1>7 DEF SessionsInit, SessionsInv, AskingTold

\* Requests begin or end, none with a password while the account is locked.
LEMMA LockStays ==
  ASSUME SessionsInv, browsing' = browsing, account'.failed = account.failed, account'.lockedUntil = account.lockedUntil,
         locked' => locked, FailuresPending' \subseteq FailuresPending \/ ~locked'
  PROVE  LockTold'
<1>1. FailuresPending' \subseteq FailuresPending => Cardinality(FailuresPending') <= Cardinality(FailuresPending) /\ Cardinality(FailuresPending') \in Nat
  <2> SUFFICES ASSUME FailuresPending' \in SUBSET FailuresPending PROVE Cardinality(FailuresPending') <= Cardinality(FailuresPending) /\ Cardinality(FailuresPending') \in Nat
    OBVIOUS
  <2>1. IsFiniteSet(FailuresPending)
    BY SessionsInvFacts
  <2> QED
    BY <2>1, FS_Subset, FS_CardinalityType
<1>2. LockTold
  BY DEF SessionsInv
<1>3. account.failed \in Nat
  BY SessionsInvFacts
<1> QED
  BY <1>1, <1>2, <1>3, SessionsInvFacts, SessionsAssumption DEF LockTold

\* The tables stay and requests change.
LEMMA AskStep ==
  ASSUME SessionsInv, UNCHANGED <<browsing, clock, token, signedOut>>,
         account' \in [active : BOOLEAN, failed : Nat, lockedUntil : Int], LockTold',
         NEW b \in Browsers, NEW a \in Askings, asking' = [asking EXCEPT ![b] = a],
         a.pc # "idle" => b \in browsing.browsers, AskingTold(a, token, clock)
  PROVE  SessionsInv'
<1>1. asking' \in [Browsers -> Askings] /\ asking'[b] = a /\ \A c \in Browsers : c # b => asking'[c] = asking[c]
  BY SessionsInvFacts
<1>2. SessionsTypeOK'
  BY <1>1 DEF SessionsInv, SessionsTypeOK
<1> QED
  BY <1>1, <1>2 DEF SessionsInv

LEMMA AskPending ==
  ASSUME SessionsInv, NEW b \in Browsers, NEW a \in Askings, asking' = [asking EXCEPT ![b] = a]
  PROVE  a.pc # "password" => FailuresPending' = FailuresPending \ {b}
<1>1. asking'[b] = a /\ \A c \in Browsers : c # b => asking'[c] = asking[c]
  BY SessionsInvFacts
<1> QED
  BY <1>1 DEF FailuresPending

-------------------------------------------------------------------------------
(* Tokens. *)

\* Nothing that was replaced is forgotten, and no sign-in loses its last token.
RowsKept(rows, rows1) ==
  \A u \in Tokens : /\ rows[u].family \in Families => rows1[u].family = rows[u].family
                    /\ rows[u].replaced => rows1[u].replaced /\ rows1[u].revoked = rows[u].revoked

LEMMA WindowStays ==
  ASSUME NEW rows, NEW rows1, RowsKept(rows, rows1), NEW f \in Families, NEW s
  PROVE  /\ FamilyWindow(rows, f, s) => FamilyWindow(rows1, f, s)
         /\ HasToken(rows, f) => HasToken(rows1, f)
  BY DEF RowsKept, FamilyWindow, HasToken

\* One token more, of family f.
LEMMA TokensIssued ==
  ASSUME NEW rows \in [Tokens -> TokenRows], RowsTold(rows, clock), clock \in Times, NEW f \in Families,
         NEW rows1 \in issueTokens(rows, f)
  PROVE  /\ rows1 \in [Tokens -> TokenRows] /\ RowsTold(rows1, clock) /\ RowsKept(rows, rows1) /\ HasToken(rows1, f)
         /\ \A t \in Tokens : rows1[t] = rows[t] \/ (rows1[t].family = f /\ ~rows1[t].replaced /\ rows[t].status = "none")
<1> DEFINE new == [NoToken EXCEPT !.status = "live", !.family = f, !.issued = clock]
<1>1. PICK u \in Tokens : rows[u].status = "none" /\ rows1 = [rows EXCEPT ![u] = new]
  BY DEF issueTokens
<1>2. NoToken \in TokenRows /\ ~NoToken.replaced
  BY SessionsAssumption DEF NoToken, TokenRows, Times
<1>3. new \in TokenRows /\ new.status = "live" /\ new.family = f /\ (new.replaced <=> NoToken.replaced)
  BY <1>2 DEF TokenRows
<1> HIDE DEF new
<1>4. /\ rows1 \in [Tokens -> TokenRows] /\ rows1[u] = new
      /\ \A t \in Tokens : t # u => rows1[t] = rows[t]
  BY <1>1, <1>3
<1>5. RowsTold(rows1, clock)
  BY <1>2, <1>3, <1>4 DEF RowsTold
<1>6. 0 \notin Families
  BY SessionsAssumption DEF Families
<1>7. RowsKept(rows, rows1)
  BY <1>1, <1>4, <1>6 DEF RowsKept, RowsTold
<1> QED
  BY <1>1, <1>2, <1>3, <1>4, <1>5, <1>7 DEF HasToken

\* One more token, of a sign-in in use, or of a new one: the invariant's parts about tokens.
LEMMA IssueKeeps ==
  ASSUME NEW rows \in [Tokens -> TokenRows], RowsTold(rows, clock), clock \in Times,
         NEW ended \in [Families -> Times \cup {Never}], EndedTold(rows, ended, clock),
         NEW f \in Families, NEW rows1 \in issueTokens(rows, f),
         ended[f] # Never => FamilyWindow(rows, f, ended[f]),
         NEW a, AskingTold(a, rows, clock), a.families \subseteq Families,
         a.pc = "end" /\ f \in a.families => FamilyWindow(rows, f, clock)
  PROVE  /\ rows1 \in [Tokens -> TokenRows] /\ RowsTold(rows1, clock)
         /\ EndedTold(rows1, ended, clock) /\ AskingTold(a, rows1, clock)
<1>1. /\ rows1 \in [Tokens -> TokenRows] /\ RowsTold(rows1, clock) /\ RowsKept(rows, rows1)
      /\ \A t \in Tokens : rows1[t] = rows[t] \/ (rows1[t].family = f /\ ~rows1[t].replaced /\ rows[t].status = "none")
  BY TokensIssued
<1>2. EndedTold(rows1, ended, clock)
  <2> SUFFICES ASSUME NEW g \in Families, ended[g] # Never
               PROVE  /\ ended[g] \in 0..clock /\ HasToken(rows1, g)
                      /\ \A t \in Tokens : /\ rows1[t].family = g
                                           /\ rows1[t].status = "live" \/ (rows1[t].replaced /\ rows1[t].revoked > ended[g])
                                           => FamilyWindow(rows1, g, ended[g])
    BY DEF EndedTold
  <2>1. /\ ended[g] \in 0..clock /\ HasToken(rows, g)
        /\ \A t \in Tokens : /\ rows[t].family = g
                             /\ rows[t].status = "live" \/ (rows[t].replaced /\ rows[t].revoked > ended[g])
                             => FamilyWindow(rows, g, ended[g])
    BY DEF EndedTold
  <2>2. HasToken(rows1, g) /\ (FamilyWindow(rows, g, ended[g]) => FamilyWindow(rows1, g, ended[g]))
    BY <1>1, <2>1, WindowStays
  <2>3. ASSUME NEW t \in Tokens, rows1[t].family = g, rows1[t].status = "live" \/ (rows1[t].replaced /\ rows1[t].revoked > ended[g])
        PROVE  FamilyWindow(rows1, g, ended[g])
    <3>1. CASE rows1[t] = rows[t]
      BY <2>1, <2>2, <2>3, <3>1
    <3>2. CASE rows1[t].family = f
      BY <2>2, <2>3, <3>2
    <3> QED
      BY <1>1, <3>1, <3>2
  <2> QED
    BY <2>1, <2>2, <2>3
<1>3. AskingTold(a, rows1, clock)
  <2>1. ASSUME a.pc = "refresh" PROVE a.token \in Tokens /\ rows1[a.token].status # "none"
    BY <1>1, <2>1 DEF AskingTold
  <2>2. ASSUME a.pc = "end", NEW g \in a.families
        PROVE  /\ HasToken(rows1, g)
               /\ \A t \in Tokens : rows1[t].status = "live" /\ rows1[t].family = g /\ t \notin a.set => FamilyWindow(rows1, g, clock)
    <3>1. /\ HasToken(rows, g)
          /\ \A t \in Tokens : rows[t].status = "live" /\ rows[t].family = g /\ t \notin a.set => FamilyWindow(rows, g, clock)
      BY <2>2 DEF AskingTold
    <3>2. HasToken(rows1, g) /\ (FamilyWindow(rows, g, clock) => FamilyWindow(rows1, g, clock))
      BY <1>1, <2>2, <3>1, WindowStays
    <3>3. ASSUME NEW t \in Tokens, rows1[t].status = "live", rows1[t].family = g, t \notin a.set PROVE FamilyWindow(rows1, g, clock)
      <4>1. CASE rows1[t] = rows[t]
        BY <3>1, <3>2, <3>3, <4>1
      <4>2. CASE rows1[t].family = f
        BY <2>2, <3>2, <3>3, <4>2
      <4> QED
        BY <1>1, <4>1, <4>2
    <3> QED
      BY <3>2, <3>3
  <2> QED
    BY <2>1, <2>2 DEF AskingTold
<1> QED
  BY <1>1, <1>2, <1>3

\* The tokens change and a request is answered.
LEMMA TokenStep ==
  ASSUME SessionsInv, UNCHANGED <<browsing, clock>>,
         account' \in [active : BOOLEAN, failed : Nat, lockedUntil : Int], LockTold',
         token' \in [Tokens -> TokenRows], signedOut' \in [Families -> Times \cup {Never}],
         RowsTold(token', clock), EndedTold(token', signedOut', clock),
         NEW b \in Browsers, Answered(b), \A c \in Browsers : c # b => AskingTold(asking[c], token', clock)
  PROVE  SessionsInv'
<1>1. asking' \in [Browsers -> Askings] /\ asking'[b] = NotAsking /\ \A c \in Browsers : c # b => asking'[c] = asking[c]
  BY SessionsInvFacts DEF Answered
<1>2. SessionsTypeOK'
  BY <1>1 DEF SessionsInv, SessionsTypeOK
<1>3. AskingTold(NotAsking, token', clock) /\ NotAsking.pc = "idle"
  BY SessionsInvFacts DEF AskingTold
<1> QED
  BY <1>1, <1>2, <1>3 DEF SessionsInv

\* No passwords but fewer, and the account as it was.
LEMMA LockKept ==
  ASSUME SessionsInv, UNCHANGED <<browsing, clock>>,
         account'.failed = account.failed, account'.lockedUntil = account.lockedUntil,
         NEW b \in Browsers, NEW a \in Askings, asking' = [asking EXCEPT ![b] = a], a.pc # "password"
  PROVE  LockTold'
<1>1. FailuresPending' \subseteq FailuresPending
  BY AskPending
<1>2. locked' => locked
  BY DEF locked
<1> QED
  BY <1>1, <1>2, LockStays

LEMMA TickInv == SessionsInv /\ Tick => SessionsInv'
<1> SUFFICES ASSUME SessionsInv, Tick PROVE SessionsInv'
  OBVIOUS
<1>1. clock' = clock + 1 /\ clock < MaxClock /\ UNCHANGED <<browsing, account, token, signedOut, asking>>
      /\ \A b \in Browsers : asking[b].pc \notin {"refresh", "end"}
  BY DEF Tick
<1>2. clock' \in Times /\ clock \in Nat
  BY <1>1, SessionsInvFacts, SessionsAssumption DEF Times
<1>3. SessionsTypeOK'
  BY <1>1, <1>2 DEF SessionsInv, SessionsTypeOK
<1>4. RowsTold(token, clock')
  BY <1>1, <1>2 DEF SessionsInv, RowsTold
<1>5. EndedTold(token, signedOut, clock')
  BY <1>1, <1>2 DEF SessionsInv, EndedTold
<1>6. \A b \in Browsers : AskingTold(asking[b], token, clock')
  BY <1>1 DEF AskingTold
<1>7. LockTold'
  <2>1. FailuresPending' = FailuresPending
    BY <1>1 DEF FailuresPending
  <2>2. locked' => locked
    BY <1>1, <1>2, SessionsInvFacts DEF locked
  <2> QED
    BY <1>1, <2>1, <2>2, LockStays
<1> QED
  BY <1>1, <1>3, <1>4, <1>5, <1>6, <1>7 DEF SessionsInv

LEMMA BeginLoginInv == ASSUME SessionsInv, NEW b \in Browsers, BeginLogin(b) PROVE SessionsInv'
<1> DEFINE a == [NotAsking EXCEPT !.pc = "password", !.active = account.active]
<1>1. Asks(b) /\ ~locked /\ asking' = [asking EXCEPT ![b] = a] /\ UNCHANGED <<browsing, clock, account, token, signedOut>>
  BY DEF BeginLogin
<1>2. a \in Askings /\ a.pc = "password"
  BY SessionsInvFacts DEF Askings
<1> HIDE DEF a
<1>3. ~locked'
  BY <1>1 DEF locked
<1>4. LockTold'
  BY <1>1, <1>3, LockStays
<1>5. AskingTold(a, token, clock)
  BY <1>2 DEF AskingTold
<1> QED
  BY <1>1, <1>2, <1>4, <1>5, AskStep, SessionsInvFacts DEF Asks

LEMMA BeginRefreshInv == ASSUME SessionsInv, NEW b \in Browsers, NEW t \in Tokens, BeginRefresh(b, t) PROVE SessionsInv'
<1> DEFINE a == [NotAsking EXCEPT !.pc = "refresh", !.token = t, !.active = account.active]
<1>1. Asks(b) /\ token[t].status # "none" /\ asking' = [asking EXCEPT ![b] = a]
      /\ UNCHANGED <<browsing, clock, account, token, signedOut>>
  BY DEF BeginRefresh
<1>2. a \in Askings /\ a.pc = "refresh" /\ a.token = t
  BY SessionsInvFacts DEF Askings
<1> HIDE DEF a
<1>3. LockTold'
  BY <1>1, <1>2, LockKept
<1>4. AskingTold(a, token, clock)
  BY <1>1, <1>2 DEF AskingTold
<1> QED
  BY <1>1, <1>2, <1>3, <1>4, AskStep, SessionsInvFacts DEF Asks

\* A request to end sign-ins that sees every live token of each.
LEMMA EndStep ==
  ASSUME SessionsInv, UNCHANGED <<browsing, clock, account, token, signedOut>>,
         NEW b \in Browsers, b \in browsing.browsers,
         NEW a \in Askings, asking' = [asking EXCEPT ![b] = a], a.pc = "end",
         \A f \in a.families : HasToken(token, f),
         \A t \in Tokens : token[t].status = "live" /\ token[t].family \in a.families => t \in a.set
  PROVE  SessionsInv'
<1>1. AskingTold(a, token, clock)
  BY DEF AskingTold
<1>2. LockTold'
  BY LockKept
<1> QED
  BY <1>1, <1>2, AskStep, SessionsInvFacts

EndAsked(does, set, families) == [NotAsking EXCEPT !.pc = "end", !.does = does, !.set = set, !.families = families]

LEMMA Ending ==
  ASSUME SessionsInv, NEW does \in {"signOut", "change", "reset", "switchOff"},
         NEW set \in SUBSET Tokens, NEW families \in SUBSET Families
  PROVE  /\ EndAsked(does, set, families) \in Askings /\ EndAsked(does, set, families).pc = "end"
         /\ EndAsked(does, set, families).set = set /\ EndAsked(does, set, families).families = families
<1> DEFINE first == [NotAsking EXCEPT !.pc = "end", !.does = does]
           a == [first EXCEPT !.set = set, !.families = families]
<1>1. first \in Askings /\ first.pc = "end"
  BY SessionsInvFacts DEF Askings
<1>2. EndAsked(does, set, families) = a
  BY DEF EndAsked
<1> HIDE DEF first
<1>3. a \in Askings /\ a.pc = "end" /\ a.set = set /\ a.families = families
  BY <1>1 DEF Askings
<1> QED
  BY <1>2, <1>3

LEMMA EndingOne ==
  ASSUME SessionsInv, NEW f \in Families
  PROVE  LET a == [NotAsking EXCEPT !.pc = "end", !.set = LiveOf(f), !.families = {f}]
         IN  a \in Askings /\ a.pc = "end" /\ a.set = LiveOf(f) /\ a.families = {f}
<1> DEFINE set == LiveOf(f)
           families == {f}
<1>1. set \in SUBSET Tokens /\ families \in SUBSET Families
  BY DEF LiveOf
<1> HIDE DEF set, families
<1>2. LET a == [NotAsking EXCEPT !.pc = "end", !.set = set, !.families = families]
      IN  a \in Askings /\ a.pc = "end" /\ a.set = set /\ a.families = families
  BY <1>1, SessionsInvFacts DEF Askings
<1> QED
  BY <1>2 DEF set, families

LEMMA BeginSignOutInv == ASSUME SessionsInv, NEW b \in Browsers, NEW t \in Tokens, BeginSignOut(b, t) PROVE SessionsInv'
<1> DEFINE f == token[t].family
           a == [NotAsking EXCEPT !.pc = "end", !.set = LiveOf(f), !.families = {f}]
<1>1. Asks(b) /\ token[t].status # "none" /\ asking' = [asking EXCEPT ![b] = a]
      /\ UNCHANGED <<browsing, clock, account, token, signedOut>>
  BY DEF BeginSignOut
<1>2. f \in Families
  BY <1>1 DEF SessionsInv, RowsTold
<1>3. a \in Askings /\ a.pc = "end" /\ a.set = LiveOf(f) /\ a.families = {f}
  BY <1>2, EndingOne
<1> HIDE DEF a
<1>4. \A g \in a.families : HasToken(token, g)
  BY <1>3 DEF HasToken
<1>5. \A u \in Tokens : token[u].status = "live" /\ token[u].family \in a.families => u \in a.set
  BY <1>3 DEF LiveOf
<1> QED
  BY <1>1, <1>3, <1>4, <1>5, EndStep DEF Asks

LEMMA BeginEndAllInv == ASSUME SessionsInv, NEW b \in Browsers, BeginEndAll(b) PROVE SessionsInv'
<1> DEFINE set == {t \in Tokens : token[t].status = "live"}
           families == {f \in Families : \E t \in Tokens : token[t].family = f}
<1>1. PICK does \in {"change", "reset", "switchOff"} :
        /\ Asks(b)
        /\ asking' = [asking EXCEPT ![b] = [NotAsking EXCEPT !.pc = "end", !.does = does, !.set = set, !.families = families]]
        /\ UNCHANGED <<browsing, clock, account, token, signedOut>>
  BY DEF BeginEndAll
<1> DEFINE a == EndAsked(does, set, families)
<1>2. a \in Askings /\ a.pc = "end" /\ a.set = set /\ a.families = families
  <2>1. set \in SUBSET Tokens /\ families \in SUBSET Families /\ does \in {"signOut", "change", "reset", "switchOff"}
    OBVIOUS
  <2> HIDE DEF set, families
  <2> QED
    BY <2>1, Ending
<1>3. asking' = [asking EXCEPT ![b] = a]
  BY <1>1 DEF EndAsked
<1> HIDE DEF a
<1>4. \A g \in a.families : HasToken(token, g)
  BY <1>2 DEF HasToken
<1>5. \A u \in Tokens : token[u].status = "live" /\ token[u].family \in a.families => u \in a.set
  BY <1>2
<1> QED
  BY <1>1, <1>2, <1>3, <1>4, <1>5, EndStep DEF Asks

\* The rows a token is replaced in.
LEMMA ReplaceKeeps ==
  ASSUME SessionsInv, NEW t \in Tokens, token[t].status = "live",
         NEW rows, rows = [token EXCEPT ![t].status = "revoked", ![t].revoked = clock, ![t].replaced = TRUE]
  PROVE  /\ rows \in [Tokens -> TokenRows] /\ RowsTold(rows, clock) /\ EndedTold(rows, signedOut, clock)
         /\ \A b \in Browsers : AskingTold(asking[b], rows, clock)
         /\ FamilyWindow(rows, token[t].family, clock)
         /\ signedOut[token[t].family] # Never => FamilyWindow(rows, token[t].family, signedOut[token[t].family])
<1> DEFINE f == token[t].family
           new(r) == [token[t] EXCEPT !.status = "revoked", !.revoked = clock, !.replaced = r]
           row == new(TRUE)
<1>1. token[t] \in TokenRows /\ f \in Families /\ ~token[t].replaced /\ clock \in Times /\ clock \in Nat
  BY SessionsInvFacts DEF SessionsInv, RowsTold
<1>2. \A r \in BOOLEAN : new(r) \in TokenRows /\ new(r).status = "revoked" /\ new(r).revoked = clock
                         /\ (new(r).replaced <=> r) /\ new(r).family = f
  BY <1>1 DEF TokenRows
<1>3. rows = [token EXCEPT ![t] = row]
  BY SessionsInvFacts
<1> HIDE DEF new
<1>4. row \in TokenRows /\ row.status = "revoked" /\ row.revoked = clock /\ row.replaced /\ row.family = f
  BY <1>2, Zenon
<1> HIDE DEF row
<1>5. rows \in [Tokens -> TokenRows] /\ rows[t] = row /\ \A u \in Tokens : u # t => rows[u] = token[u]
  BY <1>3, <1>4, SessionsInvFacts, ZenonT(30)
<1>6. RowsTold(rows, clock)
  BY <1>1, <1>4, <1>5 DEF SessionsInv, RowsTold
<1>7. RowsKept(token, rows)
  BY <1>1, <1>4, <1>5 DEF RowsKept
<1>8. FamilyWindow(rows, f, clock)
  BY <1>1, <1>4, <1>5, SessionsAssumption DEF FamilyWindow
<1>9. ASSUME NEW g \in Families, signedOut[g] # Never
      PROVE  /\ signedOut[g] \in 0..clock /\ HasToken(rows, g)
             /\ \A u \in Tokens : /\ rows[u].family = g
                                  /\ rows[u].status = "live" \/ (rows[u].replaced /\ rows[u].revoked > signedOut[g])
                                  => FamilyWindow(rows, g, signedOut[g])
             /\ g = f => FamilyWindow(rows, g, signedOut[g])
  <2>1. /\ signedOut[g] \in 0..clock /\ HasToken(token, g)
        /\ \A u \in Tokens : /\ token[u].family = g
                             /\ token[u].status = "live" \/ (token[u].replaced /\ token[u].revoked > signedOut[g])
                             => FamilyWindow(token, g, signedOut[g])
    BY <1>9 DEF SessionsInv, EndedTold
  <2>2. HasToken(rows, g) /\ (FamilyWindow(token, g, signedOut[g]) => FamilyWindow(rows, g, signedOut[g]))
    BY <1>7, <2>1, WindowStays
  <2>3. g = f => FamilyWindow(rows, g, signedOut[g])
    BY <2>1, <2>2
  <2>4. ASSUME NEW u \in Tokens, rows[u].family = g, rows[u].status = "live" \/ (rows[u].replaced /\ rows[u].revoked > signedOut[g])
        PROVE  FamilyWindow(rows, g, signedOut[g])
    <3>1. CASE u = t
      BY <1>4, <1>5, <2>3, <2>4, <3>1
    <3>2. CASE u # t
      BY <1>5, <2>1, <2>2, <2>4, <3>2
    <3> QED
      BY <3>1, <3>2
  <2> QED
    BY <2>1, <2>2, <2>3, <2>4
<1>10. EndedTold(rows, signedOut, clock)
  BY <1>9 DEF EndedTold
<1>11. ASSUME NEW b \in Browsers PROVE AskingTold(asking[b], rows, clock)
  <2> DEFINE a == asking[b]
  <2>1. AskingTold(a, token, clock) /\ a.families \subseteq Families
    BY SessionsInvFacts DEF SessionsInv, Askings
  <2> HIDE DEF a
  <2>2. ASSUME a.pc = "refresh" PROVE a.token \in Tokens /\ rows[a.token].status # "none"
    BY <1>4, <1>5, <2>1, <2>2 DEF AskingTold
  <2>3. ASSUME a.pc = "end", NEW g \in a.families
        PROVE  /\ HasToken(rows, g)
               /\ \A u \in Tokens : rows[u].status = "live" /\ rows[u].family = g /\ u \notin a.set => FamilyWindow(rows, g, clock)
    <3>1. /\ HasToken(token, g)
          /\ \A u \in Tokens : token[u].status = "live" /\ token[u].family = g /\ u \notin a.set => FamilyWindow(token, g, clock)
      BY <2>1, <2>3 DEF AskingTold
    <3>2. HasToken(rows, g) /\ (FamilyWindow(token, g, clock) => FamilyWindow(rows, g, clock))
      BY <1>7, <2>1, <3>1, WindowStays
    <3> QED
      BY <1>4, <1>5, <3>1, <3>2
  <2> QED
    BY <2>2, <2>3 DEF AskingTold, a
<1> QED
  BY <1>1, <1>5, <1>6, <1>8, <1>9, <1>10, <1>11

\* A token replaced within the grace period stands for every earlier end of its sign-in.
LEMMA GraceTells ==
  ASSUME SessionsInv, NEW t \in Tokens, inGrace(t)
  PROVE  /\ token[t].family \in Families /\ FamilyWindow(token, token[t].family, clock)
         /\ signedOut[token[t].family] # Never => FamilyWindow(token, token[t].family, signedOut[token[t].family])
<1> DEFINE f == token[t].family
<1>1. token[t].replaced /\ token[t].revoked > clock - GRACE_TICKS /\ token[t].revoked \in 0..clock /\ f \in Families
      /\ clock \in Nat /\ GRACE_TICKS \in Nat
  BY SessionsInvFacts, SessionsAssumption DEF SessionsInv, RowsTold, inGrace
<1>2. FamilyWindow(token, f, clock)
  BY <1>1 DEF FamilyWindow
<1>3. ASSUME signedOut[f] # Never PROVE FamilyWindow(token, f, signedOut[f])
  <2>1. signedOut[f] \in 0..clock
    BY <1>1, <1>3 DEF SessionsInv, EndedTold
  <2>2. CASE token[t].revoked > signedOut[f]
    BY <1>1, <1>3, <2>2 DEF SessionsInv, EndedTold
  <2>3. CASE token[t].revoked <= signedOut[f]
    <3>1. token[t].revoked \in signedOut[f] - GRACE_TICKS + 1..signedOut[f]
      BY <1>1, <2>1, <2>3
    <3> QED
      BY <1>1, <3>1 DEF FamilyWindow
  <2> QED
    BY <1>1, <2>1, <2>2, <2>3
<1> QED
  BY <1>1, <1>2, <1>3

LEMMA refreshSessionInv == ASSUME SessionsInv, NEW b \in Browsers, refreshSession(b) PROVE SessionsInv'
<1> DEFINE t == asking[b].token
           f == token[t].family
           rows == [token EXCEPT ![t].status = "revoked", ![t].revoked = clock, ![t].replaced = TRUE]
<1>1. asking[b].pc = "refresh" /\ UNCHANGED <<browsing, clock, account, signedOut>>
  BY DEF refreshSession
<1>2. t \in Tokens /\ token[t].status # "none" /\ b \in browsing.browsers /\ f \in Families
  BY <1>1 DEF SessionsInv, AskingTold, RowsTold
<1>3. account \in [active : BOOLEAN, failed : Nat, lockedUntil : Int] /\ clock \in Times
      /\ token \in [Tokens -> TokenRows] /\ signedOut \in [Families -> Times \cup {Never}]
      /\ RowsTold(token, clock) /\ EndedTold(token, signedOut, clock)
      /\ \A c \in Browsers : AskingTold(asking[c], token, clock) /\ asking[c].families \subseteq Families
  BY SessionsInvFacts DEF SessionsInv, Askings
<1>4. CASE /\ asking' = [asking EXCEPT ![b] = [NotAsking EXCEPT !.pc = "end", !.set = LiveOf(f), !.families = {f}]]
           /\ UNCHANGED token
  <2> DEFINE a == [NotAsking EXCEPT !.pc = "end", !.set = LiveOf(f), !.families = {f}]
  <2>1. a \in Askings /\ a.pc = "end" /\ a.set = LiveOf(f) /\ a.families = {f}
    BY <1>2, EndingOne
  <2>2. asking' = [asking EXCEPT ![b] = a]
    BY <1>4
  <2> HIDE DEF a
  <2>3. \A g \in a.families : HasToken(token, g)
    BY <1>2, <2>1 DEF HasToken
  <2>4. \A u \in Tokens : token[u].status = "live" /\ token[u].family \in a.families => u \in a.set
    BY <2>1 DEF LiveOf
  <2> QED
    BY <1>1, <1>2, <1>4, <2>1, <2>2, <2>3, <2>4, EndStep
<1>a. Answered(b) => LockTold'
  BY <1>1, LockKept, SessionsInvFacts DEF Answered
<1>5. CASE inGrace(t) /\ token' \in issueTokens(token, f) /\ Answered(b)
  <2>1. FamilyWindow(token, f, clock) /\ (signedOut[f] # Never => FamilyWindow(token, f, signedOut[f]))
    BY <1>2, <1>5, GraceTells
  <2> HIDE DEF f
  <2>2. ASSUME NEW c \in Browsers
        PROVE  /\ token' \in [Tokens -> TokenRows] /\ RowsTold(token', clock)
               /\ EndedTold(token', signedOut, clock) /\ AskingTold(asking[c], token', clock)
    BY <1>2, <1>3, <1>5, <2>1, IssueKeeps
  <2> QED
    BY <1>1, <1>3, <1>5, <1>a, <2>2, TokenStep
<1>6. CASE /\ ~token[t].replaced /\ usable(t)
           /\ token' \in issueTokens(rows, f)
           /\ Answered(b)
  <2>1. token[t].status = "live"
    BY <1>6 DEF usable
  <2>2. /\ rows \in [Tokens -> TokenRows] /\ RowsTold(rows, clock) /\ EndedTold(rows, signedOut, clock)
        /\ \A c \in Browsers : AskingTold(asking[c], rows, clock)
        /\ FamilyWindow(rows, f, clock) /\ (signedOut[f] # Never => FamilyWindow(rows, f, signedOut[f]))
    BY <1>2, <2>1, ReplaceKeeps
  <2> HIDE DEF f, rows
  <2>3. ASSUME NEW c \in Browsers
        PROVE  /\ token' \in [Tokens -> TokenRows] /\ RowsTold(token', clock)
               /\ EndedTold(token', signedOut, clock) /\ AskingTold(asking[c], token', clock)
    BY <1>2, <1>3, <1>6, <2>2, IssueKeeps
  <2> QED
    BY <1>1, <1>3, <1>6, <1>a, <2>3, TokenStep
<1>7. CASE Answered(b) /\ UNCHANGED token
  BY <1>1, <1>3, <1>7, <1>a, TokenStep
<1> QED
  BY <1>4, <1>5, <1>6, <1>7, Zenon DEF refreshSession

-------------------------------------------------------------------------------
(* Ending sign-ins. *)

LEMMA RevokeKeeps ==
  ASSUME SessionsInv, NEW b \in Browsers, revoke(b)
  PROVE  /\ Revoked(b) \in [Tokens -> TokenRows] /\ RowsTold(Revoked(b), clock)
         /\ signedOut' \in [Families -> Times \cup {Never}] /\ EndedTold(Revoked(b), signedOut', clock)
         /\ \A c \in Browsers : AskingTold(asking[c], Revoked(b), clock)
         /\ \A u \in Tokens : Revoked(b)[u].family = token[u].family
<1> DEFINE rows == Revoked(b)
           set == asking[b].set
           families == asking[b].families
<1>1. /\ asking[b].pc = "end" /\ Answered(b) /\ UNCHANGED <<browsing, clock>>
      /\ signedOut' = [f \in Families |-> IF f \in families THEN clock ELSE signedOut[f]]
  BY DEF revoke
<1>2. clock \in Times /\ clock \in Nat /\ token \in [Tokens -> TokenRows] /\ signedOut \in [Families -> Times \cup {Never}]
      /\ RowsTold(token, clock)
  BY SessionsInvFacts DEF SessionsInv
<1>3. ASSUME NEW u \in Tokens
      PROVE  /\ rows[u] \in TokenRows /\ rows[u].family = token[u].family /\ (rows[u].replaced <=> token[u].replaced)
             /\ rows[u] = token[u] \/ (token[u].status = "live" /\ rows[u].status = "revoked" /\ u \in set)
             /\ u \in set => rows[u].status # "live"
  <2>1. CASE u \in set /\ token[u].status = "live"
    <3>1. rows[u] = [token[u] EXCEPT !.status = "revoked", !.revoked = clock]
      BY <2>1 DEF Revoked
    <3> QED
      BY <1>2, <2>1, <3>1 DEF TokenRows
  <2>2. CASE ~(u \in set /\ token[u].status = "live")
    <3>1. rows[u] = token[u]
      BY <2>2 DEF Revoked
    <3> QED
      BY <1>2, <2>2, <3>1
  <2> QED
    BY <2>1, <2>2
<1>4. rows \in [Tokens -> TokenRows]
  <2>1. rows = [u \in Tokens |-> rows[u]]
    BY DEF Revoked
  <2> HIDE DEF rows
  <2> QED
    BY <1>3, <2>1
<1> HIDE DEF rows, set, families
<1>5. RowsTold(rows, clock)
  BY <1>2, <1>3 DEF RowsTold
<1>6. RowsKept(token, rows)
  BY <1>2, <1>3 DEF RowsKept, RowsTold
<1>7. signedOut' \in [Families -> Times \cup {Never}]
  BY <1>1, <1>2
<1>8. EndedTold(rows, signedOut', clock)
  <2> SUFFICES ASSUME NEW g \in Families, signedOut'[g] # Never
               PROVE  /\ signedOut'[g] \in 0..clock /\ HasToken(rows, g)
                      /\ \A u \in Tokens : /\ rows[u].family = g
                                           /\ rows[u].status = "live" \/ (rows[u].replaced /\ rows[u].revoked > signedOut'[g])
                                           => FamilyWindow(rows, g, signedOut'[g])
    BY DEF EndedTold
  <2>1. CASE g \in families
    <3>1. signedOut'[g] = clock
      BY <1>1, <2>1
    <3>2. /\ HasToken(token, g)
          /\ \A u \in Tokens : token[u].status = "live" /\ token[u].family = g /\ u \notin set => FamilyWindow(token, g, clock)
      BY <1>1, <2>1 DEF SessionsInv, AskingTold, set, families
    <3>3. HasToken(rows, g) /\ (FamilyWindow(token, g, clock) => FamilyWindow(rows, g, clock))
      BY <1>6, <3>2, WindowStays
    <3>4. ASSUME NEW u \in Tokens, rows[u].family = g, rows[u].status = "live" \/ (rows[u].replaced /\ rows[u].revoked > clock)
          PROVE  FamilyWindow(rows, g, clock)
      <4>1. rows[u].status = "live"
        BY <1>2, <1>5, <3>4 DEF RowsTold
      <4>2. u \notin set /\ token[u].status = "live" /\ token[u].family = g
        BY <1>3, <3>4, <4>1
      <4> QED
        BY <3>2, <3>3, <4>2
    <3> QED
      BY <1>2, <3>1, <3>3, <3>4
  <2>2. CASE g \notin families
    <3>1. signedOut'[g] = signedOut[g]
      BY <1>1, <2>2
    <3>2. /\ signedOut[g] \in 0..clock /\ HasToken(token, g)
          /\ \A u \in Tokens : /\ token[u].family = g
                               /\ token[u].status = "live" \/ (token[u].replaced /\ token[u].revoked > signedOut[g])
                               => FamilyWindow(token, g, signedOut[g])
      BY <3>1 DEF SessionsInv, EndedTold
    <3>3. HasToken(rows, g) /\ (FamilyWindow(token, g, signedOut[g]) => FamilyWindow(rows, g, signedOut[g]))
      BY <1>6, <3>2, WindowStays
    <3>4. ASSUME NEW u \in Tokens, rows[u].family = g, rows[u].status = "live" \/ (rows[u].replaced /\ rows[u].revoked > signedOut[g])
          PROVE  FamilyWindow(rows, g, signedOut[g])
      <4>1. CASE rows[u] = token[u]
        BY <3>2, <3>3, <3>4, <4>1
      <4>2. CASE token[u].status = "live"
        BY <1>3, <3>2, <3>3, <3>4, <4>2
      <4> QED
        BY <1>3, <4>1, <4>2
    <3> QED
      BY <3>1, <3>2, <3>3, <3>4
  <2> QED
    BY <2>1, <2>2
<1>9. ASSUME NEW c \in Browsers PROVE AskingTold(asking[c], rows, clock)
  <2> DEFINE a == asking[c]
  <2>1. AskingTold(a, token, clock) /\ a.families \subseteq Families
    BY SessionsInvFacts DEF SessionsInv, Askings
  <2> HIDE DEF a
  <2>2. ASSUME a.pc = "refresh" PROVE a.token \in Tokens /\ rows[a.token].status # "none"
    BY <1>3, <2>1, <2>2 DEF AskingTold
  <2>3. ASSUME a.pc = "end", NEW g \in a.families
        PROVE  /\ HasToken(rows, g)
               /\ \A u \in Tokens : rows[u].status = "live" /\ rows[u].family = g /\ u \notin a.set => FamilyWindow(rows, g, clock)
    <3>1. /\ HasToken(token, g)
          /\ \A u \in Tokens : token[u].status = "live" /\ token[u].family = g /\ u \notin a.set => FamilyWindow(token, g, clock)
      BY <2>1, <2>3 DEF AskingTold
    <3>2. HasToken(rows, g) /\ (FamilyWindow(token, g, clock) => FamilyWindow(rows, g, clock))
      BY <1>6, <2>1, <3>1, WindowStays
    <3> QED
      BY <1>3, <3>1, <3>2
  <2> QED
    BY <2>2, <2>3 DEF AskingTold, a
<1> QED
  BY <1>3, <1>4, <1>5, <1>7, <1>8, <1>9 DEF rows

LEMMA RevokeAnswers == ASSUME SessionsInv, NEW b \in Browsers, revoke(b) PROVE Answered(b) /\ UNCHANGED <<browsing, clock>>
  BY DEF revoke

LEMMA RevokeLock ==
  ASSUME SessionsInv, NEW b \in Browsers, revoke(b), account'.failed = account.failed, account'.lockedUntil = account.lockedUntil
  PROVE  LockTold'
  BY RevokeAnswers, LockKept, SessionsInvFacts DEF Answered

\* Nobody is locked out, or near it.
LEMMA LockForgotten ==
  ASSUME SessionsInv, browsing' = browsing, account'.failed = 0, account'.lockedUntil = Never, clock' = clock
  PROVE  LockTold'
<1>1. ~locked'
  BY SessionsInvFacts DEF locked, Never
<1> QED
  BY <1>1, SessionsInvFacts, SessionsAssumption DEF LockTold

LEMMA endFamiliesInv == ASSUME SessionsInv, NEW b \in Browsers, endFamilies(b) PROVE SessionsInv'
<1>1. revoke(b) /\ token' = Revoked(b) /\ UNCHANGED account
  BY DEF endFamilies
<1>2. LockTold'
  BY <1>1, RevokeLock
<1> QED
  BY <1>1, <1>2, RevokeAnswers, RevokeKeeps, TokenStep, SessionsInvFacts

LEMMA switchOffInv == ASSUME SessionsInv, NEW b \in Browsers, switchOff(b) PROVE SessionsInv'
<1>1. revoke(b) /\ token' = Revoked(b) /\ account' = [account EXCEPT !.active = FALSE]
  BY DEF switchOff
<1>2. /\ account'.failed = account.failed /\ account'.lockedUntil = account.lockedUntil
      /\ account' \in [active : BOOLEAN, failed : Nat, lockedUntil : Int]
  BY <1>1, SessionsInvFacts
<1>3. LockTold'
  BY <1>1, <1>2, RevokeLock
<1> QED
  BY <1>1, <1>2, <1>3, RevokeAnswers, RevokeKeeps, TokenStep

\* A row forgotten every failure is still a row.
LEMMA Forgiven == ASSUME SessionsInv, NEW row, row = [account EXCEPT !.failed = 0, !.lockedUntil = Never]
  PROVE row.failed = 0 /\ row.lockedUntil = Never /\ row \in [active : BOOLEAN, failed : Nat, lockedUntil : Int]
<1>1. Never \in Int
  BY DEF Never
<1> QED
  BY <1>1, SessionsInvFacts

LEMMA resetTenantUserPasswordInv == ASSUME SessionsInv, NEW b \in Browsers, resetTenantUserPassword(b) PROVE SessionsInv'
<1>1. revoke(b) /\ token' = Revoked(b) /\ account' = [account EXCEPT !.failed = 0, !.lockedUntil = Never]
  BY DEF resetTenantUserPassword
<1>2. /\ account'.failed = 0 /\ account'.lockedUntil = Never
      /\ account' \in [active : BOOLEAN, failed : Nat, lockedUntil : Int]
  BY <1>1, Forgiven
<1>3. LockTold'
  BY <1>1, <1>2, LockForgotten, RevokeAnswers
<1> QED
  BY <1>1, <1>2, <1>3, RevokeAnswers, RevokeKeeps, TokenStep

\* A sign-in nobody has made yet has no tokens.
LEMMA NewFamily == ASSUME SessionsInv, NEW f \in NextFamily PROVE f \in Families /\ \A t \in Tokens : token[t].family # f
<1>1. f \in Families /\ f \in Int /\ \A t \in Tokens : token[t].family < f
  BY SessionsAssumption DEF NextFamily, Families
<1>2. \A t \in Tokens : token[t].family \in Int
  BY SessionsInvFacts, SessionsAssumption DEF TokenRows, Families
<1> QED
  BY <1>1, <1>2

\* A token of a new sign-in.
LEMMA SignInKeeps ==
  ASSUME SessionsInv, NEW rows \in [Tokens -> TokenRows], RowsTold(rows, clock),
         NEW ended \in [Families -> Times \cup {Never}], EndedTold(rows, ended, clock),
         NEW f \in NextFamily, \A t \in Tokens : rows[t].family = token[t].family,
         NEW rows1 \in issueTokens(rows, f),
         \A c \in Browsers : AskingTold(asking[c], rows, clock)
  PROVE  /\ rows1 \in [Tokens -> TokenRows] /\ RowsTold(rows1, clock) /\ EndedTold(rows1, ended, clock)
         /\ \A c \in Browsers : AskingTold(asking[c], rows1, clock)
<1>1. f \in Families /\ ~HasToken(rows, f)
  BY NewFamily DEF HasToken
<1>2. ended[f] = Never
  BY <1>1 DEF EndedTold
<1>3. clock \in Times /\ \A c \in Browsers : asking[c].families \subseteq Families
  BY SessionsInvFacts DEF Askings
<1>4. \A c \in Browsers : asking[c].pc = "end" => f \notin asking[c].families
  BY <1>1 DEF AskingTold
<1>5. ASSUME NEW c \in Browsers
      PROVE  /\ rows1 \in [Tokens -> TokenRows] /\ RowsTold(rows1, clock) /\ EndedTold(rows1, ended, clock)
             /\ AskingTold(asking[c], rows1, clock)
  BY <1>1, <1>2, <1>3, <1>4, IssueKeeps
<1>6. AskingTold(NotAsking, rows, clock) /\ NotAsking.families \subseteq Families /\ NotAsking.pc = "idle"
  BY DEF AskingTold, NotAsking
<1>7. rows1 \in [Tokens -> TokenRows] /\ RowsTold(rows1, clock) /\ EndedTold(rows1, ended, clock)
  BY <1>1, <1>2, <1>3, <1>6, IssueKeeps
<1> QED
  BY <1>5, <1>7

LEMMA changeOwnPasswordInv == ASSUME SessionsInv, NEW b \in Browsers, changeOwnPassword(b) PROVE SessionsInv'
<1>1. revoke(b) /\ UNCHANGED account
  BY DEF changeOwnPassword
<1>2. PICK f \in NextFamily : token' \in issueTokens(Revoked(b), f)
  BY DEF changeOwnPassword
<1>3. LockTold'
  BY <1>1, RevokeLock
<1>4. /\ token' \in [Tokens -> TokenRows] /\ RowsTold(token', clock) /\ EndedTold(token', signedOut', clock)
      /\ \A c \in Browsers : AskingTold(asking[c], token', clock)
  <2> DEFINE rows == Revoked(b)
             ended == signedOut'
             rows1 == token'
  <2>1. /\ rows \in [Tokens -> TokenRows] /\ RowsTold(rows, clock)
        /\ ended \in [Families -> Times \cup {Never}] /\ EndedTold(rows, ended, clock)
        /\ \A c \in Browsers : AskingTold(asking[c], rows, clock)
        /\ \A t \in Tokens : rows[t].family = token[t].family
    BY <1>1, RevokeKeeps
  <2>2. rows1 \in issueTokens(rows, f)
    BY <1>2
  <2> HIDE DEF rows, ended, rows1
  <2>3. /\ rows1 \in [Tokens -> TokenRows] /\ RowsTold(rows1, clock) /\ EndedTold(rows1, ended, clock)
        /\ \A c \in Browsers : AskingTold(asking[c], rows1, clock)
    BY <2>1, <2>2, SignInKeeps
  <2> QED
    BY <2>3 DEF ended, rows1
<1> QED
  BY <1>1, <1>3, <1>4, RevokeAnswers, RevokeKeeps, TokenStep, SessionsInvFacts

LEMMA loginInv == ASSUME SessionsInv, NEW b \in Browsers, login(b) PROVE SessionsInv'
<1>1. account' = [account EXCEPT !.failed = 0, !.lockedUntil = Never] /\ Answered(b) /\ UNCHANGED <<browsing, clock, signedOut>>
  BY DEF login
<1>2. PICK f \in NextFamily : token' \in issueTokens(token, f)
  BY DEF login
<1>3. /\ account'.failed = 0 /\ account'.lockedUntil = Never
      /\ account' \in [active : BOOLEAN, failed : Nat, lockedUntil : Int]
  BY <1>1, Forgiven
<1>4. LockTold'
  BY <1>1, <1>3, LockForgotten
<1>5. /\ token' \in [Tokens -> TokenRows] /\ RowsTold(token', clock) /\ EndedTold(token', signedOut, clock)
      /\ \A c \in Browsers : AskingTold(asking[c], token', clock)
  <2> DEFINE rows1 == token'
  <2>1. rows1 \in issueTokens(token, f)
    BY <1>2
  <2>2. token \in [Tokens -> TokenRows] /\ RowsTold(token, clock) /\ signedOut \in [Families -> Times \cup {Never}]
        /\ EndedTold(token, signedOut, clock) /\ \A c \in Browsers : AskingTold(asking[c], token, clock)
    BY SessionsInvFacts DEF SessionsInv
  <2> HIDE DEF rows1
  <2>3. /\ rows1 \in [Tokens -> TokenRows] /\ RowsTold(rows1, clock) /\ EndedTold(rows1, signedOut, clock)
        /\ \A c \in Browsers : AskingTold(asking[c], rows1, clock)
    BY <2>1, <2>2, SignInKeeps
  <2> QED
    BY <2>3 DEF rows1
<1> QED
  BY <1>1, <1>3, <1>4, <1>5, TokenStep, SessionsInvFacts

LEMMA recordFailedLoginInv == ASSUME SessionsInv, NEW b \in Browsers, recordFailedLogin(b) PROVE SessionsInv'
<1> DEFINE until == IF failures >= MAX_FAILED_LOGINS THEN clock + LOCK_TICKS
                    ELSE IF account.lockedUntil # Never /\ ~locked THEN Never ELSE account.lockedUntil
           n == Cardinality(browsing.browsers)
           p == Cardinality(FailuresPending)
           p1 == Cardinality(FailuresPending')
<1>1. /\ asking[b].pc = "password" /\ account' = [account EXCEPT !.failed = failures, !.lockedUntil = until]
      /\ Answered(b) /\ UNCHANGED <<browsing, clock, token, signedOut>>
  BY DEF recordFailedLogin
<1>2. account.failed \in Nat /\ account.lockedUntil \in Int /\ failures \in Nat /\ until \in Int /\ clock \in Nat
  <2>1. account.failed \in Nat /\ account.lockedUntil \in Int /\ clock \in Nat
    BY SessionsInvFacts
  <2>2. failures \in Nat
    BY <2>1 DEF failures
  <2> QED
    BY <2>1, <2>2, SessionsAssumption DEF Never
<1>3. account'.failed = failures /\ account'.lockedUntil = until /\ account' \in [active : BOOLEAN, failed : Nat, lockedUntil : Int]
  <2> HIDE DEF until
  <2> QED
    BY <1>1, <1>2, SessionsInvFacts
<1>4. p1 = p - 1 /\ p1 \in Nat /\ p \in Nat /\ n \in Nat /\ p <= n /\ n >= 1
  <2>1. FailuresPending' = FailuresPending \ {b} /\ b \in FailuresPending
    BY <1>1, AskPending, SessionsInvFacts DEF Answered, FailuresPending
  <2>2. IsFiniteSet(FailuresPending)
    BY SessionsInvFacts
  <2>3. p1 = p - 1 /\ IsFiniteSet(FailuresPending')
    BY <2>1, <2>2, FS_RemoveElement
  <2>4. p1 \in Nat
    BY <2>3, FS_CardinalityType
  <2> QED
    BY <2>3, <2>4, SessionsInvFacts
<1>5. /\ account.failed >= MAX_FAILED_LOGINS <=> account.lockedUntil # Never
      /\ account.failed < MAX_FAILED_LOGINS + n
      /\ locked => account.failed + p < MAX_FAILED_LOGINS + n
  BY DEF SessionsInv, LockTold
<1>6. locked' <=> until > clock
  BY <1>1, <1>3 DEF locked
<1>7. MAX_FAILED_LOGINS \in Nat /\ MAX_FAILED_LOGINS >= 1 /\ clock + LOCK_TICKS # Never
  BY <1>2, SessionsAssumption DEF Never
<1> HIDE DEF n, p, p1
<1>8. /\ failures >= MAX_FAILED_LOGINS <=> until # Never
      /\ failures < MAX_FAILED_LOGINS + n
      /\ until > clock => failures + p1 < MAX_FAILED_LOGINS + n
  <2>1. CASE account.lockedUntil # Never /\ ~locked
    <3>1. failures = 1
      BY <2>1 DEF failures
    <3>2. until = IF failures >= MAX_FAILED_LOGINS THEN clock + LOCK_TICKS ELSE Never
      BY <2>1
    <3>3. ~(Never > clock)
      BY <1>2 DEF Never
    <3> HIDE DEF until
    <3>4. 1 + p1 < 1 + n /\ 1 < MAX_FAILED_LOGINS + n
      BY <1>4, <1>7
    <3> QED
      BY <1>4, <1>7, <3>1, <3>2, <3>3, <3>4
  <2>2. CASE locked
    <3>1. failures = account.failed + 1 /\ account.lockedUntil # Never
      BY <1>2, <2>2 DEF failures, locked, Never
    <3>2. account.failed >= MAX_FAILED_LOGINS
      BY <1>5, <3>1
    <3>3. failures >= MAX_FAILED_LOGINS
      BY <1>2, <1>7, <3>1, <3>2
    <3>4. until = clock + LOCK_TICKS
      BY <3>3
    <3> HIDE DEF until
    <3>5. failures + p1 < MAX_FAILED_LOGINS + n /\ failures < MAX_FAILED_LOGINS + n
      BY <1>2, <1>4, <1>5, <1>7, <2>2, <3>1
    <3> QED
      BY <1>7, <3>3, <3>4, <3>5
  <2>3. CASE account.lockedUntil = Never
    <3>1. failures = account.failed + 1 /\ ~(Never > clock)
      BY <1>2, <2>3 DEF failures, Never
    <3>2. account.failed < MAX_FAILED_LOGINS
      BY <1>2, <1>5, <1>7, <2>3
    <3>3. until = IF failures >= MAX_FAILED_LOGINS THEN clock + LOCK_TICKS ELSE Never
      BY <2>3
    <3> HIDE DEF until
    <3>4. failures <= MAX_FAILED_LOGINS /\ failures + p1 < MAX_FAILED_LOGINS + n
      BY <1>2, <1>4, <1>7, <3>1, <3>2
    <3>5. failures < MAX_FAILED_LOGINS + n
      BY <1>2, <1>4, <1>7, <3>4
    <3> QED
      BY <1>7, <3>1, <3>3, <3>4, <3>5
  <2> QED
    BY <2>1, <2>2, <2>3
<1>9. LockTold'
  BY <1>1, <1>3, <1>6, <1>8 DEF LockTold, n, p1
<1>10. /\ token' \in [Tokens -> TokenRows] /\ signedOut' \in [Families -> Times \cup {Never}]
       /\ RowsTold(token', clock) /\ EndedTold(token', signedOut', clock)
       /\ \A c \in Browsers : AskingTold(asking[c], token', clock)
  BY <1>1, SessionsInvFacts DEF SessionsInv
<1> QED
  BY <1>1, <1>3, <1>9, <1>10, TokenStep

LEMMA SwitchOnInv == ASSUME SessionsInv, NEW b \in Browsers, SwitchOn(b) PROVE SessionsInv'
<1>1. account' = [account EXCEPT !.active = TRUE] /\ UNCHANGED <<browsing, clock, token, signedOut, asking>>
  BY DEF SwitchOn
<1>2. /\ account'.failed = account.failed /\ account'.lockedUntil = account.lockedUntil
      /\ account' \in [active : BOOLEAN, failed : Nat, lockedUntil : Int]
  BY <1>1, SessionsInvFacts
<1>3. FailuresPending' = FailuresPending /\ (locked' => locked)
  BY <1>1, <1>2 DEF FailuresPending, locked
<1>4. LockTold'
  BY <1>1, <1>2, <1>3, LockStays
<1> QED
  BY <1>1, <1>2, <1>4 DEF SessionsInv, SessionsTypeOK

LEMMA SessionsNextInv == SessionsInv /\ [SessionsNext]_sessionVars => SessionsInv'
<1> SUFFICES ASSUME SessionsInv, [SessionsNext]_sessionVars PROVE SessionsInv'
  OBVIOUS
<1>1. CASE UNCHANGED sessionVars
  BY <1>1 DEF sessionVars, SessionsInv, SessionsTypeOK, LockTold, locked, FailuresPending
<1>2. CASE SessionsNext
  BY <1>2, TickInv, BeginLoginInv, recordFailedLoginInv, loginInv, BeginRefreshInv, refreshSessionInv, BeginSignOutInv,
     BeginEndAllInv, endFamiliesInv, switchOffInv, changeOwnPasswordInv, resetTenantUserPasswordInv, SwitchOnInv DEF SessionsNext
<1> QED
  BY <1>1, <1>2

LEMMA SessionsInvCloses == SessionsInv => SignedOutStays /\ Lockout
<1> SUFFICES ASSUME SessionsInv PROVE SignedOutStays /\ Lockout
  OBVIOUS
<1>1. ASSUME NEW t \in Tokens, token[t].status = "live", signedOut[token[t].family] # Never
      PROVE  \E u \in Tokens : /\ token[u].family = token[t].family /\ token[u].replaced
                               /\ token[u].revoked \in signedOut[token[t].family] - GRACE_TICKS + 1..signedOut[token[t].family]
  <2>1. token[t].family \in Families
    BY <1>1 DEF SessionsInv, RowsTold
  <2> QED
    BY <1>1, <2>1 DEF SessionsInv, EndedTold, FamilyWindow
<1>2. Lockout
  <2>1. account.lockedUntil \in Int /\ clock \in Nat
    BY SessionsInvFacts
  <2>2. locked => account.lockedUntil # Never
    BY <2>1 DEF locked, Never
  <2> QED
    BY <2>2 DEF SessionsInv, LockTold, Lockout
<1> QED
  BY <1>1, <1>2 DEF SignedOutStays

-------------------------------------------------------------------------------
\* Prices

LEMMA IntProducts == \A a, b \in Int : a * b \in Int
OBVIOUS

\* What is rounded away is no more than half of the divisor, and nothing below nought comes of
\* what is not.
LEMMA RoundedNear ==
  ASSUME NEW a \in Int, NEW b \in Nat
  PROVE  /\ Rounded(a, b) \in Int
         /\ b > 0 => 2 * (Rounded(a, b) * b - a) <= b /\ -b <= 2 * (Rounded(a, b) * b - a)
         /\ b > 0 /\ a >= 0 => Rounded(a, b) >= 0 /\ -b < 2 * (Rounded(a, b) * b - a)
<1>1. CASE b = 0
  BY <1>1 DEF Rounded
<1>2. CASE b > 0
  <2> DEFINE d == 2 * b
             up(x) == (2 * x + b) \div d
  <2>1. d \in Nat /\ d > 0
    BY <1>2
  <2>2. ASSUME NEW x \in Nat
        PROVE  up(x) \in Nat /\ 2 * (up(x) * b - x) <= b /\ -b < 2 * (up(x) * b - x)
    <3> DEFINE q == up(x)
               y == 2 * x + b
    <3>1. y \in Nat
      OBVIOUS
    <3>2. q = y \div d
      OBVIOUS
    <3> HIDE DEF q, y, d
    <3>3. q \in Nat /\ d * q <= y /\ y < d * q + d
      BY <2>1, <3>1, <3>2
    <3>4. d * q = 2 * (q * b)
      BY <3>3 DEF d
    <3>5. q * b \in Nat
      BY <3>3
    <3> DEFINE m == q * b
    <3>6. m \in Nat /\ d * q = 2 * m
      BY <3>4, <3>5
    <3> HIDE DEF m
    <3>7. 2 * m <= 2 * x + b /\ 2 * x + b < 2 * m + 2 * b
      BY <3>3, <3>6 DEF y, d
    <3>8. 2 * (m - x) <= b /\ -b < 2 * (m - x)
      BY <3>6, <3>7
    <3> QED
      BY <3>3, <3>8 DEF m, q
  <2> DEFINE r == Rounded(a, b)
  <2>3. CASE a >= 0
    <3>1. r = up(a) /\ a \in Nat
      BY <1>2, <2>3 DEF Rounded
    <3> HIDE DEF up, r
    <3>2. r \in Int /\ r >= 0 /\ 2 * (r * b - a) <= b /\ -b < 2 * (r * b - a)
      BY <2>2, <3>1
    <3> QED
      BY <3>2 DEF r
  <2>4. CASE a < 0
    <3> DEFINE x == -a
    <3>1. x \in Nat /\ a = -x
      BY <2>4
    <3>2. r = -((b - 2 * a) \div d) /\ b - 2 * a = 2 * x + b
      BY <1>2, <2>4 DEF Rounded
    <3>3. r = -up(x)
      BY <3>2
    <3> HIDE DEF up, r, x
    <3>4. up(x) \in Nat /\ 2 * (up(x) * b - x) <= b /\ -b < 2 * (up(x) * b - x)
      BY <2>2, <3>1
    <3>5. r * b = -(up(x) * b) /\ r \in Int
      BY <3>3, <3>4
    <3> DEFINE m == up(x) * b
    <3>6. m \in Int /\ r * b = -m
      BY <3>4, <3>5
    <3>7. 2 * (m - x) <= b /\ -b < 2 * (m - x)
      BY <3>4
    <3> HIDE DEF m
    <3>8. 2 * (r * b - a) <= b /\ -b <= 2 * (r * b - a)
      BY <3>1, <3>6, <3>7
    <3> QED
      BY <2>4, <3>5, <3>8 DEF r
  <2> QED
    BY <2>3, <2>4
<1> QED
  BY <1>1, <1>2

LEMMA PercentInt == \A a, p \in Int : Percent(a, p) \in Int
BY IntProducts, RoundedNear DEF Percent

\* A sum of so many times each row.
LEMMA SumScaled ==
  ASSUME NEW S, IsFiniteSet(S), NEW f, NEW e, NEW c \in Int, \A x \in S : f[x] \in Int /\ e[x] = c * f[x]
  PROVE  SumFunctionOnSet(e, S) = c * SumFunctionOnSet(f, S)
<1> DEFINE T == {R \in SUBSET S : SumFunctionOnSet(e, R) = c * SumFunctionOnSet(f, R)}
<1>1. {} \in T
  BY SumOfNone
<1>2. ASSUME NEW R \in SUBSET S, NEW x \in S \ R, R \in T PROVE R \cup {x} \in T
  <2>1. IsFiniteSet(R) /\ x \notin R
    BY FS_Subset
  <2>2. \A y \in R \cup {x} : f[y] \in Int /\ e[y] \in Int
    BY IntProducts
  <2>3. /\ SumFunctionOnSet(f, R \cup {x}) = SumFunctionOnSet(f, R) + f[x]
        /\ SumFunctionOnSet(e, R \cup {x}) = SumFunctionOnSet(e, R) + e[x]
    BY <2>1, <2>2, SumAdds
  <2>4. SumFunctionOnSet(f, R) \in Int
    BY <2>1, <2>2, SumInt
  <2> DEFINE s == SumFunctionOnSet(f, R)
  <2>5. c * (s + f[x]) = c * s + c * f[x]
    BY <2>2, <2>4
  <2> QED
    BY <1>2, <2>3, <2>5
<1> HIDE DEF T
<1>3. S \in T
  BY <1>1, <1>2, RowByRow
<1> QED
  BY <1>3 DEF T

\* A sum of rows each within a bound.
LEMMA SumBounded ==
  ASSUME NEW S, IsFiniteSet(S), NEW f, NEW b \in Nat, \A x \in S : f[x] \in Int /\ f[x] <= b /\ -b <= f[x]
  PROVE  /\ SumFunctionOnSet(f, S) \in Int /\ Cardinality(S) * b \in Nat
         /\ SumFunctionOnSet(f, S) <= Cardinality(S) * b /\ -(Cardinality(S) * b) <= SumFunctionOnSet(f, S)
<1> DEFINE sum(R) == SumFunctionOnSet(f, R)
           times(R) == Cardinality(R) * b
           T == {R \in SUBSET S : sum(R) \in Int /\ times(R) \in Nat /\ sum(R) <= times(R) /\ -times(R) <= sum(R)}
<1>1. {} \in T
  BY SumOfNone, FS_EmptySet
<1>2. ASSUME NEW R \in SUBSET S, NEW x \in S \ R, R \in T PROVE R \cup {x} \in T
  <2>1. IsFiniteSet(R) /\ x \notin R
    BY FS_Subset
  <2>2. \A y \in R \cup {x} : f[y] \in Int
    OBVIOUS
  <2>3. sum(R \cup {x}) = sum(R) + f[x]
    BY <2>1, <2>2, SumAdds
  <2>4. Cardinality(R \cup {x}) = Cardinality(R) + 1 /\ Cardinality(R) \in Nat
    BY <2>1, FS_AddElement, FS_CardinalityType
  <2>5. times(R \cup {x}) = times(R) + b
    BY <2>4
  <2>6. f[x] \in Int /\ f[x] <= b /\ -b <= f[x]
    OBVIOUS
  <2>7. sum(R) \in Int /\ times(R) \in Nat /\ sum(R) <= times(R) /\ -times(R) <= sum(R)
    BY <1>2
  <2> HIDE DEF sum, times
  <2> QED
    BY <2>3, <2>5, <2>6, <2>7
<1> HIDE DEF T
<1>3. S \in T
  BY <1>1, <1>2, RowByRow
<1> QED
  BY <1>3 DEF T

\* Some row comes before every other in a finite set, whichever way they are ordered.
LEMMA SomeFirst ==
  ASSUME NEW S, IsFiniteSet(S), S # {}, NEW R,
         \A x, y, z \in S : <<x, y>> \in R /\ <<y, z>> \in R => <<x, z>> \in R,
         \A x \in S : <<x, x>> \notin R
  PROVE  \E x \in S : \A y \in S : <<y, x>> \notin R
<1> DEFINE T == {Q \in SUBSET S : Q = {} \/ \E x \in Q : \A y \in Q : <<y, x>> \notin R}
<1>1. {} \in T
  OBVIOUS
<1>2. ASSUME NEW Q \in SUBSET S, NEW a \in S \ Q, Q \in T PROVE Q \cup {a} \in T
  <2>1. CASE Q = {}
    BY <2>1
  <2>2. CASE Q # {}
    <3>1. PICK m \in Q : \A y \in Q : <<y, m>> \notin R
      BY <1>2, <2>2
    <3>2. CASE <<a, m>> \in R
      <4>1. \A y \in Q \cup {a} : <<y, a>> \notin R
        BY <3>1, <3>2
      <4> QED
        BY <4>1
    <3>3. CASE <<a, m>> \notin R
      BY <3>1, <3>3
    <3> QED
      BY <3>2, <3>3
  <2> QED
    BY <2>1, <2>2
<1> HIDE DEF T
<1>3. S \in T
  BY <1>1, <1>2, RowByRow
<1> QED
  BY <1>3 DEF T

-------------------------------------------------------------------------------
\* Spreading a discount

\* The largest part, the first where several are.
LargestOf(parts, targets) ==
  CHOOSE i \in targets : \A j \in targets : parts[j] < parts[i] \/ (parts[j] = parts[i] /\ i <= j)

LEMMA LargestExists ==
  ASSUME NEW targets \in SUBSET Nat, IsFiniteSet(targets), targets # {}, NEW parts, \A i \in targets : parts[i] \in Int
  PROVE  LargestOf(parts, targets) \in targets
<1> DEFINE R == {p \in targets \X targets : parts[p[1]] > parts[p[2]] \/ (parts[p[1]] = parts[p[2]] /\ p[1] < p[2])}
<1>1. \A i, j \in targets : <<i, j>> \in R <=> parts[i] > parts[j] \/ (parts[i] = parts[j] /\ i < j)
  OBVIOUS
<1> HIDE DEF R
<1>2. PICK i \in targets : \A j \in targets : <<j, i>> \notin R
  <2>1. \A x, y, z \in targets : <<x, y>> \in R /\ <<y, z>> \in R => <<x, z>> \in R
    BY <1>1
  <2>2. \A x \in targets : <<x, x>> \notin R
    BY <1>1
  <2> QED
    BY <2>1, <2>2, SomeFirst
<1>3. ASSUME NEW j \in targets PROVE parts[j] < parts[i] \/ (parts[j] = parts[i] /\ i <= j)
  <2>1. ~(parts[j] > parts[i] \/ (parts[j] = parts[i] /\ j < i))
    BY <1>1, <1>2
  <2>2. parts[i] \in Int /\ parts[j] \in Int /\ i \in Int /\ j \in Int
    OBVIOUS
  <2> QED
    BY <2>1, <2>2
<1> QED
  BY <1>3 DEF LargestOf

\* The shares of a discount are whole, are the discount, are nothing off the targets, and each
\* is its proportion within half of what the targets come to for each of them.
LEMMA SharesAddUp ==
  ASSUME NEW parts, IsFiniteSet(DOMAIN parts), DOMAIN parts \subseteq Nat, \A i \in DOMAIN parts : parts[i] \in Int,
         NEW targets \in SUBSET DOMAIN parts, NEW total \in Int,
         SumFunctionOnSet(parts, targets) > 0
  PROVE  LET shares == allocate(total, parts, targets)
             whole == SumFunctionOnSet(parts, targets)
             off(i) == shares[i] * whole - total * parts[i]
         IN
         /\ whole \in Int
         /\ DOMAIN shares = DOMAIN parts
         /\ \A i \in DOMAIN parts : shares[i] \in Int
         /\ \A i \in DOMAIN parts \ targets : shares[i] = 0
         /\ SumFunctionOnSet(shares, targets) = total
         /\ SumFunctionOnSet(shares, DOMAIN parts) = total
         /\ Cardinality(targets) * whole \in Int
         /\ \A i \in targets : /\ 2 * off(i) <= Cardinality(targets) * whole
                               /\ -2 * off(i) <= Cardinality(targets) * whole
         /\ \E last \in targets : \A i \in targets \ {last} : shares[i] = Rounded(total * parts[i], whole)
<1> DEFINE D == DOMAIN parts
           whole == SumFunctionOnSet(parts, targets)
           share(i) == IF i \notin targets \/ whole = 0 THEN 0 ELSE Rounded(total * parts[i], whole)
           first == [i \in D |-> share(i)]
           drift == total - SumFunction(first)
           last == LargestOf(parts, targets)
           shares == [i \in D |-> share(i) + (IF whole # 0 /\ i = last THEN drift ELSE 0)]
<1>1. IsFiniteSet(targets) /\ whole \in Int /\ whole > 0 /\ whole \in Nat
  BY FS_Subset, SumInt
<1>2. SumFunction([i \in targets |-> parts[i]]) = whole
  <2>1. \A i \in targets : parts[i] \in Int /\ [j \in targets |-> parts[j]][i] = parts[i]
    OBVIOUS
  <2> QED
    BY <1>1, <2>1, SumOfSame DEF SumFunction
<1>3. allocate(total, parts, targets) = shares
  BY <1>2 DEF allocate, Total, LargestOf
<1>4. targets # {}
  BY SumOfNone
<1>5. last \in targets /\ last \in D
  BY <1>1, <1>4, LargestExists
<1>6. \A i \in targets : total * parts[i] \in Int
  BY IntProducts
<1>7. ASSUME NEW i \in targets
      PROVE  /\ share(i) = Rounded(total * parts[i], whole) /\ share(i) \in Int
             /\ 2 * (share(i) * whole - total * parts[i]) <= whole
             /\ -whole <= 2 * (share(i) * whole - total * parts[i])
  <2>1. share(i) = Rounded(total * parts[i], whole)
    BY <1>1
  <2> HIDE DEF share, whole
  <2>2. total * parts[i] \in Int
    BY <1>6
  <2> QED
    BY <1>1, <2>1, <2>2, RoundedNear
<1>8. \A i \in D : share(i) \in Int /\ (i \notin targets => share(i) = 0)
  BY <1>7
<1> HIDE DEF share, last
<1>9. SumFunction(first) = SumFunctionOnSet(first, D) /\ SumFunction(first) \in Int
  BY <1>8, SumInt DEF SumFunction
<1>10. drift \in Int
  BY <1>9
<1> HIDE DEF drift, whole
<1>11. /\ DOMAIN shares = D
       /\ \A i \in D : shares[i] \in Int
       /\ \A i \in D \ targets : shares[i] = 0
       /\ \A i \in D \ {last} : shares[i] = first[i] /\ shares[i] = share(i)
       /\ shares[last] = share(last) + drift /\ first[last] = share(last)
       /\ \A i \in D : first[i] \in Int
  BY <1>1, <1>5, <1>8, <1>10
<1> HIDE DEF shares, first
<1>12. SumFunctionOnSet(shares, D) = total
  <2>1. SumFunctionOnSet(shares, D) = SumFunctionOnSet(first, D) - first[last] + shares[last]
    BY <1>5, <1>11, SumChanges
  <2>2. first[last] = share(last) /\ share(last) \in Int /\ SumFunctionOnSet(first, D) \in Int
    BY <1>5, <1>8, <1>9, <1>11
  <2> QED
    BY <1>9, <1>11, <2>1, <2>2 DEF drift
<1>13. SumFunctionOnSet(shares, targets) = total
  <2>1. \A i \in targets : shares[i] \in Int /\ shares[i] = shares[i]
    BY <1>11
  <2>2. SumFunctionOnSet(shares, targets) = SumFunctionOnSet(shares, D)
    BY <1>11, <2>1, SumOfPart
  <2> QED
    BY <1>12, <2>2
<1> DEFINE off(i) == shares[i] * whole - total * parts[i]
           times(S) == Cardinality(S) * whole
<1>14. \A i \in targets : off(i) \in Int
  BY <1>1, <1>6, <1>11, IntProducts
<1>15. \A i \in targets \ {last} : 2 * off(i) <= whole /\ -whole <= 2 * off(i)
  BY <1>7, <1>11
<1>16. SumFunctionOnSet([i \in targets |-> off(i)], targets) = 0
  <2> DEFINE e == [i \in targets |-> shares[i] * whole]
             c == 0 - total
             g == [i \in targets |-> c * parts[i]]
             o == [i \in targets |-> off(i)]
  <2>1. \A i \in targets : e[i] \in Int /\ g[i] \in Int /\ o[i] = e[i] + g[i]
    <3> TAKE i \in targets
    <3>1. e[i] = shares[i] * whole /\ g[i] = c * parts[i] /\ o[i] = shares[i] * whole - total * parts[i]
      OBVIOUS
    <3>2. shares[i] * whole \in Int /\ total * parts[i] \in Int /\ c * parts[i] = -(total * parts[i])
      BY <1>1, <1>6, <1>11, IntProducts
    <3> QED
      BY <3>1, <3>2
  <2>2. SumFunctionOnSet(o, targets) = SumFunctionOnSet(e, targets) + SumFunctionOnSet(g, targets)
    <3> HIDE DEF o, e, g
    <3> QED
      BY <1>1, <2>1, SumOfSums
  <2>3. SumFunctionOnSet(e, targets) = whole * SumFunctionOnSet(shares, targets)
    <3>1. \A i \in targets : shares[i] \in Int /\ e[i] = whole * shares[i]
      BY <1>1, <1>11
    <3> HIDE DEF e
    <3> QED
      BY <1>1, <3>1, SumScaled
  <2>4. SumFunctionOnSet(g, targets) = c * SumFunctionOnSet(parts, targets)
    <3>1. \A i \in targets : parts[i] \in Int /\ g[i] = c * parts[i]
      OBVIOUS
    <3>2. c \in Int
      OBVIOUS
    <3> HIDE DEF g, c
    <3> QED
      BY <1>1, <3>1, <3>2, SumScaled
  <2>5. SumFunctionOnSet(e, targets) = whole * total /\ SumFunctionOnSet(g, targets) = c * whole
    BY <1>13, <2>3, <2>4 DEF whole
  <2>6. whole * total + c * whole = 0
    BY <1>1
  <2> QED
    BY <2>2, <2>5, <2>6
<1>17. /\ times(targets) \in Int
       /\ \A i \in targets : 2 * off(i) <= times(targets) /\ -2 * off(i) <= times(targets)
  <2> DEFINE others == targets \ {last}
             o == [i \in targets |-> off(i)]
             e == [i \in targets |-> 2 * off(i)]
  <2>1. IsFiniteSet(others) /\ Cardinality(others) = Cardinality(targets) - 1 /\ Cardinality(others) \in Nat /\ Cardinality(targets) \in Nat
    BY <1>1, <1>5, FS_RemoveElement, FS_CardinalityType
  <2>2. times(targets) = times(others) + whole /\ times(others) \in Nat /\ times(targets) \in Int
    BY <1>1, <2>1
  <2>3. \A i \in targets : o[i] = off(i) /\ o[i] \in Int /\ e[i] = 2 * o[i] /\ e[i] \in Int
    BY <1>14
  <2>4. 0 = off(last) + SumFunctionOnSet(o, others) /\ SumFunctionOnSet(o, others) \in Int
    <3>1. \A i \in targets : o[i] \in Int
      BY <2>3
    <3>2. SumFunctionOnSet(o, targets) = o[last] + SumFunctionOnSet(o, targets \ {last})
      <4> HIDE DEF o
      <4> QED
        BY <1>1, <1>5, <3>1, SumTakes
    <3>3. SumFunctionOnSet(o, others) \in Int
      <4>1. \A i \in others : o[i] \in Int
        BY <3>1
      <4> HIDE DEF o, others
      <4> QED
        BY <2>1, <4>1, SumInt
    <3> QED
      BY <1>5, <1>16, <3>2, <3>3
  <2>5. SumFunctionOnSet(e, others) = 2 * SumFunctionOnSet(o, others)
    <3>1. \A i \in others : o[i] \in Int /\ e[i] = 2 * o[i]
      BY <2>3
    <3>2. 2 \in Int
      OBVIOUS
    <3> HIDE DEF e, o, others
    <3> QED
      BY <2>1, <3>1, <3>2, SumScaled
  <2>6. SumFunctionOnSet(e, others) <= times(others) /\ -times(others) <= SumFunctionOnSet(e, others)
    <3>1. \A i \in others : e[i] \in Int /\ e[i] <= whole /\ -whole <= e[i]
      BY <1>15, <2>3
    <3> HIDE DEF e, others
    <3> QED
      BY <1>1, <2>1, <3>1, SumBounded
  <2>7. 2 * off(last) <= times(targets) /\ -2 * off(last) <= times(targets)
    <3>1. off(last) \in Int
      BY <1>5, <1>14
    <3> HIDE DEF times, off, o, e, others
    <3> QED
      BY <1>1, <2>2, <2>4, <2>5, <2>6, <3>1
  <2>8. \A i \in others : 2 * off(i) <= times(targets) /\ -2 * off(i) <= times(targets)
    <3> HIDE DEF times, off
    <3> QED
      BY <1>1, <1>14, <1>15, <2>2
  <2> QED
    BY <2>2, <2>7, <2>8
<1>18. \A i \in targets \ {last} : shares[i] = Rounded(total * parts[i], whole)
  BY <1>7, <1>11
<1> QED
  BY <1>1, <1>3, <1>5, <1>11, <1>12, <1>13, <1>17, <1>18 DEF whole

\* Rounding goes past no whole number.
LEMMA RoundedWithin ==
  ASSUME NEW a \in Int, NEW b \in Nat, b > 0, NEW k \in Int
  PROVE  (a <= b * k => Rounded(a, b) <= k) /\ (a >= b * k => Rounded(a, b) >= k)
<1> DEFINE r == Rounded(a, b)
           w == r * b
           m == b * k
<1>1. r \in Int /\ 2 * (w - a) <= b /\ -b <= 2 * (w - a)
  BY RoundedNear
<1> HIDE DEF r
<1>2. w \in Int /\ m \in Int
  BY <1>1
<1>3. CASE r > k
  <2>1. (r - (k + 1)) * b >= 0
    BY <1>1, <1>3
  <2>2. (r - (k + 1)) * b = (w - m) - b
    BY <1>1
  <2>3. (w - m) - b >= 0
    BY <2>1, <2>2
  <2> HIDE DEF w, m
  <2>4. (a <= m => r <= k) /\ (a >= m => r >= k)
    BY <1>1, <1>2, <1>3, <2>3
  <2> QED
    BY <2>4 DEF r, m
<1>4. CASE r < k
  <2>1. ((k - 1) - r) * b >= 0
    BY <1>1, <1>4
  <2>2. ((k - 1) - r) * b = (m - w) - b
    BY <1>1
  <2>3. (m - w) - b >= 0
    BY <2>1, <2>2
  <2> HIDE DEF w, m
  <2>4. (a <= m => r <= k) /\ (a >= m => r >= k)
    BY <1>1, <1>2, <1>4, <2>3
  <2> QED
    BY <2>4 DEF r, m
<1> QED
  BY <1>1, <1>3, <1>4 DEF r

LEMMA ShareBetween ==
  ASSUME NEW big \in Nat, NEW small \in Nat, NEW total \in Nat, total > 0, total <= big + small
  PROVE  /\ Rounded(total * small, big + small) \in 0..small
         /\ total - Rounded(total * small, big + small) \in 0..big
<1> DEFINE whole == big + small
           m == total * small
           r == Rounded(m, whole)
<1>1. whole \in Nat /\ whole > 0 /\ total <= whole /\ m \in Int /\ m >= 0
  OBVIOUS
<1>2. r \in Int /\ r >= 0
  <2> HIDE DEF m, whole
  <2> QED
    BY <1>1, RoundedNear
<1>3. \A k \in Int : (m <= whole * k => r <= k) /\ (m >= whole * k => r >= k)
  <2> HIDE DEF m, whole
  <2> QED
    BY <1>1, RoundedWithin
<1>4. m <= whole * small
  <2>1. (whole - total) * small >= 0
    OBVIOUS
  <2>2. (whole - total) * small = whole * small - m
    OBVIOUS
  <2>3. whole * small \in Int
    OBVIOUS
  <2> HIDE DEF m, whole
  <2> QED
    BY <1>1, <2>1, <2>2, <2>3
<1> DEFINE b == total * big
<1>5. b \in Int /\ b >= 0 /\ whole * total = b + m
  OBVIOUS
<1>6. m <= whole * total
  <2> HIDE DEF m, whole, b
  <2> QED
    BY <1>1, <1>5
<1>7. m >= whole * (total - big)
  <2> DEFINE c == whole * big
  <2>1. (whole - total) * big >= 0
    OBVIOUS
  <2>2. (whole - total) * big = c - b /\ c \in Int
    OBVIOUS
  <2>3. whole * (total - big) = whole * total - c
    OBVIOUS
  <2>4. whole * total \in Int
    OBVIOUS
  <2> HIDE DEF m, whole, b, c
  <2> QED
    BY <1>1, <1>5, <2>1, <2>2, <2>3, <2>4
<1>8. r <= small /\ r <= total /\ r >= total - big
  <2> HIDE DEF m, whole, r
  <2> QED
    BY <1>3, <1>4, <1>6, <1>7
<1> QED
  BY <1>2, <1>8

\* Of two parts that are not below nothing, neither gets more than it is or less than nothing.
LEMMA TwoShares ==
  ASSUME NEW parts, IsFiniteSet(DOMAIN parts), DOMAIN parts \subseteq Nat, \A i \in DOMAIN parts : parts[i] \in Int,
         NEW a \in DOMAIN parts, NEW b \in DOMAIN parts, a # b, parts[a] >= 0, parts[b] >= 0,
         NEW total \in 1..(parts[a] + parts[b])
  PROVE  \A c \in {a, b} : allocate(total, parts, {a, b})[c] \in 0..parts[c]
<1> DEFINE targets == {a, b}
           shares == allocate(total, parts, targets)
           whole == SumFunctionOnSet(parts, targets)
<1>1. /\ total \in Nat /\ total > 0 /\ total <= parts[a] + parts[b] /\ parts[a] \in Nat /\ parts[b] \in Nat
      /\ a \in Nat /\ b \in Nat
  OBVIOUS
<1>2. whole = parts[a] + parts[b]
  <2>1. IsFiniteSet({a}) /\ b \notin {a} /\ {a} \cup {b} = targets
    BY FS_Singleton
  <2>2. IsFiniteSet({}) /\ a \notin {} /\ {} \cup {a} = {a}
    BY FS_EmptySet
  <2>3. \A x \in {a} \cup {b} : parts[x] \in Int
    OBVIOUS
  <2>4. \A x \in {} \cup {a} : parts[x] \in Int
    OBVIOUS
  <2>5. SumFunctionOnSet(parts, {a} \cup {b}) = SumFunctionOnSet(parts, {a}) + parts[b]
    BY <2>1, <2>3, SumAdds
  <2>6. SumFunctionOnSet(parts, {} \cup {a}) = SumFunctionOnSet(parts, {}) + parts[a]
    BY <2>2, <2>4, SumAdds
  <2> QED
    BY <2>1, <2>2, <2>5, <2>6, SumOfNone
<1>3. targets \in SUBSET DOMAIN parts /\ total \in Int /\ whole > 0
  BY <1>1, <1>2
<1> HIDE DEF whole
<1>4. /\ \E last \in targets : \A i \in targets \ {last} : shares[i] = Rounded(total * parts[i], whole)
      /\ \A i \in DOMAIN parts : shares[i] \in Int
      /\ SumFunctionOnSet(shares, targets) = total
  <2>1. targets \in SUBSET DOMAIN parts /\ total \in Int /\ SumFunctionOnSet(parts, targets) > 0
    BY <1>3 DEF whole
  <2>2. /\ \E last \in targets : \A i \in targets \ {last} :
             shares[i] = Rounded(total * parts[i], SumFunctionOnSet(parts, targets))
        /\ \A i \in DOMAIN parts : shares[i] \in Int
        /\ SumFunctionOnSet(shares, targets) = total
    <3> HIDE DEF targets
    <3>1. \A i \in DOMAIN parts : shares[i] \in Int
      BY <2>1, SharesAddUp
    <3>2. SumFunctionOnSet(shares, targets) = total
      BY <2>1, SharesAddUp
    <3>3. \E last \in targets : \A i \in targets \ {last} :
             shares[i] = Rounded(total * parts[i], SumFunctionOnSet(parts, targets))
      BY <2>1, SharesAddUp
    <3> QED
      BY <3>1, <3>2, <3>3
  <2> QED
    BY <2>2, Zenon DEF whole
<1>5. shares[a] + shares[b] = total
  <2>1. IsFiniteSet({a}) /\ b \notin {a} /\ {a} \cup {b} = targets
    BY FS_Singleton
  <2>2. IsFiniteSet({}) /\ a \notin {} /\ {} \cup {a} = {a}
    BY FS_EmptySet
  <2>3. \A x \in {a} \cup {b} : shares[x] \in Int
    BY <1>4
  <2>4. \A x \in {} \cup {a} : shares[x] \in Int
    BY <1>4
  <2> HIDE DEF shares
  <2>5. SumFunctionOnSet(shares, {a} \cup {b}) = SumFunctionOnSet(shares, {a}) + shares[b]
    BY <2>1, <2>3, SumAdds
  <2>6. SumFunctionOnSet(shares, {} \cup {a}) = SumFunctionOnSet(shares, {}) + shares[a]
    BY <2>2, <2>4, SumAdds
  <2>7. SumFunctionOnSet(shares, {}) = 0
    BY SumOfNone
  <2>8. SumFunctionOnSet(shares, targets) = total
    BY <1>4
  <2>9. shares[a] \in Int /\ shares[b] \in Int
    BY <1>4
  <2> HIDE DEF targets
  <2> QED
    BY <2>1, <2>2, <2>5, <2>6, <2>7, <2>8, <2>9
<1> HIDE DEF shares
<1>6. CASE shares[a] = Rounded(total * parts[a], whole)
  <2>1. whole = parts[b] + parts[a]
    BY <1>1, <1>2
  <2>2. shares[a] \in 0..parts[a] /\ total - shares[a] \in 0..parts[b]
    BY <1>1, <1>6, <2>1, ShareBetween
  <2>3. shares[b] = total - shares[a]
    BY <1>1, <1>4, <1>5
  <2> QED
    BY <2>2, <2>3 DEF shares
<1>7. CASE shares[b] = Rounded(total * parts[b], whole)
  <2>1. shares[b] \in 0..parts[b] /\ total - shares[b] \in 0..parts[a]
    BY <1>1, <1>2, <1>7, ShareBetween
  <2>2. shares[a] = total - shares[b]
    BY <1>1, <1>4, <1>5
  <2> QED
    BY <2>1, <2>2 DEF shares
<1> QED
  BY <1>4, <1>6, <1>7

-------------------------------------------------------------------------------
\* Slabs

\* Rows can be lined up by whatever they are sorted on.
LEMMA LinedUp ==
  ASSUME NEW n \in Nat, NEW key, \A i \in 1..n : key[i] \in Int
  PROVE  \E p \in Bijection(1..n, 1..n) : \A i, j \in 1..n : i < j => key[p[i]] <= key[p[j]]
<1> DEFINE U == 1..n
           Line(q, m, S) ==
             /\ q \in [1..m -> S]
             /\ \A x \in S : \E i \in 1..m : q[i] = x
             /\ \A i, j \in 1..m : q[i] = q[j] => i = j
             /\ \A i, j \in 1..m : i < j => key[q[i]] <= key[q[j]]
           T == {m \in Nat : \A S \in SUBSET U : Cardinality(S) = m => \E q : Line(q, m, S)}
<1>1. IsFiniteSet(U) /\ Cardinality(U) = n
  BY FS_Interval
<1>2. 0 \in T
  <2>1. ASSUME NEW S \in SUBSET U, Cardinality(S) = 0 PROVE \E q : Line(q, 0, S)
    <3>1. IsFiniteSet(S)
      BY <1>1, FS_Subset
    <3>2. S = {} /\ 1..0 = {}
      BY <2>1, <3>1, FS_EmptySet
    <3>3. Line([i \in {} |-> 0], 0, S)
      BY <3>2
    <3> QED
      BY <3>3
  <2> HIDE DEF Line, U
  <2> QED
    BY <2>1
<1>3. ASSUME NEW m \in Nat, m \in T PROVE m + 1 \in T
  <2>1. ASSUME NEW S \in SUBSET U, Cardinality(S) = m + 1 PROVE \E q : Line(q, m + 1, S)
    <3>1. IsFiniteSet(S) /\ S # {}
      <4>1. IsFiniteSet(S)
        BY <1>1, FS_Subset
      <4>2. Cardinality(S) # 0
        BY <2>1
      <4> QED
        BY <4>1, <4>2, FS_EmptySet
    <3> DEFINE R == {p \in S \X S : key[p[1]] > key[p[2]]}
    <3>2. \A i, j \in S : <<i, j>> \in R <=> key[i] > key[j]
      OBVIOUS
    <3>3. \A i \in S : key[i] \in Int
      OBVIOUS
    <3> HIDE DEF R
    <3>4. PICK x \in S : \A y \in S : <<y, x>> \notin R
      <4>1. \A a, b, c \in S : <<a, b>> \in R /\ <<b, c>> \in R => <<a, c>> \in R
        BY <3>2, <3>3
      <4>2. \A a \in S : <<a, a>> \notin R
        BY <3>2, <3>3
      <4> QED
        BY <3>1, <4>1, <4>2, SomeFirst
    <3>5. ASSUME NEW y \in S PROVE key[y] <= key[x]
      <4>1. ~(key[y] > key[x])
        BY <3>2, <3>4
      <4>2. key[y] \in Int /\ key[x] \in Int
        BY <3>3
      <4> QED
        BY <4>1, <4>2
    <3> DEFINE rest == S \ {x}
    <3>6. IsFiniteSet(rest) /\ Cardinality(rest) = Cardinality(S) - 1
      BY <3>1, FS_RemoveElement
    <3>7. Cardinality(rest) = m /\ rest \in SUBSET U
      BY <2>1, <3>6
    <3>8. PICK q : Line(q, m, rest)
      BY <1>3, <3>7
    <3> DEFINE r == [i \in 1..(m + 1) |-> IF i = m + 1 THEN x ELSE q[i]]
    <3>9. \A i \in 1..(m + 1) : i = m + 1 \/ i \in 1..m
      OBVIOUS
    <3>10. \A i \in 1..m : r[i] = q[i] /\ q[i] \in S /\ q[i] # x /\ i \in 1..(m + 1) /\ i # m + 1
      BY <3>8
    <3>11. r[m + 1] = x /\ m + 1 \in 1..(m + 1) /\ m + 1 \notin 1..m
      OBVIOUS
    <3>12. r \in [1..(m + 1) -> S]
      <4>1. \A i \in 1..(m + 1) : r[i] \in S
        BY <3>9, <3>10, <3>11
      <4> QED
        BY <4>1
    <3> HIDE DEF r
    <3>13. \A y \in S : \E i \in 1..(m + 1) : r[i] = y
      <4> TAKE y \in S
      <4>1. CASE y = x
        BY <3>11, <4>1
      <4>2. CASE y # x
        <5>1. PICK i \in 1..m : q[i] = y
          BY <3>8, <4>2
        <5> QED
          BY <3>10, <5>1
      <4> QED
        BY <4>1, <4>2
    <3>14. \A i, j \in 1..(m + 1) : r[i] = r[j] => i = j
      BY <3>8, <3>9, <3>10, <3>11
    <3>15. \A i, j \in 1..(m + 1) : i < j => key[r[i]] <= key[r[j]]
      <4> TAKE i, j \in 1..(m + 1)
      <4> HAVE i < j
      <4>1. i \in 1..m
        OBVIOUS
      <4>2. CASE j = m + 1
        BY <3>5, <3>10, <3>11, <4>1, <4>2
      <4>3. CASE j \in 1..m
        BY <3>8, <3>10, <4>1, <4>3
      <4> QED
        BY <3>9, <4>2, <4>3
    <3>16. Line(r, m + 1, S)
      BY <3>12, <3>13, <3>14, <3>15
    <3> HIDE DEF Line
    <3> QED
      BY <3>16
  <2> HIDE DEF Line, U
  <2> QED
    BY <2>1
<1>4. n \in T
  <2> HIDE DEF T
  <2> QED
    BY <1>2, <1>3, NaturalsBySteps
<1>5. PICK p : Line(p, n, U)
  BY <1>1, <1>4
<1>6. p \in Bijection(1..n, 1..n)
  BY <1>5 DEF Bijection, Injection, Surjection, IsInjective
<1> QED
  BY <1>5, <1>6

LEMMA SlabTypes ==
  ASSUME NEW slabs \in Seq(SlabRows)
  PROVE  /\ Len(slabs) \in Nat /\ DOMAIN slabs = 1..Len(slabs)
         /\ \A i \in DOMAIN slabs : slabs[i].from \in Int /\ slabs[i].to \in Int /\ slabs[i].rate \in Int
<1>1. \A i \in DOMAIN slabs : slabs[i] \in SlabRows
  OBVIOUS
<1>2. \A slab \in SlabRows : slab.from \in Int /\ slab.to \in Int /\ slab.rate \in Int
  BY DEF SlabRows
<1> QED
  BY <1>1, <1>2

Within(slab, unit) == slab.from <= unit /\ (slab.to = 0 \/ unit < slab.to)

\* A sorting of slabs is the slabs, each once.
LEMMA SortedSlabs ==
  ASSUME NEW slabs \in Seq(SlabRows)
  PROVE  \E p \in Bijection(DOMAIN slabs, DOMAIN slabs) :
           /\ \A i, j \in DOMAIN slabs : i < j => slabs[p[i]].from <= slabs[p[j]].from
           /\ Sorted(slabs) = [i \in DOMAIN slabs |-> slabs[p[i]]]
<1> DEFINE n == Len(slabs)
           key == [i \in 1..n |-> slabs[i].from]
           Right(p) == \A i, j \in DOMAIN slabs : i < j => slabs[p[i]].from <= slabs[p[j]].from
           order == CHOOSE p \in Bijection(DOMAIN slabs, DOMAIN slabs) : Right(p)
<1>1. n \in Nat /\ DOMAIN slabs = 1..n /\ \A i \in 1..n : slabs[i].from \in Int /\ key[i] = slabs[i].from
  BY SlabTypes
<1>2. PICK p \in Bijection(1..n, 1..n) : \A i, j \in 1..n : i < j => key[p[i]] <= key[p[j]]
  <2>1. \A i \in 1..n : key[i] \in Int
    BY <1>1
  <2> HIDE DEF n, key
  <2> QED
    BY <1>1, <2>1, LinedUp
<1>3. p \in Bijection(DOMAIN slabs, DOMAIN slabs) /\ Right(p)
  <2>1. \A i \in 1..n : p[i] \in 1..n
    BY <1>2 DEF Bijection, Injection
  <2> QED
    BY <1>1, <1>2, <2>1
<1>4. order \in Bijection(DOMAIN slabs, DOMAIN slabs) /\ Right(order)
  <2> HIDE DEF Right
  <2> QED
    BY <1>3
<1> QED
  BY <1>4 DEF Sorted

\* Slabs that meet end to end have every weight they cover in one of them.
LEMMA OneSlab ==
  ASSUME NEW slabs \in Seq(SlabRows), validateSlabs(slabs), NEW weight \in Nat,
         Sorted(slabs)[Len(slabs)].to = 0 \/ weight < Sorted(slabs)[Len(slabs)].to
  PROVE  /\ \A i \in DOMAIN slabs : slabs[i].from >= 0 /\ (slabs[i].to # 0 => slabs[i].from < slabs[i].to)
         /\ \A unit \in 0..weight : \E i \in DOMAIN slabs :
              \A j \in DOMAIN slabs : Within(slabs[j], unit) <=> j = i
<1> DEFINE n == Len(slabs)
           line == Sorted(slabs)
<1>1. n \in Nat /\ n > 0 /\ DOMAIN slabs = 1..n /\ \A i \in 1..n : slabs[i].from \in Int /\ slabs[i].to \in Int
  <2>1. slabs # <<>>
    BY DEF validateSlabs
  <2>2. n # 0
    BY <2>1
  <2> QED
    BY <2>2, SlabTypes
<1>2. PICK p \in Bijection(DOMAIN slabs, DOMAIN slabs) :
           /\ \A i, j \in DOMAIN slabs : i < j => slabs[p[i]].from <= slabs[p[j]].from
           /\ line = [i \in DOMAIN slabs |-> slabs[p[i]]]
  BY SortedSlabs
<1> HIDE DEF line, n
<1>3. /\ \A i \in 1..n : p[i] \in 1..n /\ line[i] = slabs[p[i]] /\ line[i].from \in Int /\ line[i].to \in Int
      /\ \A i, j \in 1..n : p[i] = p[j] => i = j
      /\ \A x \in 1..n : \E i \in 1..n : p[i] = x
  <2>1. p \in [1..n -> 1..n]
    BY <1>1, <1>2 DEF Bijection, Injection
  <2>2. \A i, j \in 1..n : p[i] = p[j] => i = j
    BY <1>1, <1>2 DEF Bijection, Injection, IsInjective
  <2>3. \A x \in 1..n : \E i \in 1..n : p[i] = x
    BY <1>1, <1>2 DEF Bijection, Surjection
  <2>4. \A i \in 1..n : p[i] \in 1..n /\ line[i] = slabs[p[i]]
    BY <1>1, <1>2, <2>1
  <2> QED
    BY <1>1, <2>2, <2>3, <2>4
<1>4. ASSUME NEW i \in 1..n, NEW j \in 1..n, i < j PROVE line[i].from <= line[j].from
  <2>1. slabs[p[i]].from <= slabs[p[j]].from
    BY <1>1, <1>2, <1>4
  <2> QED
    BY <1>3, <2>1
<1>5. /\ line[1].from = 0
      /\ \A i \in 1..n : /\ line[i].to = 0 => i = n
                         /\ line[i].to # 0 => line[i].to > line[i].from
                         /\ line[i].to # 0 /\ i < n => line[i + 1].from = line[i].to
  BY <1>1 DEF validateSlabs, line, n
<1>6. line[n].to = 0 \/ weight < line[n].to
  BY DEF line, n
<1>7. \A i \in 1..n : line[i].from >= 0
  <2> TAKE i \in 1..n
  <2>1. i = 1 \/ (1 < i /\ 1 \in 1..n)
    BY <1>1
  <2>2. CASE i = 1
    BY <1>5, <2>2
  <2>3. CASE 1 < i /\ 1 \in 1..n
    <3>1. line[1].from <= line[i].from
      BY <1>4, <2>3
    <3> QED
      BY <1>3, <1>5, <3>1
  <2> QED
    BY <2>1, <2>2, <2>3
<1>8. ASSUME NEW i \in DOMAIN slabs PROVE slabs[i].from >= 0 /\ (slabs[i].to # 0 => slabs[i].from < slabs[i].to)
  <2>1. PICK k \in 1..n : p[k] = i
    BY <1>1, <1>3
  <2>2. line[k] = slabs[i] /\ line[k].from >= 0 /\ (line[k].to # 0 => line[k].to > line[k].from)
    BY <1>3, <1>5, <1>7, <2>1
  <2>3. line[k].from \in Int /\ line[k].to \in Int
    BY <1>3
  <2> QED
    BY <2>2, <2>3
<1>9. ASSUME NEW unit \in 0..weight
      PROVE  \E k \in 1..n : \A j \in 1..n : Within(line[j], unit) <=> j = k
  <2> DEFINE S == {i \in 1..n : line[i].from <= unit}
             R == {q \in S \X S : q[1] > q[2]}
  <2>1. 1 \in S /\ unit \in Nat
    BY <1>1, <1>5
  <2>2. IsFiniteSet(S)
    <3>1. IsFiniteSet(1..n)
      <4>1. 1 \in Int /\ n \in Int
        BY <1>1
      <4> QED
        BY <4>1, FS_Interval
    <3> QED
      BY <3>1, FS_Subset
  <2>3. \A i, j \in S : <<i, j>> \in R <=> i > j
    OBVIOUS
  <2>4. \A i \in S : i \in Nat
    BY <1>1
  <2>5. \A i \in 1..n : i \in S <=> line[i].from <= unit
    OBVIOUS
  <2>6. S \subseteq 1..n
    OBVIOUS
  <2> HIDE DEF R, S
  <2>7. PICK k \in S : \A y \in S : <<y, k>> \notin R
    <3>1. \A a, b, c \in S : <<a, b>> \in R /\ <<b, c>> \in R => <<a, c>> \in R
      BY <2>3, <2>4
    <3>2. \A a \in S : <<a, a>> \notin R
      BY <2>3, <2>4
    <3>3. S # {}
      BY <2>1
    <3> QED
      BY <2>2, <3>1, <3>2, <3>3, SomeFirst
  <2>8. ASSUME NEW y \in S PROVE y <= k
    <3>1. ~(y > k)
      BY <2>3, <2>7
    <3> QED
      BY <2>4, <3>1
  <2>9. k \in 1..n /\ line[k].from <= unit
    BY <2>5, <2>6, <2>7
  <2>10. Within(line[k], unit)
    <3>1. CASE k = n
      <4>1. line[k].to = 0 \/ unit < line[k].to
        <5>1. line[k].to \in Int /\ (line[k].to = 0 \/ weight < line[k].to)
          BY <1>3, <1>6, <2>9, <3>1
        <5>2. unit <= weight
          OBVIOUS
        <5> QED
          BY <2>1, <5>1, <5>2
      <4> QED
        BY <2>9, <4>1 DEF Within
    <3>2. CASE k < n
      <4>1. k + 1 \in 1..n /\ k + 1 \notin S
        BY <1>1, <2>8, <2>9, <3>2
      <4>2. line[k].to # 0 /\ line[k + 1].from = line[k].to
        BY <1>1, <1>5, <2>9, <3>2
      <4>3. ~(line[k + 1].from <= unit) /\ line[k + 1].from \in Int
        BY <1>3, <2>5, <4>1
      <4> QED
        BY <2>1, <2>9, <4>2, <4>3 DEF Within
    <3> QED
      BY <1>1, <2>9, <3>1, <3>2
  <2>11. ASSUME NEW j \in 1..n, Within(line[j], unit) PROVE j = k
    <3>1. j <= k
      BY <2>5, <2>8, <2>11 DEF Within
    <3>2. CASE j < k
      <4>1. j < n /\ line[j].to # 0 /\ line[j + 1].from = line[j].to /\ j + 1 \in 1..n
        BY <1>1, <1>5, <2>9, <3>2
      <4>2. line[j + 1].from <= line[k].from
        <5>1. CASE j + 1 = k
          <6>1. line[k].from \in Int
            BY <1>3, <2>9
          <6>2. line[j + 1] = line[k]
            BY <5>1
          <6> QED
            BY <6>1, <6>2
        <5>2. CASE j + 1 < k
          BY <1>4, <2>9, <4>1, <5>2
        <5> QED
          BY <2>9, <3>2, <5>1, <5>2
      <4>3. unit < line[j].to
        BY <2>11, <4>1 DEF Within
      <4>4. line[k].from <= unit /\ line[j].to <= line[k].from /\ line[j].to \in Int /\ line[k].from \in Int
        BY <1>3, <2>9, <4>1, <4>2
      <4> QED
        BY <2>1, <4>3, <4>4
    <3> QED
      BY <2>9, <3>1, <3>2
  <2> QED
    BY <2>9, <2>10, <2>11
<1>10. ASSUME NEW unit \in 0..weight
       PROVE  \E i \in DOMAIN slabs : \A j \in DOMAIN slabs : Within(slabs[j], unit) <=> j = i
  <2>1. PICK k \in 1..n : \A j \in 1..n : Within(line[j], unit) <=> j = k
    BY <1>9
  <2>2. ASSUME NEW x \in 1..n PROVE Within(slabs[x], unit) <=> x = p[k]
    <3>1. PICK j \in 1..n : p[j] = x
      BY <1>3
    <3>2. Within(line[j], unit) <=> j = k
      BY <2>1
    <3>3. line[j] = slabs[x]
      BY <1>3, <3>1
    <3>4. p[j] = p[k] <=> j = k
      BY <1>3
    <3> QED
      BY <3>1, <3>2, <3>3, <3>4
  <2>3. p[k] \in DOMAIN slabs
    BY <1>1, <1>3
  <2> QED
    BY <1>1, <2>2, <2>3
<1> QED
  BY <1>8, <1>10

LEMMA PortionGrows ==
  ASSUME NEW slab, slab.from \in Int, slab.to \in Int, slab.from >= 0, slab.to # 0 => slab.from < slab.to, NEW w \in Nat
  PROVE  /\ Portion(slab, 0) = 0 /\ Portion(slab, w) \in Int
         /\ Portion(slab, w + 1) = Portion(slab, w) + IF Within(slab, w) THEN 1 ELSE 0
BY DEF Portion, AtLeast, AtMost, Within

\* The rate of the slab a unit of weight is in.
RateOf(slabs, unit) ==
  LET at == {s.rate : s \in {s \in ToSet(slabs) : s.from <= unit /\ (s.to = 0 \/ unit < s.to)}}
  IN CHOOSE r \in at : at = {r}

LEMMA RateOfHit ==
  ASSUME NEW slabs \in Seq(SlabRows), NEW unit, NEW i \in DOMAIN slabs,
         \A j \in DOMAIN slabs : Within(slabs[j], unit) <=> j = i
  PROVE  RateOf(slabs, unit) = slabs[i].rate /\ Hit(slabs, unit) = i
<1> DEFINE here == {s \in ToSet(slabs) : s.from <= unit /\ (s.to = 0 \/ unit < s.to)}
           at == {s.rate : s \in here}
<1>1. \A s : s \in here <=> \E j \in DOMAIN slabs : s = slabs[j] /\ Within(slabs[j], unit)
  BY DEF ToSet, Within
<1>2. here = {slabs[i]}
  <2> HIDE DEF here
  <2> QED
    BY <1>1
<1>3. at = {slabs[i].rate}
  BY <1>2
<1>4. RateOf(slabs, unit) = CHOOSE r \in at : at = {r}
  BY DEF RateOf
<1>5. RateOf(slabs, unit) = slabs[i].rate
  <2> HIDE DEF at
  <2> QED
    BY <1>3, <1>4
<1>6. Hit(slabs, unit) = CHOOSE j \in DOMAIN slabs : Within(slabs[j], unit)
  BY DEF Hit, Within
<1>7. Hit(slabs, unit) = i
  BY <1>6
<1> QED
  BY <1>5, <1>7

\* What the slabs' own parts come to is what each unit of weight does at its slab's rate.
LEMMA TiersCharge ==
  ASSUME NEW slabs \in Seq(SlabRows), NEW weight \in Nat,
         \A i \in DOMAIN slabs : slabs[i].from >= 0 /\ (slabs[i].to # 0 => slabs[i].from < slabs[i].to),
         \A unit \in 0..weight : \E i \in DOMAIN slabs :
              \A j \in DOMAIN slabs : Within(slabs[j], unit) <=> j = i
  PROVE  /\ SumFunctionOnSet([i \in DOMAIN slabs |-> Portion(slabs[i], weight) * slabs[i].rate], DOMAIN slabs)
              = SumFunctionOnSet([unit \in 0..(weight - 1) |-> RateOf(slabs, unit)], 0..(weight - 1))
         /\ SumFunctionOnSet([unit \in 0..(weight - 1) |-> RateOf(slabs, unit)], 0..(weight - 1)) \in Int
<1> DEFINE D == DOMAIN slabs
           tier(w) == [i \in D |-> Portion(slabs[i], w) * slabs[i].rate]
           unitRate(w) == [unit \in 0..(w - 1) |-> RateOf(slabs, unit)]
           Same(w) == /\ SumFunctionOnSet(tier(w), D) = SumFunctionOnSet(unitRate(w), 0..(w - 1))
                      /\ SumFunctionOnSet(unitRate(w), 0..(w - 1)) \in Int
           T == {w \in Nat : w <= weight => Same(w)}
<1>1. /\ IsFiniteSet(D)
      /\ \A i \in D : slabs[i].from \in Int /\ slabs[i].to \in Int /\ slabs[i].rate \in Int
  <2>1. D = 1..Len(slabs) /\ Len(slabs) \in Int /\ 1 \in Int
    BY SlabTypes
  <2>2. IsFiniteSet(D)
    BY <2>1, FS_Interval
  <2> QED
    BY <2>2, SlabTypes
<1>2. \A i \in D : \A w \in Nat :
        /\ Portion(slabs[i], 0) = 0 /\ Portion(slabs[i], w) \in Int
        /\ Portion(slabs[i], w + 1) = Portion(slabs[i], w) + IF Within(slabs[i], w) THEN 1 ELSE 0
  BY <1>1, PortionGrows
<1>3. \A w \in Nat : \A i \in D : tier(w)[i] = Portion(slabs[i], w) * slabs[i].rate /\ tier(w)[i] \in Int
  BY <1>1, <1>2, IntProducts
<1>4. ASSUME NEW unit \in 0..weight PROVE RateOf(slabs, unit) \in Int
  <2>1. PICK i \in D : \A j \in D : Within(slabs[j], unit) <=> j = i
    OBVIOUS
  <2>2. RateOf(slabs, unit) = slabs[i].rate
    BY <2>1, RateOfHit
  <2> QED
    BY <1>1, <2>2
<1>5. \A w \in Nat : IsFiniteSet(0..(w - 1))
  <2> TAKE w \in Nat
  <2>1. 0 \in Int /\ w - 1 \in Int
    OBVIOUS
  <2> QED
    BY <2>1, FS_Interval
<1>6. 0 \in T
  <2>1. SumFunctionOnSet(tier(0), D) = 0
    <3>1. ASSUME NEW i \in D PROVE tier(0)[i] = 0
      <4>1. tier(0)[i] = Portion(slabs[i], 0) * slabs[i].rate /\ Portion(slabs[i], 0) = 0 /\ slabs[i].rate \in Int
        BY <1>1, <1>2
      <4> QED
        BY <4>1
    <3> HIDE DEF tier
    <3> QED
      BY <1>1, <3>1, SumOfZeros
  <2>2. 0..(0 - 1) = {}
    OBVIOUS
  <2>3. SumFunctionOnSet(unitRate(0), {}) = 0
    BY SumOfNone
  <2> QED
    BY <2>1, <2>2, <2>3
<1>7. ASSUME NEW w \in Nat, w \in T PROVE w + 1 \in T
  <2>1. ASSUME w + 1 <= weight PROVE Same(w + 1)
    <3>1. Same(w) /\ w \in 0..weight
      BY <1>7, <2>1
    <3>2. PICK i \in D : \A j \in D : Within(slabs[j], w) <=> j = i
      BY <3>1
    <3>3. RateOf(slabs, w) = slabs[i].rate /\ slabs[i].rate \in Int
      BY <1>1, <3>2, RateOfHit
    <3>4. ASSUME NEW j \in D \ {i} PROVE tier(w + 1)[j] = tier(w)[j]
      <4>1. Portion(slabs[j], w + 1) = Portion(slabs[j], w) + 0 /\ Portion(slabs[j], w) \in Int
        BY <1>2, <3>2
      <4>2. Portion(slabs[j], w + 1) = Portion(slabs[j], w)
        BY <4>1
      <4> QED
        BY <4>2
    <3>5. tier(w + 1)[i] = tier(w)[i] + slabs[i].rate
      <4>1. Portion(slabs[i], w + 1) = Portion(slabs[i], w) + 1 /\ Portion(slabs[i], w) \in Int
        BY <1>2, <3>2
      <4> DEFINE a == Portion(slabs[i], w)
                 r == slabs[i].rate
      <4>2. a \in Int /\ r \in Int /\ tier(w + 1)[i] = (a + 1) * r /\ tier(w)[i] = a * r
        BY <1>1, <4>1
      <4> HIDE DEF a, r, tier
      <4>3. (a + 1) * r = a * r + r
        BY <4>2
      <4> QED
        BY <4>2, <4>3 DEF r
    <3>6. SumFunctionOnSet(tier(w + 1), D) = SumFunctionOnSet(tier(w), D) - tier(w)[i] + tier(w + 1)[i]
      <4>1. \A j \in D : tier(w)[j] \in Int /\ tier(w + 1)[j] \in Int
        <5>1. w + 1 \in Nat
          OBVIOUS
        <5> HIDE DEF tier, D
        <5> QED
          BY <1>3, <5>1
      <4> HIDE DEF tier, D
      <4> QED
        BY <1>1, <3>4, <4>1, SumChanges
    <3>7. SumFunctionOnSet(tier(w), D) \in Int /\ tier(w)[i] \in Int
      BY <1>3, <3>1
    <3>8. /\ 0..((w + 1) - 1) = 0..(w - 1) \cup {w} /\ w \notin 0..(w - 1)
          /\ \A u \in 0..(w - 1) \cup {w} : u \in 0..weight
      BY <3>1
    <3>9. SumFunctionOnSet(unitRate(w + 1), 0..((w + 1) - 1)) = SumFunctionOnSet(unitRate(w), 0..(w - 1)) + slabs[i].rate
      <4> DEFINE f == unitRate(w)
                 e == unitRate(w + 1)
                 U == 0..(w - 1)
      <4>1. \A u \in U : f[u] \in Int /\ e[u] = f[u]
        BY <1>4, <3>8
      <4>2. e[w] = slabs[i].rate
        BY <3>3
      <4>3. \A u \in U \cup {w} : e[u] \in Int
        BY <3>3, <4>1, <4>2
      <4>4. IsFiniteSet(U) /\ w \notin U /\ 0..((w + 1) - 1) = U \cup {w}
        BY <1>5, <3>8
      <4> HIDE DEF f, e, U
      <4>5. SumFunctionOnSet(e, U \cup {w}) = SumFunctionOnSet(e, U) + e[w]
        BY <4>3, <4>4, SumAdds
      <4>6. SumFunctionOnSet(e, U) = SumFunctionOnSet(f, U)
        BY <4>1, <4>4, SumOfSame
      <4> QED
        BY <4>2, <4>4, <4>5, <4>6 DEF e, f, U
    <3> HIDE DEF tier, unitRate, D
    <3> QED
      BY <3>1, <3>3, <3>5, <3>6, <3>7, <3>9
  <2> HIDE DEF Same
  <2> QED
    BY <2>1
<1>8. weight \in T
  <2> HIDE DEF T
  <2> QED
    BY <1>6, <1>7, NaturalsBySteps
<1> QED
  BY <1>8

\* What a formula of slabs charges, and every basis an amount.
LEMMA SlabPrice ==
  ASSUME NEW rule, rule \in Rules, rule.basis = "slab", NEW weight \in Nat, Covered(rule, weight)
  PROVE  /\ slabAmount(rule, weight) \in Int
         /\ rule.mode = "tiered" =>
              slabAmount(rule, weight) = Rounded(SumFunctionOnSet([unit \in 0..(weight - 1) |-> RateOf(rule.slabs, unit)], 0..(weight - 1)), PerGram)
         /\ rule.mode # "tiered" =>
              slabAmount(rule, weight) = Rounded(weight * RateOf(rule.slabs, weight), PerGram) /\ RateOf(rule.slabs, weight) \in Int
<1> DEFINE slabs == rule.slabs
           tier == [i \in DOMAIN slabs |-> Portion(slabs[i], weight) * slabs[i].rate]
           units == [unit \in 0..(weight - 1) |-> RateOf(slabs, unit)]
<1>1. slabs \in Seq(SlabRows) /\ rule.mode \in {"whole", "tiered"}
  BY DEF Rules
<1>2. validateSlabs(slabs) /\ (Sorted(slabs)[Len(slabs)].to = 0 \/ weight < Sorted(slabs)[Len(slabs)].to)
  BY DEF Covered
<1> HIDE DEF slabs
<1>3. /\ \A i \in DOMAIN slabs : slabs[i].from >= 0 /\ (slabs[i].to # 0 => slabs[i].from < slabs[i].to)
      /\ \A unit \in 0..weight : \E i \in DOMAIN slabs : \A j \in DOMAIN slabs : Within(slabs[j], unit) <=> j = i
  BY <1>1, <1>2, OneSlab
<1>4. CASE rule.mode = "tiered"
  <2>1. SumFunctionOnSet(tier, DOMAIN slabs) = SumFunctionOnSet(units, 0..(weight - 1))
        /\ SumFunctionOnSet(units, 0..(weight - 1)) \in Int
    BY <1>1, <1>3, TiersCharge
  <2>2. slabAmount(rule, weight) = Rounded(SumFunctionOnSet(tier, DOMAIN slabs), PerGram)
    BY <1>4 DEF slabAmount, slabs, Total, SumFunction
  <2>3. PerGram \in Nat
    BY DEF PerGram
  <2> HIDE DEF tier, units
  <2>4. slabAmount(rule, weight) = Rounded(SumFunctionOnSet(units, 0..(weight - 1)), PerGram) /\ slabAmount(rule, weight) \in Int
    BY <2>1, <2>2, <2>3, RoundedNear
  <2> QED
    BY <1>4, <2>4 DEF units, slabs
<1>5. CASE rule.mode = "whole"
  <2>1. PICK i \in DOMAIN slabs : \A j \in DOMAIN slabs : Within(slabs[j], weight) <=> j = i
    BY <1>3
  <2>2. RateOf(slabs, weight) = slabs[i].rate /\ Hit(slabs, weight) = i /\ slabs[i].rate \in Int
    BY <1>1, <2>1, RateOfHit, SlabTypes
  <2>3. slabAmount(rule, weight) = Rounded(weight * slabs[Hit(slabs, weight)].rate, PerGram)
    BY <1>5 DEF slabAmount, slabs
  <2>4. weight * slabs[i].rate \in Int /\ PerGram \in Nat
    BY <2>2, IntProducts DEF PerGram
  <2>5. slabAmount(rule, weight) \in Int
    BY <2>2, <2>3, <2>4, RoundedNear
  <2> QED
    BY <1>5, <2>2, <2>3, <2>5 DEF slabs
<1> QED
  BY <1>1, <1>4, <1>5

-------------------------------------------------------------------------------
\* What a line comes to is whole

LEMMA RateInt ==
  ASSUME rates \in RateSheets, NEW req, CounterLine(req)
  PROVE  rateFor(req) \in Int
<1> DEFINE rated == {p \in DOMAIN Fineness : rates[p] # 0}
           purest == CHOOSE p \in rated : \A q \in rated : Fineness[p] >= Fineness[q]
<1>1. /\ \A p \in DOMAIN Fineness : rates[p] \in Nat /\ Fineness[p] \in Nat
      /\ rates.pure \in Nat /\ req.purity \in DOMAIN Fineness /\ req.rate \in Int
  <2>1. rates \in [DOMAIN Fineness \cup {"pure"} -> Nat] /\ Fineness \in [DOMAIN Fineness -> Nat]
    BY PricingAssumption
  <2>2. rates["pure"] \in Nat /\ \A p \in DOMAIN Fineness : rates[p] \in Nat /\ Fineness[p] \in Nat
    BY <2>1
  <2> QED
    BY <2>2 DEF CounterLine
<1>2. rated # {} => purest \in rated
  <2> HAVE rated # {}
  <2> DEFINE R == {p \in rated \X rated : Fineness[p[1]] > Fineness[p[2]]}
  <2>1. IsFiniteSet(rated)
    BY PricingAssumption, FS_Subset
  <2>2. \A p, q \in rated : <<p, q>> \in R <=> Fineness[p] > Fineness[q]
    OBVIOUS
  <2>3. \A p \in rated : Fineness[p] \in Nat
    BY <1>1
  <2> HIDE DEF R, rated
  <2>4. PICK p \in rated : \A q \in rated : <<q, p>> \notin R
    <3>1. \A a, b, c \in rated : <<a, b>> \in R /\ <<b, c>> \in R => <<a, c>> \in R
      BY <2>2, <2>3
    <3>2. \A a \in rated : <<a, a>> \notin R
      BY <2>2, <2>3
    <3> QED
      BY <2>1, <3>1, <3>2, SomeFirst
  <2>5. \A q \in rated : Fineness[p] >= Fineness[q]
    <3> TAKE q \in rated
    <3>1. ~(Fineness[q] > Fineness[p])
      BY <2>2, <2>4
    <3> QED
      BY <2>3, <3>1
  <2> QED
    BY <2>5
<1>3. rated # {} => Rounded(rates[purest] * 100, Fineness[purest]) \in Int
  <2> HAVE rated # {}
  <2>1. purest \in DOMAIN Fineness
    BY <1>2
  <2>2. rates[purest] * 100 \in Int /\ Fineness[purest] \in Nat
    BY <1>1, <2>1
  <2> QED
    BY <2>2, RoundedNear
<1>4. Percent(rates.pure, Fineness[req.purity]) \in Int
  <2>1. rates.pure \in Int /\ Fineness[req.purity] \in Int
    BY <1>1
  <2> QED
    BY <2>1, PercentInt
<1>5. rateFor(req) = IF req.rate # 0 THEN req.rate
                     ELSE IF req.metalOn = "fine"
                          THEN IF rates.pure # 0 \/ rated = {} THEN rates.pure ELSE Rounded(rates[purest] * 100, Fineness[purest])
                     ELSE IF rates[req.purity] # 0 THEN rates[req.purity] ELSE Percent(rates.pure, Fineness[req.purity])
  BY DEF rateFor
<1> HIDE DEF rated, purest
<1> QED
  BY <1>1, <1>3, <1>4, <1>5

LEMMA RulesChosen ==
  ASSUME formulas \subseteq Formulas, NEW req, CounterLine(req)
  PROVE  /\ \A what \in {"making", "wastage"} : termsFor(what, req) \subseteq Rules /\ termsFor(what, req) # {}
         /\ hallmarkTerms(req) \subseteq Rules /\ hallmarkTerms(req) # {}
<1>1. NoRule \in Rules
  BY DEF NoRule, Rules
<1>2. \A what : {f.rule : f \in pick(what, req)} \subseteq Rules
  BY PricingAssumption DEF pick, Matching
<1>3. req.override \in Rules /\ req.tag["making"] \in Rules /\ req.tag["wastage"] \in Rules
  BY DEF CounterLine
<1>4. ASSUME NEW what \in {"making", "wastage"}
      PROVE  termsFor(what, req) \subseteq Rules /\ termsFor(what, req) # {}
  <2>1. req.tag[what] \in Rules
    BY <1>3
  <2>2. pick(what, req) # {} => {f.rule : f \in pick(what, req)} # {}
    OBVIOUS
  <2> QED
    BY <1>1, <1>2, <1>3, <2>1, <2>2 DEF termsFor
<1>5. hallmarkTerms(req) \subseteq Rules /\ hallmarkTerms(req) # {}
  <2>1. pick("hallmark", req) # {} => {f.rule : f \in pick("hallmark", req)} # {}
    OBVIOUS
  <2> QED
    BY <1>1, <1>2, <2>1 DEF hallmarkTerms
<1> QED
  BY <1>4, <1>5

LEMMA RuleAmountInt ==
  ASSUME NEW rule \in Rules, NEW weight \in Nat, NEW metal \in Int, NEW qty \in Nat, Covered(rule, weight)
  PROVE  /\ ruleAmount(rule, weight, metal, qty) \in Int
         /\ rule.basis = "slab" =>
              ruleAmount(rule, weight, metal, qty) = AtLeast(rule.minimum * qty, slabAmount(rule, weight))
<1>1. /\ rule.basis \in {"none", "per_gram", "percent", "flat", "hybrid", "slab"}
      /\ rule.rate \in Int /\ rule.flat \in Int /\ rule.minimum \in Int
  BY DEF Rules
<1> DEFINE amount == CASE rule.basis = "none" -> 0
                       [] rule.basis = "per_gram" -> Rounded(weight * rule.rate, PerGram)
                       [] rule.basis = "percent" -> Percent(metal, rule.rate)
                       [] rule.basis = "flat" -> rule.rate * qty
                       [] rule.basis = "hybrid" -> rule.flat * qty + Percent(metal, rule.rate)
                       [] rule.basis = "slab" -> slabAmount(rule, weight)
           least == rule.minimum * qty
<1>2. /\ weight * rule.rate \in Int /\ rule.rate * qty \in Int /\ rule.flat * qty \in Int /\ least \in Int
      /\ Percent(metal, rule.rate) \in Int
  <2>1. weight \in Int /\ qty \in Int /\ metal \in Int
    OBVIOUS
  <2>2. Percent(metal, rule.rate) \in Int
    BY <1>1, <2>1, PercentInt
  <2>3. weight * rule.rate \in Int /\ rule.rate * qty \in Int /\ rule.flat * qty \in Int /\ rule.minimum * qty \in Int
    BY <1>1, <2>1, IntProducts
  <2> QED
    BY <2>2, <2>3
<1>3. Rounded(weight * rule.rate, PerGram) \in Int
  BY <1>2, RoundedNear DEF PerGram
<1>4. rule.basis = "slab" => slabAmount(rule, weight) \in Int
  BY SlabPrice
<1>5. amount \in Int /\ (rule.basis = "slab" => amount = slabAmount(rule, weight))
  <2> DEFINE w == weight * rule.rate
             f == rule.flat * qty
             r == rule.rate * qty
  <2>1. w \in Int /\ f \in Int /\ r \in Int
    BY <1>2
  <2> HIDE DEF w, f, r
  <2>2. rule.basis = "none" => amount = 0
    OBVIOUS
  <2>3. rule.basis = "per_gram" => amount = Rounded(w, PerGram)
    BY DEF w
  <2>4. rule.basis = "percent" => amount = Percent(metal, rule.rate)
    OBVIOUS
  <2>5. rule.basis = "flat" => amount = r
    BY DEF r
  <2>6. rule.basis = "hybrid" => amount = f + Percent(metal, rule.rate)
    BY DEF f
  <2>7. rule.basis = "slab" => amount = slabAmount(rule, weight)
    OBVIOUS
  <2>8. Rounded(w, PerGram) \in Int
    BY <1>3 DEF w
  <2>9. f + Percent(metal, rule.rate) \in Int
    BY <1>2, <2>1
  <2> HIDE DEF amount
  <2> QED
    BY <1>1, <1>2, <1>4, <2>1, <2>2, <2>3, <2>4, <2>5, <2>6, <2>7, <2>8, <2>9
<1>6. ruleAmount(rule, weight, metal, qty) = AtLeast(amount, least)
  BY DEF ruleAmount
<1> HIDE DEF amount, least
<1>7. AtLeast(amount, least) \in Int /\ AtLeast(amount, least) = AtLeast(least, amount)
  BY <1>2, <1>5 DEF AtLeast
<1> QED
  BY <1>5, <1>6, <1>7 DEF least

MakingWeight(req) == IF req.makingOn = "gross" THEN req.gross ELSE req.gross - req.stoneWeight

\* The five parts of a line are whole; the third is what its making formula charges.
LEMMA PartsWhole ==
  ASSUME rates \in RateSheets, NEW req, CounterLine(req),
         NEW making \in Rules, NEW wastage \in Rules, NEW hallmark \in Rules, Priceable(req, making, wastage, hallmark)
  PROVE  LET parts == PartsOf(req, making, wastage, hallmark) IN
         /\ DOMAIN parts = 1..5 /\ \A i \in 1..5 : parts[i] \in Int
         /\ MakingWeight(req) \in Nat /\ Covered(making, MakingWeight(req))
         /\ making.basis = "slab" =>
              parts[3] = AtLeast(making.minimum * req.qty, slabAmount(making, MakingWeight(req)))
<1> DEFINE net == req.gross - req.stoneWeight
           rate == rateFor(req)
           weight == CASE req.metalOn = "fine" -> Percent(net, Fineness[req.purity])
                       [] req.metalOn = "gross" -> req.gross
                       [] OTHER -> net
           metal == Rounded(weight * rate, PerGram)
           second == IF wastage.basis = "percent" THEN Rounded(Percent(weight, wastage.rate) * rate, PerGram)
                     ELSE ruleAmount(wastage, net, metal, req.qty)
           third == ruleAmount(making, MakingWeight(req), metal, req.qty)
           fifth == IF hallmark = NoRule THEN req.hallmark ELSE ruleAmount(hallmark, net, metal, req.qty)
           parts == PartsOf(req, making, wastage, hallmark)
<1>1. /\ req.gross \in Nat /\ req.stoneWeight \in Nat /\ req.qty \in Nat /\ req.stoneAmount \in Int /\ req.hallmark \in Int
      /\ req.purity \in DOMAIN Fineness
  BY DEF CounterLine
<1>2. /\ net \in Int /\ net >= 0 /\ MakingWeight(req) \in Nat /\ Covered(making, MakingWeight(req))
      /\ Covered(wastage, net) /\ Covered(hallmark, net)
  BY <1>1 DEF Priceable, MakingWeight
<1>3. parts = <<metal, second, third, req.stoneAmount, fifth>>
  BY DEF PartsOf, MakingWeight
<1>4. rate \in Int
  BY RateInt
<1>5. weight \in Int
  <2>1. Fineness[req.purity] \in Int
    BY <1>1, PricingAssumption
  <2>2. Percent(net, Fineness[req.purity]) \in Int
    BY <1>2, <2>1, PercentInt
  <2> QED
    BY <1>1, <1>2, <2>2
<1> HIDE DEF rate, weight
<1>6. PerGram \in Nat
  BY DEF PerGram
<1>7. metal \in Int
  <2>1. weight * rate \in Int
    BY <1>4, <1>5
  <2> QED
    BY <1>6, <2>1, RoundedNear
<1>8. wastage.rate \in Int
  BY DEF Rules
<1>9. second \in Int
  <2>1. Percent(weight, wastage.rate) \in Int
    BY <1>5, <1>8, PercentInt
  <2>2. Percent(weight, wastage.rate) * rate \in Int
    BY <1>4, <2>1, IntProducts
  <2>3. Rounded(Percent(weight, wastage.rate) * rate, PerGram) \in Int
    BY <1>6, <2>2, RoundedNear
  <2>4. net \in Nat
    BY <1>2
  <2> HIDE DEF metal, net
  <2>5. ruleAmount(wastage, net, metal, req.qty) \in Int
    BY <1>1, <1>2, <1>7, <2>4, RuleAmountInt
  <2> QED
    BY <2>3, <2>5
<1>10. /\ third \in Int
       /\ making.basis = "slab" => third = AtLeast(making.minimum * req.qty, slabAmount(making, MakingWeight(req)))
  <2> HIDE DEF metal
  <2> QED
    BY <1>1, <1>2, <1>7, RuleAmountInt
<1>11. fifth \in Int
  <2>1. net \in Nat
    BY <1>2
  <2> HIDE DEF metal, net
  <2>2. ruleAmount(hallmark, net, metal, req.qty) \in Int
    BY <1>1, <1>2, <1>7, <2>1, RuleAmountInt
  <2> QED
    BY <1>1, <2>2
<1> HIDE DEF metal, second, third, fifth, parts
<1>12. /\ DOMAIN parts = 1..5 /\ parts[1] = metal /\ parts[2] = second /\ parts[3] = third
       /\ parts[4] = req.stoneAmount /\ parts[5] = fifth
  BY <1>3
<1>13. \A i \in 1..5 : i = 1 \/ i = 2 \/ i = 3 \/ i = 4 \/ i = 5
  OBVIOUS
<1>14. \A i \in 1..5 : parts[i] \in Int
  BY <1>1, <1>7, <1>9, <1>10, <1>11, <1>12, <1>13
<1> QED
  BY <1>2, <1>10, <1>12, <1>14 DEF parts

-------------------------------------------------------------------------------
\* The formula that wins

AllLevels == {"item", "category", "purity", "metal", "branch"}

\* What a set of levels weighs.
Weighed(L) ==
  (IF "item" \in L THEN 16 ELSE 0) + (IF "category" \in L THEN 8 ELSE 0) + (IF "purity" \in L THEN 4 ELSE 0)
  + (IF "metal" \in L THEN 2 ELSE 0) + (IF "branch" \in L THEN 1 ELSE 0)

LEMMA LevelsAdded ==
  ASSUME NEW f, \A l \in AllLevels : f[l] \in Int
  PROVE  SumFunctionOnSet(f, AllLevels) = f["item"] + f["category"] + f["purity"] + f["metal"] + f["branch"]
<1> DEFINE a == "item"
           b == "category"
           c == "purity"
           d == "metal"
           g == "branch"
<1>0. a # b /\ a # c /\ a # d /\ a # g /\ b # c /\ b # d /\ b # g /\ c # d /\ c # g /\ d # g
  OBVIOUS
<1>1. f[a] \in Int /\ f[b] \in Int /\ f[c] \in Int /\ f[d] \in Int /\ f[g] \in Int
  BY DEF AllLevels
<1> HIDE DEF a, b, c, d, g
<1>2. IsFiniteSet({}) /\ SumFunctionOnSet(f, {}) = 0
  BY FS_EmptySet, SumOfNone
<1>3. IsFiniteSet({g}) /\ SumFunctionOnSet(f, {g}) = f[g]
  <2>1. g \notin {} /\ {} \cup {g} = {g} /\ \A x \in {} \cup {g} : f[x] \in Int
    BY <1>0, <1>1
  <2>2. SumFunctionOnSet(f, {} \cup {g}) = SumFunctionOnSet(f, {}) + f[g]
    BY <1>2, <2>1, SumAdds
  <2>3. IsFiniteSet({g})
    BY FS_Singleton
  <2>4. SumFunctionOnSet(f, {g}) = 0 + f[g]
    BY <1>2, <2>1, <2>2
  <2> QED
    BY <1>1, <2>3, <2>4
<1>4. IsFiniteSet({d, g}) /\ SumFunctionOnSet(f, {d, g}) = f[g] + f[d]
  <2>1. d \notin {g} /\ {g} \cup {d} = {d, g} /\ \A x \in {g} \cup {d} : f[x] \in Int
    BY <1>0, <1>1
  <2>2. SumFunctionOnSet(f, {g} \cup {d}) = SumFunctionOnSet(f, {g}) + f[d]
    BY <1>3, <2>1, SumAdds
  <2>3. IsFiniteSet({g} \cup {d})
    BY <1>3, FS_AddElement
  <2>4. {g} \cup {d} = {d, g}
    BY <2>1
  <2>5. IsFiniteSet({d, g})
    BY <2>3, <2>4
  <2> QED
    BY <1>3, <2>2, <2>4, <2>5
<1>5. IsFiniteSet({c, d, g}) /\ SumFunctionOnSet(f, {c, d, g}) = f[g] + f[d] + f[c]
  <2>1. c \notin {d, g} /\ {d, g} \cup {c} = {c, d, g} /\ \A x \in {d, g} \cup {c} : f[x] \in Int
    BY <1>0, <1>1
  <2>2. SumFunctionOnSet(f, {d, g} \cup {c}) = SumFunctionOnSet(f, {d, g}) + f[c]
    BY <1>4, <2>1, SumAdds
  <2>3. IsFiniteSet({d, g} \cup {c})
    BY <1>4, FS_AddElement
  <2>4. {d, g} \cup {c} = {c, d, g}
    BY <2>1
  <2>5. IsFiniteSet({c, d, g})
    BY <2>3, <2>4
  <2> QED
    BY <1>4, <2>2, <2>4, <2>5
<1>6. IsFiniteSet({b, c, d, g}) /\ SumFunctionOnSet(f, {b, c, d, g}) = f[g] + f[d] + f[c] + f[b]
  <2>1. b \notin {c, d, g} /\ {c, d, g} \cup {b} = {b, c, d, g} /\ \A x \in {c, d, g} \cup {b} : f[x] \in Int
    BY <1>0, <1>1
  <2>2. SumFunctionOnSet(f, {c, d, g} \cup {b}) = SumFunctionOnSet(f, {c, d, g}) + f[b]
    BY <1>5, <2>1, SumAdds
  <2>3. IsFiniteSet({c, d, g} \cup {b})
    BY <1>5, FS_AddElement
  <2>4. {c, d, g} \cup {b} = {b, c, d, g}
    BY <2>1
  <2>5. IsFiniteSet({b, c, d, g})
    BY <2>3, <2>4
  <2> QED
    BY <1>5, <2>2, <2>4, <2>5
<1>7. SumFunctionOnSet(f, {a, b, c, d, g}) = f[g] + f[d] + f[c] + f[b] + f[a]
  <2>1. a \notin {b, c, d, g} /\ {b, c, d, g} \cup {a} = {a, b, c, d, g} /\ \A x \in {b, c, d, g} \cup {a} : f[x] \in Int
    BY <1>0, <1>1
  <2>2. SumFunctionOnSet(f, {b, c, d, g} \cup {a}) = SumFunctionOnSet(f, {b, c, d, g}) + f[a]
    BY <1>6, <2>1, SumAdds
  <2> QED
    BY <1>6, <2>1, <2>2
<1> QED
  BY <1>1, <1>7 DEF AllLevels, a, b, c, d, g

LEMMA LevelsWeigh ==
  ASSUME NEW L \in SUBSET AllLevels
  PROVE  SumFunctionOnSet(Weight, L) = Weighed(L)
<1> DEFINE e == [l \in AllLevels |-> IF l \in L THEN Weight[l] ELSE 0]
<1>1. \A l \in AllLevels : Weight[l] \in Int
  BY DEF Weight, AllLevels
<1>2. IsFiniteSet(AllLevels)
  <2>1. IsFiniteSet({"item"} \cup {"category"} \cup {"purity"} \cup {"metal"} \cup {"branch"})
    BY FS_Singleton, FS_Union
  <2>2. AllLevels = {"item"} \cup {"category"} \cup {"purity"} \cup {"metal"} \cup {"branch"}
    BY DEF AllLevels
  <2> QED
    BY <2>1, <2>2
<1>3. /\ \A l \in L : Weight[l] \in Int /\ e[l] = Weight[l]
      /\ \A l \in AllLevels \ L : e[l] = 0
      /\ \A l \in AllLevels : e[l] \in Int
  BY <1>1
<1>4. SumFunctionOnSet(Weight, L) = SumFunctionOnSet(e, AllLevels)
  <2> HIDE DEF e
  <2> QED
    BY <1>2, <1>3, SumOfPart
<1>5. /\ e["item"] = (IF "item" \in L THEN 16 ELSE 0) /\ e["category"] = (IF "category" \in L THEN 8 ELSE 0)
      /\ e["purity"] = (IF "purity" \in L THEN 4 ELSE 0) /\ e["metal"] = (IF "metal" \in L THEN 2 ELSE 0)
      /\ e["branch"] = (IF "branch" \in L THEN 1 ELSE 0)
  BY DEF Weight, AllLevels
<1>6. SumFunctionOnSet(e, AllLevels) = e["item"] + e["category"] + e["purity"] + e["metal"] + e["branch"]
  <2> HIDE DEF e
  <2> QED
    BY <1>3, LevelsAdded
<1> HIDE DEF e
<1> QED
  BY <1>4, <1>5, <1>6 DEF Weighed

\* A formula ranks as the levels that count for it weigh.
LEMMA RankWeighs ==
  ASSUME NEW f, DOMAIN f.scope \subseteq AllLevels, NEW req
  PROVE  LevelsOf(f, req) \subseteq AllLevels /\ rank(f, req) = Weighed(LevelsOf(f, req))
<1> DEFINE L == DOMAIN f.scope
<1>1. specificity(f) = Weighed(L)
  BY LevelsWeigh DEF specificity
<1>2. LevelsOf(f, req) = IF linkedHere(f, req) /\ "item" \notin L /\ "category" \notin L THEN {"category"} ELSE L
  BY DEF LevelsOf
<1>3. rank(f, req) = IF linkedHere(f, req) THEN AtLeast(Weighed(L), 8) ELSE Weighed(L)
  BY <1>1 DEF rank
<1>4. Weighed({"category"}) = 8
  BY DEF Weighed
<1>5. "item" \notin L /\ "category" \notin L => AtLeast(Weighed(L), 8) = 8
  BY DEF Weighed, AtLeast
<1>6. "item" \in L \/ "category" \in L => AtLeast(Weighed(L), 8) = Weighed(L)
  BY DEF Weighed, AtLeast
<1> HIDE DEF L
<1>7. LevelsOf(f, req) \subseteq AllLevels
  BY <1>2 DEF AllLevels, L
<1> QED
  BY <1>2, <1>3, <1>4, <1>5, <1>6, <1>7

\* Level by level, and by what they weigh, come to the same.
LEMMA SpecificWeighs ==
  ASSUME NEW a, NEW b, NEW req, DOMAIN a.scope \subseteq AllLevels, DOMAIN b.scope \subseteq AllLevels
  PROVE  /\ rank(a, req) \in Int /\ rank(b, req) \in Int
         /\ MoreSpecific(a, b, req) <=> rank(a, req) > rank(b, req)
<1> DEFINE A == LevelsOf(a, req)
           B == LevelsOf(b, req)
<1>1. rank(a, req) = Weighed(A) /\ rank(b, req) = Weighed(B)
  BY RankWeighs
<1> DEFINE In(i) == Levels[i] \in A
           Out(i) == Levels[i] \in B
           At(i) == Levels[i] \in A \ B /\ \A j \in 1..(i - 1) : Levels[j] \in A <=> Levels[j] \in B
<1>2. DOMAIN Levels = 1..5 /\ Levels[1] = "item" /\ Levels[2] = "category" /\ Levels[3] = "purity" /\ Levels[4] = "metal" /\ Levels[5] = "branch"
  BY DEF Levels
<1>3. MoreSpecific(a, b, req) <=> \E i \in 1..5 : At(i)
  BY <1>2 DEF MoreSpecific
<1>4. (\E i \in 1..5 : At(i)) <=> At(1) \/ At(2) \/ At(3) \/ At(4) \/ At(5)
  <2>1. \A i \in 1..5 : i = 1 \/ i = 2 \/ i = 3 \/ i = 4 \/ i = 5
    OBVIOUS
  <2>2. 1 \in 1..5 /\ 2 \in 1..5 /\ 3 \in 1..5 /\ 4 \in 1..5 /\ 5 \in 1..5
    OBVIOUS
  <2> HIDE DEF At
  <2> QED
    BY <2>1, <2>2
<1> HIDE DEF A, B
<1>5. At(1) <=> "item" \in A \ B
  BY <1>2
<1>6. At(2) <=> "category" \in A \ B /\ ("item" \in A <=> "item" \in B)
  <2>1. \A j : j \in 1..(2 - 1) <=> j = 1
    OBVIOUS
  <2> QED
    BY <1>2, <2>1
<1>7. At(3) <=> "purity" \in A \ B /\ ("item" \in A <=> "item" \in B) /\ ("category" \in A <=> "category" \in B)
  <2>1. \A j : j \in 1..(3 - 1) <=> j = 1 \/ j = 2
    OBVIOUS
  <2> QED
    BY <1>2, <2>1
<1>8. At(4) <=> /\ "metal" \in A \ B /\ ("item" \in A <=> "item" \in B) /\ ("category" \in A <=> "category" \in B)
                /\ ("purity" \in A <=> "purity" \in B)
  <2>1. \A j : j \in 1..(4 - 1) <=> j = 1 \/ j = 2 \/ j = 3
    OBVIOUS
  <2> QED
    BY <1>2, <2>1
<1>9. At(5) <=> /\ "branch" \in A \ B /\ ("item" \in A <=> "item" \in B) /\ ("category" \in A <=> "category" \in B)
                /\ ("purity" \in A <=> "purity" \in B) /\ ("metal" \in A <=> "metal" \in B)
  <2>1. \A j : j \in 1..(5 - 1) <=> j = 1 \/ j = 2 \/ j = 3 \/ j = 4
    OBVIOUS
  <2> QED
    BY <1>2, <2>1
<1> HIDE DEF At
<1>10. Weighed(A) \in Int /\ Weighed(B) \in Int
  BY DEF Weighed
<1>11. At(1) \/ At(2) \/ At(3) \/ At(4) \/ At(5) <=> Weighed(A) > Weighed(B)
  BY <1>5, <1>6, <1>7, <1>8, <1>9 DEF Weighed
<1> QED
  BY <1>1, <1>3, <1>4, <1>10, <1>11

LEMMA FirstWins ==
  ASSUME formulas \subseteq Formulas, NEW req, NEW what
  PROVE  /\ Matching(what, req) # {} => pick(what, req) # {}
         /\ \A f \in pick("making", req) : f \in Matching("making", req) /\ Wins(f, req)
<1>1. \A k : \A f \in Matching(k, req) : /\ DOMAIN f.scope \subseteq AllLevels /\ f.priority \in Int /\ f.since \in Int
                                         /\ rank(f, req) \in Int
  <2>1. \A k : Matching(k, req) \subseteq Formulas
    BY DEF Matching
  <2>2. \A f \in Formulas : DOMAIN f.scope \subseteq AllLevels /\ f.priority \in Int /\ f.since \in Int
    BY PricingAssumption DEF AllLevels
  <2> QED
    BY <2>1, <2>2, SpecificWeighs
<1>2. Matching(what, req) # {} => pick(what, req) # {}
  <2> HAVE Matching(what, req) # {}
  <2> DEFINE S == Matching(what, req)
             R == {p \in S \X S : Before(p[1], p[2], req)}
  <2>1. IsFiniteSet(S)
    <3>1. S \subseteq Formulas
      BY DEF Matching
    <3> QED
      BY <3>1, PricingAssumption, FS_Subset
  <2>2. \A f, g \in S : <<f, g>> \in R <=> Before(f, g, req)
    OBVIOUS
  <2>3. \A f \in S : f.priority \in Int /\ f.since \in Int /\ rank(f, req) \in Int
    BY <1>1
  <2> HIDE DEF R, S
  <2>4. ASSUME NEW f \in S, NEW g \in S, NEW h \in S, Before(f, g, req), Before(g, h, req)
        PROVE  Before(f, h, req)
    BY <2>3, <2>4 DEF Before
  <2>5. \A f \in S : ~Before(f, f, req)
    BY <2>3 DEF Before
  <2>6. PICK f \in S : \A g \in S : <<g, f>> \notin R
    <3>1. S # {}
      BY DEF S
    <3> QED
      BY <2>1, <2>2, <2>4, <2>5, <3>1, SomeFirst
  <2>7. f \in pick(what, req)
    BY <2>2, <2>6 DEF pick, S
  <2> QED
    BY <2>7
<1>3. ASSUME NEW f \in pick("making", req), NEW g \in Matching("making", req)
      PROVE  /\ ~MoreSpecific(g, f, req)
             /\ MoreSpecific(f, g, req) \/ g.priority < f.priority \/ (g.priority = f.priority /\ g.since <= f.since)
  <2>1. f \in Matching("making", req) /\ ~Before(g, f, req)
    BY DEF pick
  <2>2. /\ f.priority \in Int /\ f.since \in Int /\ rank(f, req) \in Int
        /\ g.priority \in Int /\ g.since \in Int /\ rank(g, req) \in Int
    BY <1>1, <2>1
  <2>3. /\ MoreSpecific(g, f, req) <=> rank(g, req) > rank(f, req)
        /\ MoreSpecific(f, g, req) <=> rank(f, req) > rank(g, req)
    BY <1>1, <2>1, SpecificWeighs
  <2> QED
    BY <2>1, <2>2, <2>3 DEF Before
<1>4. \A f \in pick("making", req) : f \in Matching("making", req)
  BY DEF pick
<1> QED
  BY <1>2, <1>3, <1>4 DEF Wins

-------------------------------------------------------------------------------
\* Lines

LEMMA TotalOf ==
  ASSUME NEW S, IsFiniteSet(S), NEW f, \A x \in S : f[x] \in Int
  PROVE  Total([x \in S |-> f[x]]) = SumFunctionOnSet(f, S) /\ SumFunctionOnSet(f, S) \in Int
<1> DEFINE e == [x \in S |-> f[x]]
<1>1. DOMAIN e = S /\ \A x \in S : f[x] \in Int /\ e[x] = f[x]
  OBVIOUS
<1>2. Total(e) = SumFunctionOnSet(e, S)
  BY <1>1 DEF Total, SumFunction
<1> HIDE DEF e
<1>3. SumFunctionOnSet(e, S) = SumFunctionOnSet(f, S) /\ SumFunctionOnSet(f, S) \in Int
  BY <1>1, SumOfSame
<1> QED
  BY <1>2, <1>3 DEF e

LEMMA TargetFacts ==
  /\ IsFiniteSet(1..5) /\ 1..5 \subseteq Nat
  /\ \A on \in {"making", "charges", "total"} : DiscountTargets[on] \in SUBSET (1..5) /\ IsFiniteSet(DiscountTargets[on])
  /\ DiscountTargets["charges"] = {2, 3}
<1>1. IsFiniteSet(1..5)
  <2>1. 1 \in Int /\ 5 \in Int
    OBVIOUS
  <2> QED
    BY <2>1, FS_Interval
<1>2. \A on \in {"making", "charges", "total"} : DiscountTargets[on] \in SUBSET (1..5)
  BY DEF DiscountTargets
<1>3. DiscountTargets["charges"] = {2, 3}
  BY DEF DiscountTargets
<1>4. 1..5 \subseteq Nat
  OBVIOUS
<1> QED
  BY <1>1, <1>2, <1>3, <1>4, FS_Subset

\* A line's price is its parts, less the discount, and their tax.
PriceTold(p, req, targets, parts, discount) ==
  LET whole == SumFunctionOnSet(parts, targets) IN
  /\ whole \in Int /\ DOMAIN p.shares = 1..5 /\ \A i \in 1..5 : p.shares[i] \in Int
  /\ \A i \in 1..5 \ targets : p.shares[i] = 0
  /\ discount = 0 => \A i \in 1..5 : p.shares[i] = 0
  /\ discount # 0 => /\ p.shares = allocate(discount, parts, targets)
                     /\ \A i \in targets :
                          /\ 2 * (p.shares[i] * whole - discount * parts[i]) <= Cardinality(targets) * whole
                          /\ -2 * (p.shares[i] * whole - discount * parts[i]) <= Cardinality(targets) * whole
  /\ Total(p.shares) = discount
  /\ p.taxable = Total(parts) - discount
  /\ p.lineTotal = p.taxable + p.cgst + p.sgst + p.igst /\ p.lineTotal \in Int
  /\ p.gst = p.cgst + p.sgst + p.igst
  /\ ~req.interState => p.cgst - p.sgst \in -1..1

LEMMA PriceAdds ==
  ASSUME NEW req, CounterLine(req), NEW on \in {"making", "charges", "total"},
         NEW parts, DOMAIN parts = 1..5, \A i \in 1..5 : parts[i] \in Int,
         NEW discount \in Int, discount # 0 => SumFunctionOnSet(parts, DiscountTargets[on]) > 0
  PROVE  PriceTold(Priced(req, on, parts, discount), req, DiscountTargets[on], parts, discount)
<1> DEFINE p == Priced(req, on, parts, discount)
           targets == DiscountTargets[on]
           whole == SumFunctionOnSet(parts, targets)
<1> DEFINE shares == IF discount = 0 THEN [i \in DOMAIN parts |-> 0] ELSE allocate(discount, parts, DiscountTargets[on])
           taxable == [i \in DOMAIN parts |-> parts[i] - shares[i]]
           taxes == [i \in DOMAIN parts |-> IF parts[i] = 0 THEN 0 ELSE Percent(taxable[i], req.gst[i])]
           gst == Total(taxes)
           cgst == IF req.interState THEN 0 ELSE Rounded(gst, 2)
           sgst == IF req.interState THEN 0 ELSE gst - cgst
           igst == IF req.interState THEN gst ELSE 0
<1>1. /\ p.shares = shares /\ p.taxable = Total(taxable) /\ p.gst = gst /\ p.cgst = cgst /\ p.sgst = sgst /\ p.igst = igst
      /\ p.lineTotal = Total(taxable) + gst
  BY DEF Priced
<1> HIDE DEF p
<1>2. IsFiniteSet(1..5) /\ 1..5 \subseteq Nat /\ targets \in SUBSET (1..5) /\ IsFiniteSet(targets)
  BY TargetFacts
<1>3. whole \in Int
  BY <1>2, SumInt
<1> HIDE DEF whole
<1>4. /\ DOMAIN shares = 1..5 /\ \A i \in 1..5 : shares[i] \in Int
      /\ \A i \in 1..5 \ targets : shares[i] = 0
      /\ discount = 0 => \A i \in 1..5 : shares[i] = 0
      /\ discount # 0 => /\ shares = allocate(discount, parts, targets)
                         /\ \A i \in targets :
                              /\ 2 * (shares[i] * whole - discount * parts[i]) <= Cardinality(targets) * whole
                              /\ -2 * (shares[i] * whole - discount * parts[i]) <= Cardinality(targets) * whole
      /\ SumFunctionOnSet(shares, 1..5) = discount
  <2>1. CASE discount = 0
    <3>1. DOMAIN shares = 1..5 /\ \A i \in 1..5 : shares[i] = 0 /\ shares[i] \in Int
      BY <2>1
    <3> HIDE DEF shares
    <3>2. SumFunctionOnSet(shares, 1..5) = discount
      BY <1>2, <2>1, <3>1, SumOfZeros
    <3> QED
      BY <2>1, <3>1, <3>2
  <2>2. CASE discount # 0
    <3>1. shares = allocate(discount, parts, targets)
      BY <2>2
    <3>2. SumFunctionOnSet(parts, targets) > 0 /\ IsFiniteSet(DOMAIN parts) /\ DOMAIN parts \subseteq Nat /\ targets \in SUBSET DOMAIN parts
      BY <1>2, <2>2
    <3> HIDE DEF shares
    <3>3. DOMAIN shares = DOMAIN parts /\ \A i \in DOMAIN parts : shares[i] \in Int
      BY <3>1, <3>2, SharesAddUp DEF whole
    <3>4. \A i \in DOMAIN parts \ targets : shares[i] = 0
      BY <3>1, <3>2, SharesAddUp DEF whole
    <3>5. SumFunctionOnSet(shares, DOMAIN parts) = discount
      BY <3>1, <3>2, SharesAddUp DEF whole
    <3>6. \A i \in targets : /\ 2 * (shares[i] * whole - discount * parts[i]) <= Cardinality(targets) * whole
                             /\ -2 * (shares[i] * whole - discount * parts[i]) <= Cardinality(targets) * whole
      BY <3>1, <3>2, SharesAddUp DEF whole
    <3> QED
      BY <2>2, <3>1, <3>3, <3>4, <3>5, <3>6
  <2> QED
    BY <2>1, <2>2
<1> HIDE DEF shares
<1>5. DOMAIN taxable = 1..5 /\ \A i \in 1..5 : taxable[i] \in Int /\ parts[i] = taxable[i] + shares[i]
  BY <1>4
<1>6. DOMAIN taxes = 1..5 /\ \A i \in 1..5 : taxes[i] \in Int
  <2>1. \A i \in 1..5 : req.gst[i] \in Int
    BY DEF CounterLine
  <2>2. \A i \in 1..5 : Percent(taxable[i], req.gst[i]) \in Int
    BY <1>5, <2>1, PercentInt
  <2> HIDE DEF taxable
  <2> QED
    BY <2>2
<1> HIDE DEF taxable, taxes
<1>7. Total(parts) = Total(taxable) + discount /\ Total(taxable) \in Int
  <2>1. SumFunctionOnSet(parts, 1..5) = SumFunctionOnSet(taxable, 1..5) + SumFunctionOnSet(shares, 1..5)
    BY <1>2, <1>4, <1>5, SumOfSums
  <2>2. SumFunctionOnSet(taxable, 1..5) \in Int
    BY <1>2, <1>5, SumInt
  <2> QED
    BY <1>4, <1>5, <2>1, <2>2 DEF Total, SumFunction
<1>8. gst \in Int
  BY <1>2, <1>6, SumInt DEF Total, SumFunction
<1>9. Total(shares) = discount
  BY <1>4 DEF Total, SumFunction
<1> HIDE DEF gst
<1>10. cgst \in Int /\ (~req.interState => 2 * (cgst * 2 - gst) <= 2 /\ -2 <= 2 * (cgst * 2 - gst))
  <2>1. 2 \in Nat /\ 2 > 0
    OBVIOUS
  <2>2. Rounded(gst, 2) \in Int /\ 2 * (Rounded(gst, 2) * 2 - gst) <= 2 /\ -2 <= 2 * (Rounded(gst, 2) * 2 - gst)
    BY <1>8, <2>1, RoundedNear
  <2> QED
    BY <2>2
<1> HIDE DEF cgst
<1>11. gst = cgst + sgst + igst /\ (~req.interState => cgst - sgst \in -1..1)
  <2>1. CASE req.interState
    <3>1. cgst = 0
      BY <2>1 DEF cgst
    <3> QED
      BY <1>8, <2>1, <3>1
  <2>2. CASE ~req.interState
    BY <1>8, <1>10, <2>2
  <2> QED
    BY <2>1, <2>2
<1>12. sgst \in Int /\ igst \in Int
  BY <1>8, <1>10
<1> HIDE DEF sgst, igst
<1>13. /\ p.taxable = Total(parts) - discount
       /\ p.lineTotal = p.taxable + p.cgst + p.sgst + p.igst /\ p.lineTotal \in Int
  BY <1>1, <1>7, <1>8, <1>10, <1>11, <1>12
<1>14. \A i \in 1..5 \ targets : p.shares[i] = 0
  BY <1>1, <1>4
<1>15. p.gst = p.cgst + p.sgst + p.igst /\ (~req.interState => p.cgst - p.sgst \in -1..1)
  BY <1>1, <1>11
<1> HIDE DEF targets
<1> QED
  BY <1>1, <1>3, <1>4, <1>9, <1>13, <1>14, <1>15 DEF PriceTold, whole, p, targets

\* A tiered formula and one by whole weight charge as they say.
LEMMA SlabsCharge ==
  ASSUME NEW q, q.making \in Rules, q.req.qty \in Nat,
         NEW weight \in Nat, Covered(q.making, weight), weight = MakingWeight(q.req),
         q.making.basis = "slab" => q.parts[3] = AtLeast(q.making.minimum * q.req.qty, slabAmount(q.making, weight))
  PROVE  SlabCharged(q)
<1> DEFINE slabs == q.making.slabs
           levied(units) == Total([unit \in units |-> RateOf(slabs, unit)])
           least == q.making.minimum * q.req.qty
<1>1. SlabCharged(q) <=>
        (q.making.basis = "slab" =>
           q.parts[3] = AtLeast(least, Rounded(IF q.making.mode = "tiered" THEN levied(0..(weight - 1)) ELSE weight * levied({weight}), PerGram)))
  BY DEF SlabCharged, RateOf, MakingWeight
<1> SUFFICES ASSUME q.making.basis = "slab"
             PROVE  slabAmount(q.making, weight)
                      = Rounded(IF q.making.mode = "tiered" THEN levied(0..(weight - 1)) ELSE weight * levied({weight}), PerGram)
  <2> HIDE DEF levied, least
  <2> QED
    BY <1>1 DEF least
<1>2. CASE q.making.mode = "tiered"
  <2> DEFINE f == [unit \in 0..(weight - 1) |-> RateOf(slabs, unit)]
  <2>1. levied(0..(weight - 1)) = SumFunctionOnSet(f, 0..(weight - 1))
    BY DEF Total, SumFunction
  <2>2. slabAmount(q.making, weight) = Rounded(SumFunctionOnSet(f, 0..(weight - 1)), PerGram)
    BY <1>2, SlabPrice
  <2> HIDE DEF f, levied
  <2> QED
    BY <1>2, <2>1, <2>2
<1>3. CASE q.making.mode # "tiered"
  <2>1. slabAmount(q.making, weight) = Rounded(weight * RateOf(slabs, weight), PerGram) /\ RateOf(slabs, weight) \in Int
    BY <1>3, SlabPrice
  <2> DEFINE f == [unit \in {weight} |-> RateOf(slabs, unit)]
  <2>2. levied({weight}) = SumFunctionOnSet(f, {weight})
    BY DEF Total, SumFunction
  <2>3. DOMAIN f = {weight} /\ f[weight] = RateOf(slabs, weight)
    OBVIOUS
  <2> HIDE DEF f
  <2>4. SumFunctionOnSet(f, {weight}) = f[weight]
    <3>1. IsFiniteSet({}) /\ weight \notin {} /\ {} \cup {weight} = {weight}
      BY FS_EmptySet
    <3>2. \A x \in {} \cup {weight} : f[x] \in Int
      BY <2>1, <2>3
    <3>3. SumFunctionOnSet(f, {} \cup {weight}) = SumFunctionOnSet(f, {}) + f[weight]
      BY <3>1, <3>2, SumAdds
    <3>4. SumFunctionOnSet(f, {}) = 0
      BY SumOfNone
    <3> QED
      BY <2>1, <2>3, <3>1, <3>3, <3>4
  <2> HIDE DEF levied
  <2> QED
    BY <1>3, <2>1, <2>2, <2>3, <2>4
<1> QED
  BY <1>2, <1>3

\* Formulas and rates in force, and the last thing priced as documented.
PricedInv == formulas \subseteq Formulas /\ rates \in RateSheets /\ PricedRight

LEMMA priceLineRight ==
  ASSUME PricedInv, priceLine
  PROVE  PricedInv'
<1>1. PICK req \in Requests :
        \E making \in termsFor("making", req), wastage \in termsFor("wastage", req), hallmark \in hallmarkTerms(req) :
          LET parts == PartsOf(req, making, wastage, hallmark)
              available == Total([i \in DiscountTargets[req.discountOn] |-> parts[i]])
          IN
          /\ quote = NoQuote
          /\ IF ~Priceable(req, making, wastage, hallmark) THEN quote' = [of |-> "refused"]
             ELSE \E discount \in {0} \cup 0..available :
                    quote' = [of |-> "line", req |-> req, making |-> making, parts |-> parts, discount |-> discount,
                              price |-> Priced(req, req.discountOn, parts, discount)]
          /\ UNCHANGED <<formulas, rates>>
  BY Zenon DEF priceLine
<1>2. PICK making \in termsFor("making", req), wastage \in termsFor("wastage", req), hallmark \in hallmarkTerms(req) :
        LET parts == PartsOf(req, making, wastage, hallmark)
            available == Total([i \in DiscountTargets[req.discountOn] |-> parts[i]])
        IN
        /\ quote = NoQuote
        /\ IF ~Priceable(req, making, wastage, hallmark) THEN quote' = [of |-> "refused"]
           ELSE \E discount \in {0} \cup 0..available :
                  quote' = [of |-> "line", req |-> req, making |-> making, parts |-> parts, discount |-> discount,
                            price |-> Priced(req, req.discountOn, parts, discount)]
        /\ UNCHANGED <<formulas, rates>>
  BY <1>1, Zenon
<1> DEFINE parts == PartsOf(req, making, wastage, hallmark)
           targets == DiscountTargets[req.discountOn]
           available == Total([i \in targets |-> parts[i]])
<1>3. formulas' = formulas /\ rates' = rates /\ formulas \subseteq Formulas /\ rates \in RateSheets
  BY <1>2 DEF PricedInv
<1>4. CounterLine(req) /\ req.discountOn \in {"making", "charges", "total"} /\ req.qty \in Nat
  BY PricingAssumption DEF CounterLine
<1>5. making \in Rules /\ wastage \in Rules /\ hallmark \in Rules
  BY <1>3, <1>4, RulesChosen
<1>6. CASE ~Priceable(req, making, wastage, hallmark)
  <2>1. quote' = [of |-> "refused"]
    BY <1>2, <1>6
  <2>2. quote'.of = "refused"
    BY <2>1
  <2> QED
    BY <1>3, <2>2 DEF PricedInv, PricedRight
<1>7. CASE Priceable(req, making, wastage, hallmark)
  <2>1. PICK discount \in {0} \cup 0..available :
          quote' = [of |-> "line", req |-> req, making |-> making, parts |-> parts, discount |-> discount,
                    price |-> Priced(req, req.discountOn, parts, discount)]
    BY <1>2, <1>7, Zenon
  <2> DEFINE q == quote'
             p == Priced(req, req.discountOn, parts, discount)
  <2>2. /\ q.of = "line" /\ q.req = req /\ q.making = making /\ q.parts = parts /\ q.discount = discount
        /\ q.price = p
    BY <2>1
  <2>3. /\ DOMAIN parts = 1..5 /\ \A i \in 1..5 : parts[i] \in Int
        /\ MakingWeight(req) \in Nat /\ Covered(making, MakingWeight(req))
        /\ making.basis = "slab" => parts[3] = AtLeast(making.minimum * req.qty, slabAmount(making, MakingWeight(req)))
    BY <1>3, <1>4, <1>5, <1>7, PartsWhole
  <2>4. available = SumFunctionOnSet(parts, targets) /\ available \in Int
    <3>1. IsFiniteSet(targets) /\ \A i \in targets : parts[i] \in Int
      BY <1>4, <2>3, TargetFacts
    <3> HIDE DEF parts, targets
    <3> QED
      BY <3>1, TotalOf
  <2> HIDE DEF parts, targets, available, p
  <2>5. discount \in Int /\ (discount # 0 => discount > 0 /\ available > 0)
    <3>1. CASE discount = 0
      BY <3>1
    <3>2. CASE discount \in 0..available
      BY <2>4, <3>2
    <3> QED
      BY <3>1, <3>2
  <2>6. RuleWins(quote)'
    <3>1. Matching("making", req)' = Matching("making", req)
      BY <1>3 DEF Matching
    <3>2. \A f : Wins(f, req)' <=> Wins(f, req)
      BY <3>1 DEF Wins
    <3>3. ASSUME req.override = NoRule, req.tag.making = NoRule, Matching("making", req) # {}
          PROVE  \E f \in Matching("making", req) : f.rule = making /\ Wins(f, req)
      <4>1. pick("making", req) # {} /\ \A f \in pick("making", req) : f \in Matching("making", req) /\ Wins(f, req)
        BY <1>3, <3>3, FirstWins
      <4>2. termsFor("making", req) = {f.rule : f \in pick("making", req)}
        BY <3>3, <4>1 DEF termsFor
      <4> QED
        BY <4>1, <4>2
    <3>4. q.req = req /\ q.making = making
      BY <2>2
    <3> QED
      BY <3>1, <3>2, <3>3, <3>4 DEF RuleWins
  <2>7. SlabCharged(q)
    <3> HIDE DEF q
    <3> QED
      BY <1>4, <1>5, <2>2, <2>3, SlabsCharge
  <2>8. AddsUp(q)
    <3>1. discount # 0 => SumFunctionOnSet(parts, DiscountTargets[req.discountOn]) > 0
      BY <2>4, <2>5 DEF targets
    <3> DEFINE whole == SumFunctionOnSet(parts, targets)
    <3>2. /\ discount # 0 => \A i \in targets :
               /\ 2 * (p.shares[i] * whole - discount * parts[i]) <= Cardinality(targets) * whole
               /\ -2 * (p.shares[i] * whole - discount * parts[i]) <= Cardinality(targets) * whole
          /\ Total(p.shares) = discount
          /\ p.taxable = Total(parts) - discount
          /\ p.lineTotal = p.taxable + p.cgst + p.sgst + p.igst /\ p.lineTotal \in Int
          /\ p.gst = p.cgst + p.sgst + p.igst
          /\ ~req.interState => p.cgst - p.sgst \in -1..1
      <4>1. CounterLine(req) /\ req.discountOn \in {"making", "charges", "total"} /\ discount \in Int
        BY <1>4, <2>5
      <4>2. DOMAIN parts = 1..5 /\ \A i \in 1..5 : parts[i] \in Int
        BY <2>3
      <4>3. PriceTold(Priced(req, req.discountOn, parts, discount), req, DiscountTargets[req.discountOn], parts, discount)
        BY <3>1, <4>1, <4>2, PriceAdds
      <4>4. PriceTold(p, req, targets, parts, discount)
        BY <4>3 DEF p, targets
      <4> QED
        BY <4>4 DEF PriceTold
    <3>3. whole = Total([i \in targets |-> q.parts[i]])
      BY <2>2, <2>4 DEF available
    <3>4. targets = DiscountTargets[q.req.discountOn]
      BY <2>2 DEF targets
    <3> HIDE DEF whole, q
    <3> QED
      BY <2>2, <3>2, <3>3, <3>4 DEF AddsUp
  <2>9. quote'.of = "line"
    BY <2>2
  <2> QED
    BY <1>3, <2>6, <2>7, <2>8, <2>9 DEF PricedInv, PricedRight
<1> QED
  BY <1>6, <1>7

-------------------------------------------------------------------------------
\* Bills

LEMMA PairAdded ==
  ASSUME NEW f, f[2] \in Int, f[3] \in Int
  PROVE  SumFunctionOnSet(f, {2, 3}) = f[2] + f[3]
<1>1. IsFiniteSet({2}) /\ 3 \notin {2} /\ {2} \cup {3} = {2, 3}
  <2>1. IsFiniteSet({2})
    BY FS_Singleton
  <2>2. 3 \notin {2} /\ {2} \cup {3} = {2, 3}
    OBVIOUS
  <2> QED
    BY <2>1, <2>2
<1>2. IsFiniteSet({}) /\ 2 \notin {} /\ {} \cup {2} = {2}
  BY FS_EmptySet
<1>3. (\A x \in {2} \cup {3} : f[x] \in Int) /\ (\A x \in {} \cup {2} : f[x] \in Int)
  OBVIOUS
<1>4. SumFunctionOnSet(f, {2} \cup {3}) = SumFunctionOnSet(f, {2}) + f[3]
  BY <1>1, <1>3, SumAdds
<1>5. SumFunctionOnSet(f, {} \cup {2}) = SumFunctionOnSet(f, {}) + f[2]
  BY <1>2, <1>3, SumAdds
<1>6. SumFunctionOnSet(f, {}) = 0
  BY SumOfNone
<1> DEFINE sum(R) == SumFunctionOnSet(f, R)
<1>7. sum({2, 3}) = sum({2} \cup {3}) /\ sum({2}) = sum({} \cup {2})
  <2>1. {2} \cup {3} = {2, 3} /\ {} \cup {2} = {2}
    BY <1>1, <1>2
  <2> QED
    BY <2>1, Zenon
<1> HIDE DEF sum
<1>8. sum({2} \cup {3}) = sum({2}) + f[3] /\ sum({} \cup {2}) = sum({}) + f[2] /\ sum({}) = 0
  BY <1>4, <1>5, <1>6 DEF sum
<1>9. sum({2, 3}) = f[2] + f[3]
  <2> DEFINE s == sum({2} \cup {3})
             r == sum({} \cup {2})
             n == sum({})
  <2>1. s = r + f[3] /\ r = n + f[2] /\ n = 0
    BY <1>7, <1>8, Zenon
  <2>2. sum({2, 3}) = s
    BY <1>7, Zenon
  <2> HIDE DEF s, r, n
  <2> QED
    BY <2>1, <2>2
<1> QED
  BY <1>9 DEF sum

\* A line of a bill with its share of the discount.
LineTold(line, req, parts, share) ==
  /\ Total(line.shares) = share
  /\ \A c \in {1, 4, 5} : line.shares[c] = 0
  /\ parts[2] >= 0 /\ parts[3] >= 0 => \A c \in {2, 3} : line.shares[c] \in 0..parts[c]
  /\ line.lineTotal \in Int

LEMMA LineTakesShare ==
  ASSUME NEW req, CounterLine(req), NEW parts, DOMAIN parts = 1..5, \A i \in 1..5 : parts[i] \in Int,
         NEW share \in Int, share = 0 \/ share \in 0..charges(parts)
  PROVE  LineTold(Priced(req, "charges", parts, share), req, parts, share)
<1> DEFINE line == Priced(req, "charges", parts, share)
<1>1. parts[2] \in Int /\ parts[3] \in Int /\ charges(parts) = parts[2] + parts[3] /\ charges(parts) \in Int
  BY DEF charges
<1>2. SumFunctionOnSet(parts, {2, 3}) = charges(parts) /\ DiscountTargets["charges"] = {2, 3}
  BY <1>1, PairAdded, TargetFacts
<1>3. share # 0 => share \in 1..charges(parts) /\ charges(parts) > 0
  BY <1>1
<1>4. "charges" \in {"making", "charges", "total"} /\ (share # 0 => SumFunctionOnSet(parts, DiscountTargets["charges"]) > 0)
  BY <1>2, <1>3
<1>5. PriceTold(line, req, {2, 3}, parts, share)
  <2>1. PriceTold(Priced(req, "charges", parts, share), req, DiscountTargets["charges"], parts, share)
    BY <1>4, PriceAdds
  <2> QED
    BY <1>2, <2>1
<1> HIDE DEF line
<1>6. Total(line.shares) = share /\ line.lineTotal \in Int
  BY <1>5 DEF PriceTold
<1>7. \A c \in {1, 4, 5} : line.shares[c] = 0
  <2>1. \A c \in {1, 4, 5} : c \in 1..5 \ {2, 3}
    OBVIOUS
  <2> QED
    BY <1>5, <2>1 DEF PriceTold
<1>8. ASSUME parts[2] >= 0, parts[3] >= 0 PROVE \A c \in {2, 3} : line.shares[c] \in 0..parts[c]
  <2>1. CASE share = 0
    <3>1. line.shares[2] = 0 /\ line.shares[3] = 0
      BY <1>5, <2>1 DEF PriceTold
    <3> QED
      BY <1>1, <1>8, <3>1
  <2>2. CASE share # 0
    <3>1. line.shares = allocate(share, parts, {2, 3})
      BY <1>5, <2>2 DEF PriceTold
    <3>2. share \in 1..(parts[2] + parts[3])
      BY <1>1, <1>3, <2>2
    <3>3. IsFiniteSet(DOMAIN parts) /\ DOMAIN parts \subseteq Nat /\ 2 \in DOMAIN parts /\ 3 \in DOMAIN parts /\ 2 # 3
      BY TargetFacts
    <3>4. \A c \in {2, 3} : allocate(share, parts, {2, 3})[c] \in 0..parts[c]
      BY <1>8, <3>2, <3>3, TwoShares
    <3> QED
      BY <3>1, <3>4
  <2> QED
    BY <2>1, <2>2
<1> QED
  BY <1>6, <1>7, <1>8 DEF LineTold, line

LEMMA priceSaleRight ==
  ASSUME PricedInv, priceSale
  PROVE  PricedInv'
<1>1. PICK body \in Bills :
        \E terms \in {[i \in DOMAIN body.lines |-> TermsOf(body.lines[i])]} :
        \E parts \in {[i \in DOMAIN terms |-> PartsOf(body.lines[i], terms[i].making, terms[i].wastage, terms[i].hallmark)]} :
        \E levied \in {[i \in DOMAIN parts |-> charges(parts[i])]} :
          /\ quote = NoQuote
          /\ \A i \in DOMAIN terms : Priceable(body.lines[i], terms[i].making, terms[i].wastage, terms[i].hallmark)
          /\ \E discount \in {d \in Discounts : d = 0 \/ d <= Total(levied)} :
             \E shares \in {IF discount = 0 THEN [i \in DOMAIN levied |-> 0] ELSE allocate(discount, levied, DOMAIN levied)} :
             \E lines \in {[i \in DOMAIN parts |-> Priced(body.lines[i], "charges", parts[i], shares[i])]} :
             \E total \in {Total([i \in DOMAIN lines |-> lines[i].lineTotal])}, free \in {Percent(Total(levied), FreePercent)} :
               LET grand == Rounded(total, Step[body.rounding]) * Step[body.rounding]
               IN
               /\ \A i \in DOMAIN shares : shares[i] = 0 \/ shares[i] \in 0..levied[i]
               /\ \E mayApprove \in BOOLEAN :
                    /\ Approved(discount, free, mayApprove)
                    /\ quote' = [of |-> "bill", parts |-> parts, lines |-> lines, discount |-> discount, free |-> free,
                                 managed |-> mayApprove, rounding |-> body.rounding, grand |-> grand, roundOff |-> grand - total]
          /\ UNCHANGED <<formulas, rates>>
  BY Zenon DEF priceSale
<1> DEFINE D == DOMAIN body.lines
<1>2. PICK terms \in {[i \in D |-> TermsOf(body.lines[i])]} :
        \E parts \in {[i \in DOMAIN terms |-> PartsOf(body.lines[i], terms[i].making, terms[i].wastage, terms[i].hallmark)]} :
        \E levied \in {[i \in DOMAIN parts |-> charges(parts[i])]} :
          /\ quote = NoQuote
          /\ \A i \in DOMAIN terms : Priceable(body.lines[i], terms[i].making, terms[i].wastage, terms[i].hallmark)
          /\ \E discount \in {d \in Discounts : d = 0 \/ d <= Total(levied)} :
             \E shares \in {IF discount = 0 THEN [i \in DOMAIN levied |-> 0] ELSE allocate(discount, levied, DOMAIN levied)} :
             \E lines \in {[i \in DOMAIN parts |-> Priced(body.lines[i], "charges", parts[i], shares[i])]} :
             \E total \in {Total([i \in DOMAIN lines |-> lines[i].lineTotal])}, free \in {Percent(Total(levied), FreePercent)} :
               LET grand == Rounded(total, Step[body.rounding]) * Step[body.rounding]
               IN
               /\ \A i \in DOMAIN shares : shares[i] = 0 \/ shares[i] \in 0..levied[i]
               /\ \E mayApprove \in BOOLEAN :
                    /\ Approved(discount, free, mayApprove)
                    /\ quote' = [of |-> "bill", parts |-> parts, lines |-> lines, discount |-> discount, free |-> free,
                                 managed |-> mayApprove, rounding |-> body.rounding, grand |-> grand, roundOff |-> grand - total]
          /\ UNCHANGED <<formulas, rates>>
  BY <1>1, Zenon
<1>31. PICK parts \in {[i \in DOMAIN terms |-> PartsOf(body.lines[i], terms[i].making, terms[i].wastage, terms[i].hallmark)]} :
        \E levied \in {[i \in DOMAIN parts |-> charges(parts[i])]} :
          /\ quote = NoQuote
          /\ \A i \in DOMAIN terms : Priceable(body.lines[i], terms[i].making, terms[i].wastage, terms[i].hallmark)
          /\ \E discount \in {d \in Discounts : d = 0 \/ d <= Total(levied)} :
             \E shares \in {IF discount = 0 THEN [i \in DOMAIN levied |-> 0] ELSE allocate(discount, levied, DOMAIN levied)} :
             \E lines \in {[i \in DOMAIN parts |-> Priced(body.lines[i], "charges", parts[i], shares[i])]} :
             \E total \in {Total([i \in DOMAIN lines |-> lines[i].lineTotal])}, free \in {Percent(Total(levied), FreePercent)} :
               LET grand == Rounded(total, Step[body.rounding]) * Step[body.rounding]
               IN
               /\ \A i \in DOMAIN shares : shares[i] = 0 \/ shares[i] \in 0..levied[i]
               /\ \E mayApprove \in BOOLEAN :
                    /\ Approved(discount, free, mayApprove)
                    /\ quote' = [of |-> "bill", parts |-> parts, lines |-> lines, discount |-> discount, free |-> free,
                                 managed |-> mayApprove, rounding |-> body.rounding, grand |-> grand, roundOff |-> grand - total]
          /\ UNCHANGED <<formulas, rates>>
  BY <1>2, Zenon
<1>32. PICK levied \in {[i \in DOMAIN parts |-> charges(parts[i])]} :
          /\ quote = NoQuote
          /\ \A i \in DOMAIN terms : Priceable(body.lines[i], terms[i].making, terms[i].wastage, terms[i].hallmark)
          /\ \E discount \in {d \in Discounts : d = 0 \/ d <= Total(levied)} :
             \E shares \in {IF discount = 0 THEN [i \in DOMAIN levied |-> 0] ELSE allocate(discount, levied, DOMAIN levied)} :
             \E lines \in {[i \in DOMAIN parts |-> Priced(body.lines[i], "charges", parts[i], shares[i])]} :
             \E total \in {Total([i \in DOMAIN lines |-> lines[i].lineTotal])}, free \in {Percent(Total(levied), FreePercent)} :
               LET grand == Rounded(total, Step[body.rounding]) * Step[body.rounding]
               IN
               /\ \A i \in DOMAIN shares : shares[i] = 0 \/ shares[i] \in 0..levied[i]
               /\ \E mayApprove \in BOOLEAN :
                    /\ Approved(discount, free, mayApprove)
                    /\ quote' = [of |-> "bill", parts |-> parts, lines |-> lines, discount |-> discount, free |-> free,
                                 managed |-> mayApprove, rounding |-> body.rounding, grand |-> grand, roundOff |-> grand - total]
          /\ UNCHANGED <<formulas, rates>>
  BY <1>31, Zenon
<1>33. PICK discount \in {d \in Discounts : d = 0 \/ d <= Total(levied)} :
             \E shares \in {IF discount = 0 THEN [i \in DOMAIN levied |-> 0] ELSE allocate(discount, levied, DOMAIN levied)} :
             \E lines \in {[i \in DOMAIN parts |-> Priced(body.lines[i], "charges", parts[i], shares[i])]} :
             \E total \in {Total([i \in DOMAIN lines |-> lines[i].lineTotal])}, free \in {Percent(Total(levied), FreePercent)} :
               LET grand == Rounded(total, Step[body.rounding]) * Step[body.rounding]
               IN
               /\ \A i \in DOMAIN shares : shares[i] = 0 \/ shares[i] \in 0..levied[i]
               /\ \E mayApprove \in BOOLEAN :
                    /\ Approved(discount, free, mayApprove)
                    /\ quote' = [of |-> "bill", parts |-> parts, lines |-> lines, discount |-> discount, free |-> free,
                                 managed |-> mayApprove, rounding |-> body.rounding, grand |-> grand, roundOff |-> grand - total]
  BY <1>32, Zenon
<1>34. PICK shares \in {IF discount = 0 THEN [i \in DOMAIN levied |-> 0] ELSE allocate(discount, levied, DOMAIN levied)} :
             \E lines \in {[i \in DOMAIN parts |-> Priced(body.lines[i], "charges", parts[i], shares[i])]} :
             \E total \in {Total([i \in DOMAIN lines |-> lines[i].lineTotal])}, free \in {Percent(Total(levied), FreePercent)} :
               LET grand == Rounded(total, Step[body.rounding]) * Step[body.rounding]
               IN
               /\ \A i \in DOMAIN shares : shares[i] = 0 \/ shares[i] \in 0..levied[i]
               /\ \E mayApprove \in BOOLEAN :
                    /\ Approved(discount, free, mayApprove)
                    /\ quote' = [of |-> "bill", parts |-> parts, lines |-> lines, discount |-> discount, free |-> free,
                                 managed |-> mayApprove, rounding |-> body.rounding, grand |-> grand, roundOff |-> grand - total]
  BY <1>33, Zenon
<1>35. PICK lines \in {[i \in DOMAIN parts |-> Priced(body.lines[i], "charges", parts[i], shares[i])]} :
             \E total \in {Total([i \in DOMAIN lines |-> lines[i].lineTotal])}, free \in {Percent(Total(levied), FreePercent)} :
               LET grand == Rounded(total, Step[body.rounding]) * Step[body.rounding]
               IN
               /\ \A i \in DOMAIN shares : shares[i] = 0 \/ shares[i] \in 0..levied[i]
               /\ \E mayApprove \in BOOLEAN :
                    /\ Approved(discount, free, mayApprove)
                    /\ quote' = [of |-> "bill", parts |-> parts, lines |-> lines, discount |-> discount, free |-> free,
                                 managed |-> mayApprove, rounding |-> body.rounding, grand |-> grand, roundOff |-> grand - total]
  BY <1>34, Zenon
<1>36. PICK total \in {Total([i \in DOMAIN lines |-> lines[i].lineTotal])}, free \in {Percent(Total(levied), FreePercent)} :
               LET grand == Rounded(total, Step[body.rounding]) * Step[body.rounding]
               IN
               /\ \A i \in DOMAIN shares : shares[i] = 0 \/ shares[i] \in 0..levied[i]
               /\ \E mayApprove \in BOOLEAN :
                    /\ Approved(discount, free, mayApprove)
                    /\ quote' = [of |-> "bill", parts |-> parts, lines |-> lines, discount |-> discount, free |-> free,
                                 managed |-> mayApprove, rounding |-> body.rounding, grand |-> grand, roundOff |-> grand - total]
  BY <1>35, Zenon
<1> DEFINE grand == Rounded(total, Step[body.rounding]) * Step[body.rounding]
           whole == Total(levied)
<1>3. /\ terms = [i \in D |-> TermsOf(body.lines[i])]
      /\ parts = [i \in D |-> PartsOf(body.lines[i], terms[i].making, terms[i].wastage, terms[i].hallmark)]
      /\ levied = [i \in D |-> charges(parts[i])]
      /\ lines = [i \in D |-> Priced(body.lines[i], "charges", parts[i], shares[i])]
  BY <1>2, <1>31, <1>32, <1>35
<1>38. /\ total = Total([i \in D |-> lines[i].lineTotal]) /\ free = Percent(Total(levied), FreePercent)
       /\ shares = IF discount = 0 THEN [i \in D |-> 0] ELSE allocate(discount, levied, DOMAIN levied)
  BY <1>3, <1>34, <1>36
<1>4. /\ \A i \in DOMAIN shares : shares[i] = 0 \/ shares[i] \in 0..levied[i]
      /\ \E mayApprove \in BOOLEAN :
           /\ Approved(discount, free, mayApprove)
           /\ quote' = [of |-> "bill", parts |-> parts, lines |-> lines, discount |-> discount, free |-> free,
                        managed |-> mayApprove, rounding |-> body.rounding, grand |-> grand, roundOff |-> grand - total]
  BY <1>36, Zenon
<1>5. PICK mayApprove \in BOOLEAN :
        /\ Approved(discount, free, mayApprove)
        /\ quote' = [of |-> "bill", parts |-> parts, lines |-> lines, discount |-> discount, free |-> free,
                     managed |-> mayApprove, rounding |-> body.rounding, grand |-> grand, roundOff |-> grand - total]
  BY <1>4, Zenon
<1> DEFINE q == quote'
<1>6. /\ q.of = "bill" /\ q.parts = parts /\ q.lines = lines /\ q.discount = discount /\ q.free = free
      /\ q.managed = mayApprove /\ q.rounding = body.rounding /\ q.grand = grand /\ q.roundOff = grand - total
  BY <1>5
<1>7. formulas' = formulas /\ rates' = rates /\ formulas \subseteq Formulas /\ rates \in RateSheets
  BY <1>32 DEF PricedInv
<1>8. /\ IsFiniteSet(D) /\ D \subseteq Nat
      /\ \A i \in D : CounterLine(body.lines[i])
      /\ body.rounding \in {"none", "nearest_1", "nearest_10"} /\ discount \in Nat
  <2>1. /\ D = 1..Len(body.lines) /\ Len(body.lines) \in Nat /\ \A i \in D : CounterLine(body.lines[i])
        /\ body.rounding \in {"none", "nearest_1", "nearest_10"}
    BY PricingAssumption
  <2>2. 1 \in Int /\ Len(body.lines) \in Int
    BY <2>1
  <2>3. IsFiniteSet(D) /\ D \subseteq Nat
    <3>1. D \subseteq Nat
      BY <2>1
    <3> DEFINE n == Len(body.lines)
    <3>2. 1 \in Int /\ n \in Int /\ D = 1..n
      BY <2>1, <2>2
    <3> HIDE DEF D, n
    <3>3. IsFiniteSet(1..n)
      BY <3>2, FS_Interval
    <3> QED
      BY <3>1, <3>2, <3>3
  <2>4. discount \in Nat
    BY PricingAssumption
  <2> QED
    BY <2>1, <2>3, <2>4
<1>9. DOMAIN terms = D /\ DOMAIN parts = D /\ DOMAIN levied = D /\ DOMAIN lines = D
  BY <1>3
<1> HIDE DEF D
<1>10. ASSUME NEW i \in D
       PROVE  DOMAIN parts[i] = 1..5 /\ \A c \in 1..5 : parts[i][c] \in Int
  <2> DEFINE req == body.lines[i]
             t == terms[i]
  <2>1. t = TermsOf(req) /\ parts[i] = PartsOf(req, t.making, t.wastage, t.hallmark)
    BY <1>3
  <2>2. CounterLine(req) /\ Priceable(req, t.making, t.wastage, t.hallmark)
    BY <1>8, <1>9, <1>32
  <2> HIDE DEF req, t
  <2>3. t.making \in Rules /\ t.wastage \in Rules /\ t.hallmark \in Rules
    <3>1. /\ t.making = CHOOSE r \in termsFor("making", req) : TRUE
          /\ t.wastage = CHOOSE r \in termsFor("wastage", req) : TRUE
          /\ t.hallmark = CHOOSE r \in hallmarkTerms(req) : TRUE
      BY <2>1 DEF TermsOf
    <3>2. /\ termsFor("making", req) # {} /\ termsFor("making", req) \subseteq Rules
          /\ termsFor("wastage", req) # {} /\ termsFor("wastage", req) \subseteq Rules
          /\ hallmarkTerms(req) # {} /\ hallmarkTerms(req) \subseteq Rules
      BY <1>7, <2>2, RulesChosen
    <3> QED
      BY <3>1, <3>2
  <2> QED
    BY <1>7, <2>1, <2>2, <2>3, PartsWhole
<1>11. \A i \in D : levied[i] = charges(parts[i]) /\ levied[i] \in Int
  <2> SUFFICES ASSUME NEW i \in D PROVE levied[i] = charges(parts[i]) /\ levied[i] \in Int
    OBVIOUS
  <2>1. levied[i] = charges(parts[i])
    BY <1>3
  <2>2. 2 \in 1..5 /\ 3 \in 1..5
    OBVIOUS
  <2>3. parts[i][2] \in Int /\ parts[i][3] \in Int
    BY <1>10, <2>2
  <2> QED
    BY <2>1, <2>3 DEF charges
<1>12. \A i \in D : lines[i] = Priced(body.lines[i], "charges", parts[i], shares[i])
  BY <1>3
<1>13. whole = SumFunctionOnSet(levied, D) /\ whole \in Int
  BY <1>8, <1>9, <1>11, SumInt DEF Total, SumFunction
<1>14. /\ DOMAIN shares = D /\ \A i \in D : shares[i] \in Int
       /\ SumFunctionOnSet(shares, D) = discount
       /\ discount # 0 => \A i \in D :
            /\ 2 * (shares[i] * whole - discount * levied[i]) <= Cardinality(D) * whole
            /\ -2 * (shares[i] * whole - discount * levied[i]) <= Cardinality(D) * whole
  <2>1. CASE discount = 0
    <3>1. DOMAIN shares = D /\ \A i \in D : shares[i] = 0 /\ shares[i] \in Int
      BY <1>38, <2>1
    <3>2. SumFunctionOnSet(shares, D) = 0
      BY <1>8, <3>1, SumOfZeros
    <3> QED
      BY <2>1, <3>1, <3>2
  <2>2. CASE discount # 0
    <3>1. shares = allocate(discount, levied, DOMAIN levied) /\ discount <= whole
      BY <1>38, <2>2
    <3> HIDE DEF whole
    <3>2. /\ SumFunctionOnSet(levied, DOMAIN levied) > 0 /\ IsFiniteSet(DOMAIN levied) /\ DOMAIN levied \subseteq Nat
          /\ DOMAIN levied \in SUBSET DOMAIN levied /\ discount \in Int
          /\ \A i \in DOMAIN levied : levied[i] \in Int
      <4>1. whole > 0
        BY <1>8, <1>13, <2>2, <3>1
      <4>2. SumFunctionOnSet(levied, DOMAIN levied) = whole
        BY <1>9, <1>13
      <4>3. IsFiniteSet(DOMAIN levied) /\ DOMAIN levied \subseteq Nat /\ \A i \in DOMAIN levied : levied[i] \in Int
        BY <1>8, <1>9, <1>11
      <4>4. DOMAIN levied \in SUBSET DOMAIN levied /\ discount \in Int
        BY <1>8
      <4> QED
        BY <4>1, <4>2, <4>3, <4>4
    <3>3. DOMAIN shares = DOMAIN levied /\ \A i \in DOMAIN levied : shares[i] \in Int
      BY <3>1, <3>2, SharesAddUp
    <3>4. SumFunctionOnSet(shares, DOMAIN levied) = discount
      BY <3>1, <3>2, SharesAddUp
    <3> DEFINE w == SumFunctionOnSet(levied, DOMAIN levied)
    <3>5. \A i \in DOMAIN levied : /\ 2 * (shares[i] * w - discount * levied[i]) <= Cardinality(DOMAIN levied) * w
                                   /\ -2 * (shares[i] * w - discount * levied[i]) <= Cardinality(DOMAIN levied) * w
      BY <3>1, <3>2, SharesAddUp, ZenonT(30)
    <3>6. w = whole
      BY <1>9, <1>13
    <3> HIDE DEF w
    <3> QED
      BY <1>9, <3>3, <3>4, <3>5, <3>6
  <2> QED
    BY <2>1, <2>2
<1>15. ASSUME NEW i \in D PROVE LineTold(lines[i], body.lines[i], parts[i], shares[i])
  <2>1. shares[i] \in Int /\ (shares[i] = 0 \/ shares[i] \in 0..charges(parts[i]))
    BY <1>4, <1>11, <1>14
  <2>2. CounterLine(body.lines[i]) /\ DOMAIN parts[i] = 1..5 /\ \A c \in 1..5 : parts[i][c] \in Int
    BY <1>8, <1>10
  <2>3. LineTold(Priced(body.lines[i], "charges", parts[i], shares[i]), body.lines[i], parts[i], shares[i])
    BY <2>1, <2>2, LineTakesShare
  <2> QED
    BY <1>12, <2>3
<1>16. total \in Int
  <2> DEFINE f == [i \in D |-> lines[i].lineTotal]
  <2>1. DOMAIN f = D /\ \A i \in D : f[i] \in Int
    BY <1>15 DEF LineTold
  <2>2. total = Total(f)
    BY <1>38
  <2> HIDE DEF f
  <2> QED
    BY <1>8, <2>1, <2>2, SumInt DEF Total, SumFunction
<1>17. Total([i \in D |-> Total(lines[i].shares)]) = discount
  <2> DEFINE f == [i \in D |-> Total(lines[i].shares)]
  <2>1. DOMAIN f = D /\ \A i \in D : shares[i] \in Int /\ f[i] = shares[i]
    BY <1>14, <1>15 DEF LineTold
  <2> HIDE DEF f
  <2>2. SumFunctionOnSet(f, D) = SumFunctionOnSet(shares, D)
    BY <1>8, <2>1, SumOfSame
  <2>3. Total(f) = discount
    BY <1>14, <2>1, <2>2 DEF Total, SumFunction
  <2> QED
    BY <2>3 DEF f
<1> DEFINE step == Step[body.rounding]
<1>18. step \in Nat /\ step > 0
  BY <1>8 DEF Step
<1>19. /\ grand \in Int /\ 2 * (grand - total) <= step /\ -step <= 2 * (grand - total)
  <2> HIDE DEF step
  <2>1. Rounded(total, step) \in Int /\ 2 * (Rounded(total, step) * step - total) <= step /\ -step <= 2 * (Rounded(total, step) * step - total)
    BY <1>16, <1>18, RoundedNear
  <2>2. Rounded(total, step) * step \in Int
    BY <1>18, <2>1, IntProducts
  <2> QED
    BY <2>1, <2>2 DEF step
<1>20. whole = Total([i \in D |-> charges(parts[i])])
  BY <1>3
<1> HIDE DEF q, grand, whole, step
<1>21. BillAddsUp(q)
  <2>1. DOMAIN q.lines = D
    BY <1>6, <1>9
  <2>2. q.discount > q.free => q.managed
    BY <1>5, <1>6 DEF Approved
  <2>3. 2 * q.roundOff \in -Step[q.rounding]..Step[q.rounding]
    BY <1>6, <1>16, <1>18, <1>19 DEF step
  <2>4. q.grand = Total([i \in D |-> q.lines[i].lineTotal]) + q.roundOff
    <3>1. total = Total([i \in D |-> q.lines[i].lineTotal])
      BY <1>6, <1>38
    <3> QED
      BY <1>6, <1>16, <1>19, <3>1
  <2>5. Total([i \in D |-> Total(q.lines[i].shares)]) = q.discount
    BY <1>6, <1>17
  <2>6. whole = Total([i \in D |-> charges(q.parts[i])])
    BY <1>6, <1>20
  <2>7. ASSUME NEW i \in D
        PROVE  /\ \A c \in {1, 4, 5} : q.lines[i].shares[c] = 0
               /\ (\A c \in {2, 3} : q.parts[i][c] >= 0) => \A c \in {2, 3} : q.lines[i].shares[c] \in 0..q.parts[i][c]
               /\ q.discount # 0 =>
                    /\ 2 * (Total(q.lines[i].shares) * whole - q.discount * charges(q.parts[i])) <= Cardinality(D) * whole
                    /\ -2 * (Total(q.lines[i].shares) * whole - q.discount * charges(q.parts[i])) <= Cardinality(D) * whole
    <3>1. LineTold(lines[i], body.lines[i], parts[i], shares[i])
      BY <1>15
    <3>2. Total(lines[i].shares) = shares[i] /\ charges(parts[i]) = levied[i]
      BY <1>11, <3>1 DEF LineTold
    <3>3. q.lines[i] = lines[i] /\ q.parts[i] = parts[i] /\ q.discount = discount
      BY <1>6
    <3>4. \A c \in {1, 4, 5} : q.lines[i].shares[c] = 0
      BY <3>1, <3>3 DEF LineTold
    <3>5. (\A c \in {2, 3} : q.parts[i][c] >= 0) => \A c \in {2, 3} : q.lines[i].shares[c] \in 0..q.parts[i][c]
      BY <3>1, <3>3 DEF LineTold
    <3>6. q.discount # 0 =>
            /\ 2 * (Total(q.lines[i].shares) * whole - q.discount * charges(q.parts[i])) <= Cardinality(D) * whole
            /\ -2 * (Total(q.lines[i].shares) * whole - q.discount * charges(q.parts[i])) <= Cardinality(D) * whole
      BY <1>14, <3>2, <3>3
    <3> QED
      BY <3>4, <3>5, <3>6
  <2> QED
    BY <2>1, <2>2, <2>3, <2>4, <2>5, <2>6, <2>7 DEF BillAddsUp
<1> QED
  BY <1>6, <1>7, <1>21 DEF PricedInv, PricedRight, q
-------------------------------------------------------------------------------
\* Orders

\* A line of an order as priced.
OrderTold(line) ==
  /\ {line.taxable, line.cgst, line.sgst, line.igst, line.lineTotal} \subseteq Int
  /\ line.lineTotal = line.taxable + line.cgst + line.sgst + line.igst

\* Rounding an amount leaves an amount, and by how much is bounded.
LEMMA RoundingNear ==
  ASSUME NEW value \in Int, NEW mode
  PROVE  /\ applyRounding(value, mode) \in Int
         /\ mode = "nearest_10" => applyRounding(value, mode) - value \in -500..500
         /\ mode = "none" => applyRounding(value, mode) = value
<1>1. CASE mode = "nearest_1"
  <2>1. 100 \in Nat /\ 100 > 0
    OBVIOUS
  <2>2. Rounded(value, 100) \in Int
    BY <2>1, RoundedNear
  <2>3. Rounded(value, 100) * 100 \in Int
    BY <2>2
  <2> QED
    BY <1>1, <2>3 DEF applyRounding
<1>2. CASE mode = "nearest_10"
  <2>1. 1000 \in Nat /\ 1000 > 0
    OBVIOUS
  <2> DEFINE r == Rounded(value, 1000)
  <2>2. r \in Int /\ 2 * (r * 1000 - value) <= 1000 /\ -1000 <= 2 * (r * 1000 - value)
    BY <2>1, RoundedNear
  <2>3. applyRounding(value, mode) = r * 1000
    BY <1>2 DEF applyRounding
  <2> HIDE DEF r
  <2>4. r * 1000 \in Int /\ r * 1000 - value \in -500..500
    BY <2>2
  <2> QED
    BY <1>2, <2>3, <2>4
<1>3. CASE mode # "nearest_1" /\ mode # "nearest_10"
  BY <1>3 DEF applyRounding
<1> QED
  BY <1>1, <1>2, <1>3

\* A line asked for in whole numbers is priced in whole numbers, and its total is its parts'.
LEMMA OrderedPriced ==
  ASSUME NEW line, OrderedLine(line), NEW ways
  PROVE  OrderTold(orderLine(line, ways))
<1>1. /\ line.gross \in Int /\ line.stoneWeight \in Int /\ line.rate \in Int /\ line.wastage \in Int
      /\ line.making \in Int /\ line.qty \in Int /\ line.stoneAmount \in Int /\ line.discount \in Int /\ line.gst \in Int
  BY DEF OrderedLine
<1>2. \A a \in Int : Rounded(a, PerGram) \in Int /\ Rounded(a, 2) \in Int
  <2>1. PerGram \in Nat /\ PerGram > 0 /\ 2 \in Nat /\ 2 > 0
    BY DEF PerGram
  <2> QED
    BY <2>1, RoundedNear
<1> DEFINE net == line.gross - line.stoneWeight
           metal == Rounded(net * line.rate, PerGram)
           wastage == CASE ways.wastageBasis = "none" -> 0
                        [] ways.wastageBasis = "per_gram" -> Rounded(net * line.wastage * line.rate, PerGram)
                        [] OTHER -> Rounded(Percent(net, line.wastage) * line.rate, PerGram)
           making == CASE line.basis = "percent" -> Percent(metal, line.making)
                       [] line.basis = "flat" -> line.making * line.qty
                       [] OTHER -> Rounded((IF ways.makingOnGross THEN line.gross ELSE net) * line.making, PerGram)
           before == metal + wastage + making + line.stoneAmount
           taxable == applyRounding(before - line.discount, ways.lineRounding)
           tax == Percent(taxable, line.gst)
           cgst == IF line.interState THEN 0 ELSE Rounded(tax, 2)
           priced == orderLine(line, ways)
<1>3. /\ priced.taxable = taxable
      /\ priced.cgst = cgst
      /\ priced.sgst = IF line.interState THEN 0 ELSE tax - cgst
      /\ priced.igst = IF line.interState THEN tax ELSE 0
      /\ priced.lineTotal = taxable + tax
  BY DEF orderLine
<1>4. net \in Int /\ metal \in Int
  <2>1. net \in Int
    BY <1>1
  <2> HIDE DEF net
  <2>2. net * line.rate \in Int
    BY <1>1, <2>1, IntProducts
  <2> QED
    BY <1>2, <2>1, <2>2
<1>5. wastage \in Int
  <2> HIDE DEF net
  <2>1. net * line.wastage \in Int
    BY <1>1, <1>4, IntProducts
  <2>2. (net * line.wastage) * line.rate \in Int
    BY <1>1, <2>1, IntProducts
  <2>3. Percent(net, line.wastage) \in Int
    BY <1>1, <1>4, PercentInt
  <2>4. Percent(net, line.wastage) * line.rate \in Int
    BY <1>1, <2>3, IntProducts
  <2>5. Rounded(net * line.wastage * line.rate, PerGram) \in Int /\ Rounded(Percent(net, line.wastage) * line.rate, PerGram) \in Int
    BY <1>2, <2>2, <2>4
  <2>6. CASE ways.wastageBasis = "none"
    BY <2>6
  <2>7. CASE ways.wastageBasis = "per_gram"
    BY <2>5, <2>7
  <2>8. CASE ways.wastageBasis # "none" /\ ways.wastageBasis # "per_gram"
    BY <2>5, <2>8
  <2> QED
    BY <2>6, <2>7, <2>8
<1>6. making \in Int
  <2> HIDE DEF net, metal
  <2> DEFINE weight == IF ways.makingOnGross THEN line.gross ELSE net
  <2>1. weight \in Int
    BY <1>1, <1>4
  <2>2. Rounded(weight * line.making, PerGram) \in Int
    <3> HIDE DEF weight
    <3>1. weight * line.making \in Int
      BY <1>1, <2>1, IntProducts
    <3> QED
      BY <1>2, <3>1
  <2>3. Percent(metal, line.making) \in Int
    BY <1>1, <1>4, PercentInt
  <2>4. line.making * line.qty \in Int
    BY <1>1, IntProducts
  <2>5. CASE line.basis = "percent"
    BY <2>3, <2>5
  <2>6. CASE line.basis = "flat"
    BY <2>4, <2>6
  <2>7. CASE line.basis # "percent" /\ line.basis # "flat"
    BY <2>2, <2>7
  <2> QED
    BY <2>5, <2>6, <2>7
<1>7. before - line.discount \in Int
  <2> HIDE DEF metal, wastage, making
  <2> QED
    BY <1>1, <1>4, <1>5, <1>6
<1>8. taxable \in Int
  <2> HIDE DEF before
  <2> QED
    BY <1>7, RoundingNear
<1>9. tax \in Int
  <2> HIDE DEF taxable
  <2> QED
    BY <1>1, <1>8, PercentInt
<1>10. cgst \in Int
  <2> HIDE DEF tax
  <2> QED
    BY <1>2, <1>9
<1> HIDE DEF taxable, tax
<1>11. CASE line.interState
  <2>1. cgst = 0 /\ priced.sgst = 0 /\ priced.igst = tax
    BY <1>3, <1>11
  <2> HIDE DEF cgst, priced
  <2>2. priced.lineTotal = priced.taxable + priced.cgst + priced.sgst + priced.igst
    BY <1>3, <1>8, <1>9, <2>1
  <2>3. {priced.taxable, priced.cgst, priced.sgst, priced.igst, priced.lineTotal} \subseteq Int
    BY <1>3, <1>8, <1>9, <2>1
  <2> QED
    BY <2>2, <2>3 DEF OrderTold, priced
<1>12. CASE ~line.interState
  <2>1. priced.sgst = tax - cgst /\ priced.igst = 0
    BY <1>3, <1>12
  <2> HIDE DEF cgst, priced
  <2>2. priced.lineTotal = priced.taxable + priced.cgst + priced.sgst + priced.igst
    BY <1>3, <1>8, <1>9, <1>10, <2>1
  <2>3. {priced.taxable, priced.cgst, priced.sgst, priced.igst, priced.lineTotal} \subseteq Int
    BY <1>3, <1>8, <1>9, <1>10, <2>1
  <2> QED
    BY <2>2, <2>3 DEF OrderTold, priced
<1> QED
  BY <1>11, <1>12

LEMMA priceOrderRight ==
  ASSUME PricedInv, priceOrder
  PROVE  PricedInv'
<1>1. PICK body \in OrderBodies :
        LET lines == [i \in DOMAIN body.lines |-> orderLine(body.lines[i], body.settings)] IN
        /\ quote = NoQuote
        /\ quote' = [of |-> "order", lines |-> lines, settings |-> body.settings,
                     totals |-> totalDocument(lines, body.settings)]
        /\ UNCHANGED <<formulas, rates>>
  BY Zenon DEF priceOrder
<1> DEFINE D == DOMAIN body.lines
           lines == [i \in D |-> orderLine(body.lines[i], body.settings)]
           totals == totalDocument(lines, body.settings)
           q == quote'
<1>2. q.of = "order" /\ q.lines = lines /\ q.settings = body.settings /\ q.totals = totals
  BY <1>1
<1>3. formulas' = formulas /\ rates' = rates /\ formulas \subseteq Formulas /\ rates \in RateSheets
  BY <1>1 DEF PricedInv
<1>4. IsFiniteSet(D) /\ \A i \in D : OrderedLine(body.lines[i])
  <2>1. D = 1..Len(body.lines) /\ Len(body.lines) \in Nat /\ \A i \in D : OrderedLine(body.lines[i])
    BY PricingAssumption
  <2> DEFINE n == Len(body.lines)
  <2>2. 1 \in Int /\ n \in Int /\ D = 1..n
    BY <2>1
  <2> HIDE DEF D, n
  <2>3. IsFiniteSet(1..n)
    BY <2>2, FS_Interval
  <2> QED
    BY <2>1, <2>2, <2>3
<1>5. DOMAIN lines = D /\ \A i \in D : lines[i] = orderLine(body.lines[i], body.settings)
  OBVIOUS
<1> HIDE DEF D, lines
<1>6. ASSUME NEW i \in D PROVE OrderTold(lines[i])
  <2>1. OrderTold(orderLine(body.lines[i], body.settings))
    BY <1>4, OrderedPriced
  <2> QED
    BY <1>5, <2>1
<1> DEFINE a == [i \in D |-> lines[i]["taxable"]]
           b == [i \in D |-> lines[i]["cgst"]]
           c == [i \in D |-> lines[i]["sgst"]]
           d == [i \in D |-> lines[i]["igst"]]
           t == [i \in D |-> lines[i].lineTotal]
           before == Total(a) + Total(b) + Total(c) + Total(d)
           total == applyRounding(before, body.settings.invoiceRounding)
<1>7. totals.total = total /\ totals.roundOff = total - before
  BY <1>5 DEF totalDocument
<1>8. \A i \in D : /\ a[i] \in Int /\ b[i] \in Int /\ c[i] \in Int /\ d[i] \in Int /\ t[i] \in Int
                   /\ t[i] = a[i] + b[i] + c[i] + d[i]
  BY <1>6 DEF OrderTold
<1>9. DOMAIN a = D /\ DOMAIN b = D /\ DOMAIN c = D /\ DOMAIN d = D /\ DOMAIN t = D
  OBVIOUS
<1> HIDE DEF a, b, c, d, t
<1>10. /\ Total(a) = SumFunctionOnSet(a, D) /\ Total(b) = SumFunctionOnSet(b, D) /\ Total(c) = SumFunctionOnSet(c, D)
       /\ Total(d) = SumFunctionOnSet(d, D) /\ Total(t) = SumFunctionOnSet(t, D)
  BY <1>9 DEF Total, SumFunction
<1>11. /\ SumFunctionOnSet(a, D) \in Int /\ SumFunctionOnSet(b, D) \in Int /\ SumFunctionOnSet(c, D) \in Int
       /\ SumFunctionOnSet(d, D) \in Int /\ SumFunctionOnSet(t, D) \in Int
  BY <1>4, <1>8, SumInt
<1>12. SumFunctionOnSet(t, D) = SumFunctionOnSet(a, D) + SumFunctionOnSet(b, D) + SumFunctionOnSet(c, D) + SumFunctionOnSet(d, D)
  <2> DEFINE ab == [i \in D |-> a[i] + b[i]]
             cd == [i \in D |-> c[i] + d[i]]
  <2>1. \A i \in D : ab[i] = a[i] + b[i] /\ cd[i] = c[i] + d[i] /\ ab[i] \in Int /\ cd[i] \in Int /\ t[i] = ab[i] + cd[i]
    BY <1>8
  <2> HIDE DEF ab, cd
  <2>2. SumFunctionOnSet(ab, D) = SumFunctionOnSet(a, D) + SumFunctionOnSet(b, D)
    BY <1>4, <1>8, <2>1, SumOfSums
  <2>3. SumFunctionOnSet(cd, D) = SumFunctionOnSet(c, D) + SumFunctionOnSet(d, D)
    BY <1>4, <1>8, <2>1, SumOfSums
  <2>4. SumFunctionOnSet(t, D) = SumFunctionOnSet(ab, D) + SumFunctionOnSet(cd, D)
    BY <1>4, <1>8, <2>1, SumOfSums
  <2> QED
    BY <1>11, <2>2, <2>3, <2>4
<1>13. before \in Int /\ Total(t) = before
  BY <1>10, <1>11, <1>12
<1> HIDE DEF before
<1>14. /\ total \in Int
       /\ body.settings.invoiceRounding = "nearest_10" => total - before \in -500..500
       /\ body.settings.invoiceRounding = "none" => total = before
  BY <1>13, RoundingNear
<1> HIDE DEF total, totals, q
<1>15. OrderAddsUp(q)
  <2>1. Total([i \in DOMAIN q.lines |-> q.lines[i].lineTotal]) = before
    <3>1. Total([i \in DOMAIN q.lines |-> q.lines[i].lineTotal]) = Total(t)
      BY <1>2, <1>5 DEF t
    <3> QED
      BY <1>13, <3>1
  <2>2. q.totals.total = before + q.totals.roundOff
    BY <1>2, <1>7, <1>13, <1>14
  <2>3. /\ q.settings.invoiceRounding = "nearest_10" => q.totals.roundOff \in -500..500
        /\ q.settings.invoiceRounding = "none" => q.totals.roundOff = 0
    BY <1>2, <1>7, <1>13, <1>14
  <2> QED
    BY <2>1, <2>2, <2>3 DEF OrderAddsUp
<1> QED
  BY <1>2, <1>3, <1>15 DEF PricedInv, PricedRight, q

LEMMA PricedStart ==
  ASSUME PricingInit
  PROVE  PricedInv
BY DEF PricingInit, PricedInv, PricedRight, NoQuote

\* What changes the formulas or the rates leaves nothing priced.
LEMMA PricedKeeps ==
  ASSUME PricedInv, [PricingNext]_pricingVars
  PROVE  PricedInv'
<1>1. ASSUME quote' = NoQuote, formulas' \subseteq Formulas, rates' \in RateSheets PROVE PricedInv'
  BY <1>1 DEF PricedInv, PricedRight, NoQuote
<1>2. CASE saveRule
  <2>1. quote' = NoQuote /\ formulas' \subseteq Formulas /\ rates' = rates
    BY <1>2 DEF saveRule, PricedInv
  <2> QED
    BY <1>1, <2>1 DEF PricedInv
<1>3. CASE removeRule
  <2>1. quote' = NoQuote /\ formulas' \subseteq Formulas /\ rates' = rates
    BY <1>3 DEF removeRule, PricedInv
  <2> QED
    BY <1>1, <2>1 DEF PricedInv
<1>4. CASE broadcastRate
  <2>1. quote' = NoQuote /\ formulas' = formulas /\ rates' \in RateSheets
    BY <1>4 DEF broadcastRate
  <2> QED
    BY <1>1, <2>1 DEF PricedInv
<1>5. CASE priceLine
  BY <1>5, priceLineRight
<1>6. CASE priceSale
  BY <1>6, priceSaleRight
<1>7. CASE priceOrder
  BY <1>7, priceOrderRight
<1>8. CASE UNCHANGED pricingVars
  <2>1. formulas' = formulas /\ rates' = rates /\ quote' = quote
    BY <1>8 DEF pricingVars
  <2>2. \A what, req : Matching(what, req)' = Matching(what, req)
    BY <2>1 DEF Matching
  <2>3. \A f, req : Wins(f, req)' <=> Wins(f, req)
    BY <2>2 DEF Wins
  <2>4. RuleWins(quote)' <=> RuleWins(quote)
    BY <2>1, <2>2, <2>3 DEF RuleWins
  <2> QED
    BY <2>1, <2>4 DEF PricedInv, PricedRight
<1> QED
  BY <1>2, <1>3, <1>4, <1>5, <1>6, <1>7, <1>8 DEF PricingNext

-------------------------------------------------------------------------------
\* The system

\* The system starts with every part as it starts by itself.
LEMMA PartsStart ==
  Init => /\ OrdersInit /\ SessionsInit /\ CachesInit /\ StaffInit /\ BranchesInit /\ SeriesInit
          /\ SupportInit /\ SchemesInit /\ GirviInit /\ TagsInit /\ GstInit /\ GoldInit /\ ListsInit
          /\ PricingInit
  BY DEF Init

\* A step of the system is a step of each part or leaves the part alone.
LEMMA PartsStep ==
  [Next]_officeVars =>
    /\ [OrdersNext]_ordersVars /\ [SessionsNext]_sessionVars /\ [CachesNext]_cacheVars
    /\ [StaffNext]_staffVars /\ [BranchesNext]_branchVars /\ [SeriesNext]_seriesVars
    /\ [SupportNext]_supportVars /\ [SchemesNext]_schemeVars /\ [GirviNext]_girviVars
    /\ [TagsNext]_tagVars /\ [GstNext]_gstVars /\ [GoldNext]_goldVars /\ [ListsNext]_listVars
    /\ [PricingNext]_pricingVars
<1> SUFFICES ASSUME [Next]_officeVars
             PROVE  /\ [OrdersNext]_ordersVars /\ [SessionsNext]_sessionVars /\ [CachesNext]_cacheVars
                    /\ [StaffNext]_staffVars /\ [BranchesNext]_branchVars /\ [SeriesNext]_seriesVars
                    /\ [SupportNext]_supportVars /\ [SchemesNext]_schemeVars /\ [GirviNext]_girviVars
                    /\ [TagsNext]_tagVars /\ [GstNext]_gstVars /\ [GoldNext]_goldVars /\ [ListsNext]_listVars
                    /\ [PricingNext]_pricingVars
  OBVIOUS
<1>1. CASE UNCHANGED officeVars
  BY <1>1 DEF officeVars
<1>2. CASE OnlyOldGold /\ GoldNext
  BY <1>2 DEF OnlyOldGold
<1>3. CASE OnlyOrders /\ OrdersNext
  BY <1>3 DEF OnlyOrders
<1>4. CASE OnlySessions /\ SessionsNext
  BY <1>4 DEF OnlySessions
<1>5. CASE OnlyCaches /\ CachesNext
  BY <1>5 DEF OnlyCaches
<1>6. CASE OnlyStaff /\ StaffNext
  BY <1>6 DEF OnlyStaff
<1>7. CASE OnlySchema
  BY <1>7 DEF OnlySchema
<1>8. CASE OnlyPricing /\ PricingNext
  BY <1>8 DEF OnlyPricing
<1>9. CASE OnlyGstRates /\ GstNext
  BY <1>9 DEF OnlyGstRates
<1>10. CASE OnlyBranches /\ BranchesNext
  BY <1>10 DEF OnlyBranches
<1>11. CASE OnlyNumberSeries /\ SeriesNext
  BY <1>11 DEF OnlyNumberSeries
<1>12. CASE OnlySupport /\ SupportNext
  BY <1>12 DEF OnlySupport
<1>13. CASE OnlySchemes /\ SchemesNext
  BY <1>13 DEF OnlySchemes
<1>14. CASE OnlyGirvi /\ GirviNext
  BY <1>14 DEF OnlyGirvi
<1>15. CASE OnlyLists /\ ListsNext
  BY <1>15 DEF OnlyLists
<1>16. CASE OnlyTags /\ TagsNext
  BY <1>16 DEF OnlyTags
<1> QED
  BY <1>1, <1>2, <1>3, <1>4, <1>5, <1>6, <1>7, <1>8, <1>9, <1>10, <1>11, <1>12, <1>13, <1>14, <1>15, <1>16 DEF Next

\* Money taken over months is on the customer's account as it was taken (routes.commercial.ts):
\* in a saving scheme the running totals are the sums of the installments, on a loan what is
\* outstanding is the principal less its receipts, for any number of accounts, loans,
\* installments and cashiers.
THEOREM PaymentsTellEver == Spec => []PaymentsTell
<1>1. Init => SchemesInv /\ GirviInv
  BY PartsStart, SchemesInitInv, GirviInitInv
<1>2. SchemesInv /\ GirviInv /\ [Next]_officeVars => SchemesInv' /\ GirviInv'
  BY PartsStep, SchemesNextInv, GirviNextInv
<1>3. SchemesInv /\ GirviInv => PaymentsTell
  BY SchemesInvTell, GirviInvTell DEF PaymentsTell
<1> QED
  BY <1>1, <1>2, <1>3, PTL DEF Spec

\* However it is listed, the timeline of an order tells where the order stands and whether it
\* is active, completed or cancelled; its rows are listed with no more overtaken than there
\* were others at work; and its payments add up to what it says was paid, past its total by
\* the table's tolerance at most: for any pipeline, any number of orders, of people moving
\* them and of requests under way (orders.service.ts:5-7, routes.orders.ts:132-134).
THEOREM TimelineTellsEver == Spec => []TimelineTells
<1>1. Init => OrdersInv
  BY PartsStart, OrdersInitInv
<1>2. OrdersInv /\ [Next]_officeVars => OrdersInv'
  BY PartsStep, OrdersNextInv
<1>3. OrdersInv => TimelineTells
  BY OrdersInvTell
<1> QED
  BY <1>1, <1>2, <1>3, PTL DEF Spec

\* No branch's next number is on a document already, through whatever changes of prefix, year
\* and branches, while restarting is neither switched on nor off (routes.master-setup.ts:93).
THEOREM NumbersOnceEver == Spec => []NumbersOnce
<1>1. Init => SeriesInv
  BY PartsStart, SeriesInitInv
<1>2. SeriesInv /\ [Next]_officeVars => SeriesInv'
  BY PartsStep, SeriesNextInv
<1>3. SeriesInv => NumbersOnce
  BY SeriesInvOnce
<1> QED
  BY <1>1, <1>2, <1>3, PTL DEF Spec

\* Whatever any instance answers from memory was true at some moment of the last minute,
\* however many instances and branches there are and however loads, changes and rollbacks
\* interleave (module-access.ts:5, access.service.ts:180, config-service.ts).
THEOREM ServedFreshEver == Spec => []ServedFresh
<1>1. Init => CachesInv
  BY PartsStart, CachesInitInv
<1>2. CachesInv /\ [Next]_officeVars => CachesInv'
  BY PartsStep, CachesNextInv
<1>3. CachesInv => ServedFresh
  BY CachesInvFresh
<1> QED
  BY <1>1, <1>2, <1>3, PTL DEF Spec

\* A way in that was closed stays closed: a sign-in that was ended keeps no usable token but
\* one the grace period allows, and passwords are compared only so often before the account
\* is locked, with any number of browsers and tokens (auth.service.ts:187-196, 261).
THEOREM WaysInClosedEver == Spec => []WaysInClosed
<1>1. Init => SessionsInv
  BY PartsStart, SessionsInitInv
<1>2. SessionsInv /\ [Next]_officeVars => SessionsInv'
  BY PartsStep, SessionsNextInv
<1>3. SessionsInv => WaysInClosed
  BY SessionsInvCloses DEF WaysInClosed
<1> QED
  BY <1>1, <1>2, <1>3, PTL DEF Spec

\* With one operator two admins share a branch only when nobody checked; with any number of
\* operators a token version stands for one set of grants (provisioning.service.ts:272,
\* access.service.ts:2).
THEOREM StaffTellsEver == Spec => []StaffTells
<1>1. Init => StaffInv
  BY PartsStart, StaffInitInv
<1>2. StaffInv /\ [Next]_officeVars => StaffInv'
  BY PartsStep, StaffNextInv
<1>3. StaffInv => StaffTells
  BY StaffInvTells DEF StaffTells
<1> QED
  BY <1>1, <1>2, <1>3, PTL DEF Spec

\* There are no more branches than were sold or there were, and one more for each other
\* manager at work; with one manager the last active branch stays active, and every branch
\* has somewhere for stock to sit (tenancy.schema.ts:40, branch.service.ts:63).
THEOREM BranchAllowanceEver == Spec => []BranchAllowance
<1>1. Init => BranchesInv
  BY PartsStart, BranchesInitInv
<1>2. BranchesInv /\ [Next]_officeVars => BranchesInv'
  BY PartsStep, BranchesNextInv
<1>3. BranchesInv => BranchAllowance
  BY BranchesInvAllowance
<1> QED
  BY <1>1, <1>2, <1>3, PTL DEF Spec

\* No request is served that came after the session's time or its first closing, none that
\* writes in a read-only session, and the console, the dock and the gate agree on what the
\* shop has (support-session.service.ts:81).
THEOREM SupportWindowEver == Spec => []SupportWindow
<1>1. Init => SupportInv
  BY PartsStart, SupportInitInv
<1>2. SupportInv /\ [Next]_officeVars => SupportInv'
  BY PartsStep, SupportNextInv
<1>3. SupportInv => SupportWindow
  BY SupportInvWindow
<1> QED
  BY <1>1, <1>2, <1>3, PTL DEF Spec

\* Of the pieces in stock no two carry one HUID, a piece carries the last it was assigned and
\* that alone is not superseded, and its tag went through the queue at most once, before any
\* reprint, for any number of pieces, HUIDs and people at the counter
\* (inventory.schema.ts:81, routes.stock.ts:566).
THEOREM TagsTellEver == Spec => []TagsTell
<1>1. Init => TagsInv
  BY PartsStart, TagsInitInv
<1>2. TagsInv /\ [Next]_officeVars => TagsInv'
  BY PartsStep, TagsNextInv
<1>3. TagsInv => TagsTell
  BY TagsInvTells
<1> QED
  BY <1>1, <1>2, <1>3, PTL DEF Spec

\* From the first version of a GST rate on every day has a rate, with any number of editors,
\* versions and days; with one editor the rate of a day that is past never changes, and two
\* versions are open only when one that started between them was deleted
\* (pricing.schema.ts:2, routes.master-pricing.ts).
THEOREM GstStandsEver == Spec => []GstStands
<1>1. Init => GstInv
  BY PartsStart, GstInitInv
<1>2. GstInv /\ [Next]_officeVars => GstInv'
  BY PartsStep, GstNextInv
<1>3. GstInv => GstStands
  BY GstInvStands
<1> QED
  BY <1>1, <1>2, <1>3, PTL DEF Spec

\* Old gold is accounted for, with any number of desks, intakes and batches and whatever
\* articles and rates: what standing intakes brought less what standing batches took is in
\* stock, what is with refiners and in bullion is on the ledger, and the credit left and spent
\* is what standing intakes gave and did not pay out.  With one desk no article of a cancelled
\* intake is melted, cash keeps to the day's limit and credit is not used twice
\* (oldgold.service.ts:409, 573).
THEOREM GoldAccountedEver == Spec => []GoldAccounted
<1>1. Init => OldGoldInv
  BY PartsStart, OldGoldInitInv
<1>2. OldGoldInv /\ [Next]_officeVars => OldGoldInv'
  BY PartsStep, OldGoldNextInv
<1>3. OldGoldInv => GoldAccounted
  BY OldGoldInvAccounts
<1> QED
  BY <1>1, <1>2, <1>3, PTL DEF Spec

\* A row nobody touches is given exactly once to whoever goes through a list by cursor, and
\* one added or removed meanwhile at most once, however many others change and in whatever
\* order they come; by offset a list that nobody touches and where no name is there twice is
\* given whole and in order (crud.ts:109-146).  For any rows, names and page sizes.
THEOREM ListsWholeEver == Spec => []ListsWhole
<1>1. Init => ListsInv
  BY PartsStart, ListsInitInv
<1>2. ListsInv /\ [Next]_officeVars => ListsInv'
  BY PartsStep, ListsNextInv
<1>3. ListsInv => ListsWhole
  BY ListsInvWhole
<1> QED
  BY <1>1, <1>2, <1>3, PTL DEF Spec

\* Whatever formulas were saved in whatever order, whatever the rates, the weights, the amounts
\* and the discounts, and however long the lists of slabs and lines: a line takes the most
\* specific formula and the slab that covers it, a discount is given whole and each share of
\* it within a rounding of its proportion, and a line, a bill and an order come to their
\* parts (engine.ts:5, pricing.service.ts:77, sales.service.ts:248, routes.pricing.ts).
THEOREM PricedRightEver == Spec => []PricedRight
<1>1. Init => PricedInv
  BY PartsStart, PricedStart
<1>2. PricedInv /\ [Next]_officeVars => PricedInv'
  BY PartsStep, PricedKeeps
<1>3. PricedInv => PricedRight
  BY DEF PricedInv
<1> QED
  BY <1>1, <1>2, <1>3, PTL DEF Spec

===============================================================================

--------------------------------- MODULE Caches ---------------------------------
(***************************************************************************)
(* What each instance of the server keeps in memory for a minute: a shop's *)
(* settings (core/config/config-service.ts), which of its modules are off  *)
(* (tenancy/module-access.ts) and what a user may do                       *)
(* (identity/access.service.ts).                                           *)
(*                                                                         *)
(* The three differ in their key, which for a user's access is the token   *)
(* version, and in when the instance that makes a change drops its entry:  *)
(* before the change commits, or for modules after.  A behaviour looks at  *)
(* one kind.  What is kept is two layers, the shop's and a branch's; a     *)
(* change writes its own number into one of them.  A minute is TTL ticks   *)
(* and loading takes less than one.  The limit of 5000 users in memory is  *)
(* left out: dropping an entry early only loads it again.                  *)
(***************************************************************************)
EXTENDS Integers

CONSTANTS
  Instances,    \* server processes
  TTL,          \* ticks an entry is used for
  MaxChanges,   \* bound: changes of the rows
  MaxMinutes    \* bound: ticks

\* An entry never kept is older than any that is used.
ASSUME CachesAssumption == TTL \in Nat \ {0} /\ MaxChanges \in Nat /\ MaxMinutes \in Nat

VARIABLES
  kind,       \* "config", "modules" or "access"
  minute,     \* the clock
  settings,   \* the committed rows
  past,       \* earlier rows, each with when they stopped being true
  change,     \* the change an instance is in the middle of
  cache,      \* what each instance keeps, by key
  loading     \* what each instance has read and not yet kept

cacheVars == <<kind, minute, settings, past, change, cache, loading>>

Keys == 0..MaxChanges
Layers == [shop : Keys, branch : Keys]     \* 0: nothing set
NoLayers == [shop |-> 0, branch |-> 0]

\* The number of the last change, which is the token version of a user's row.
version(rows) == IF rows.shop > rows.branch THEN rows.shop ELSE rows.branch

Entries == [rows : Layers, at : Int]
NoEntry == [rows |-> NoLayers, at |-> -TTL]

NoLoad == [rows |-> NoLayers, at |-> -1]

Changes == [by : Instances \cup {"none"}, pc : {"idle", "open", "committed"}, layer : {"shop", "branch"}]
NoChange == [by |-> "none", pc |-> "idle", layer |-> "shop"]

CachesTypeOK ==
  /\ minute \in 0..MaxMinutes
  /\ settings \in Layers
  /\ past \subseteq [rows : Layers, until : 0..MaxMinutes]
  /\ change \in Changes
  /\ cache \in [Instances -> [Keys -> Entries]]
  /\ loading \in [Instances -> Entries]

CachesInit ==
  /\ kind \in {"config", "modules", "access"}
  /\ minute = 0
  /\ settings = NoLayers /\ past = {}
  /\ change = NoChange
  /\ cache = [p \in Instances |-> [k \in Keys |-> NoEntry]]
  /\ loading = [p \in Instances |-> NoLoad]

\* keyOf: a user's access is kept per token version, the rest once per shop.
keyOf(rows) == IF kind = "access" THEN version(rows) ELSE 0

fresh_Any(p, k) == cache[p][k] # NoEntry

fresh(p, k) == minute - cache[p][k].at < TTL

\* Time passes; nobody loads across more than one tick.
Minute ==
  /\ minute < MaxMinutes
  /\ \A p \in Instances : loading[p] # NoLoad => loading[p].at = minute
  /\ minute' = minute + 1
  /\ UNCHANGED <<kind, settings, past, change, cache, loading>>

-------------------------------------------------------------------------------
\* Reading: what is kept when it is fresh, the committed rows otherwise.  A token of an
\* earlier version is refused and nothing is kept for it, so only the current key is loaded.
BeginLoad(p) ==
  /\ loading[p] = NoLoad
  /\ ~fresh(p, keyOf(settings))
  /\ loading' = [loading EXCEPT ![p] = [rows |-> settings, at |-> minute]]
  /\ UNCHANGED <<kind, minute, settings, past, change, cache>>

\* A user's grants are read after their version was (loadUserAccess), each as committed
\* at the time.
FinishLoad(p) ==
  LET load == loading[p]
      loaded == IF kind = "access" THEN settings ELSE load.rows
  IN
  /\ load # NoLoad
  /\ cache' = [cache EXCEPT ![p][keyOf(load.rows)] = [rows |-> loaded, at |-> minute]]
  /\ loading' = [loading EXCEPT ![p] = NoLoad]
  /\ UNCHANGED <<kind, minute, settings, past, change>>

-------------------------------------------------------------------------------
\* Changing.  One change of the rows at a time: it holds them.

invalidated(p) == [cache EXCEPT ![p] = [k \in Keys |-> NoEntry]]

\* setConfig and changes of a user drop the entry inside their transaction.
BeginChange(p) ==
  \E layer \in {"shop", "branch"} :
    /\ change = NoChange
    /\ version(settings) < MaxChanges
    /\ change' = [by |-> p, pc |-> "open", layer |-> layer]
    /\ cache' = IF kind = "modules" THEN cache ELSE invalidated(p)
    /\ UNCHANGED <<kind, minute, settings, past, loading>>

CommitChange ==
  /\ change.pc = "open"
  /\ settings' = [settings EXCEPT ![change.layer] = version(settings) + 1]
  /\ past' = past \cup {[rows |-> settings, until |-> minute]}
  /\ change' = IF kind = "modules" THEN [change EXCEPT !.pc = "committed"] ELSE NoChange
  /\ UNCHANGED <<kind, minute, cache, loading>>

\* A change of modules drops it once committed.
DropEntry ==
  /\ change.pc = "committed"
  /\ cache' = invalidated(change.by)
  /\ change' = NoChange
  /\ UNCHANGED <<kind, minute, settings, past, loading>>

RollbackChange ==
  /\ change.pc = "open"
  /\ change' = NoChange
  /\ UNCHANGED <<kind, minute, settings, past, cache, loading>>

CachesNext ==
  \/ Minute
  \/ \E p \in Instances :
       \/ BeginLoad(p)
       \/ FinishLoad(p)
       \/ BeginChange(p)
  \/ CommitChange
  \/ DropEntry
  \/ RollbackChange

-------------------------------------------------------------------------------
\* getConfig: the branch's value, else the shop's, else the default.
effective(rows, atBranch) == IF atBranch /\ rows.branch # 0 THEN rows.branch ELSE rows.shop

\* "Other instances catch up within TTL_MS" (module-access.ts:5, access.service.ts:180):
\* whatever any instance would answer from memory, for a key and a branch, was true at
\* some moment of the last minute, however loads, changes and their rollback interleave;
\* and a token's version is never answered with the access of another.
ServedFresh ==
  \A p \in Instances, k \in Keys : fresh(p, k) =>
    /\ keyOf(cache[p][k].rows) >= k
    /\ \A atBranch \in BOOLEAN :
         \E w \in past \cup {[rows |-> settings, until |-> minute]} :
           /\ w.until >= minute - TTL
           /\ effective(cache[p][k].rows, atBranch) = effective(w.rows, atBranch)
===============================================================================

---------------------------------- MODULE Schema ----------------------------------
(***************************************************************************)
(* core/db/schema: what a release of the code declares is compared with    *)
(* the database every time an instance starts, and the difference applied. *)
(*                                                                         *)
(* One table.  A sync is one transaction under an advisory lock, so one    *)
(* step.  Changes go in batches, and one by one when a batch fails; either *)
(* way those that can be applied are, in order.  A value is a number that  *)
(* stands for its digits; a type is numeric(p,s), or <<>> for any other.   *)
(* A rule of the table is a check on Columns' first column, which like a   *)
(* check without quoted values is only compared by name.                   *)
(***************************************************************************)
EXTENDS Integers, FiniteSets, SequencesExt

CONSTANTS
  Columns,    \* names of columns
  Fields,     \* values a row may hold
  Designs,    \* what releases declare of the table
  Parents,    \* the keys there are in each table that may be referenced
  SyncModes,  \* SCHEMA_SYNC_MODE of an instance: "safe", "verify", "force" or "off"
  MaxRows,    \* bound: rows saved, by how many instances have started
  MaxBoots    \* bound: instances started

VARIABLES
  db,       \* the table and its rows
  saved,    \* the rows as they were saved
  serving,  \* the releases that run
  synced,   \* the release the table was last brought in line with, if nobody touched it since
  boots

schemaVars == <<db, saved, serving, synced, boots>>

Null == 0
RuleColumn == CHOOSE c \in Columns : TRUE
RlsParts == {"enabled", "forced", "tenant", "platform"}
NoColumn == [type |-> <<>>, notNull |-> FALSE, default |-> Null, check |-> {}, references |-> "none"]
NoDesign == [known |-> FALSE, columns |-> [c \in {} |-> NoColumn], unique |-> {}, indexes |-> {}, rule |-> {}]
NoTable == [exists |-> FALSE, columns |-> [c \in {} |-> NoColumn], constraints |-> {}, indexes |-> {}, rls |-> {}]

Indexes == [column : Columns, unique : BOOLEAN]
Constraints == [kind : {"fk", "ck", "rule", "uq"}, column : Columns, allowed : SUBSET Fields,
                target : DOMAIN Parents \cup {"none"}]

Constraint(kind, c, def) ==
  [kind |-> kind, column |-> c, allowed |-> IF kind \in {"ck", "rule"} THEN def.check ELSE {},
   target |-> IF kind = "fk" THEN def.references ELSE "none"]

SchemaTypeOK ==
  /\ db.table.constraints \subseteq Constraints
  /\ db.table.indexes \subseteq Indexes
  /\ db.table.rls \subseteq RlsParts
  /\ DOMAIN db.table.columns \subseteq Columns
  /\ \A i \in DOMAIN db.rows : db.rows[i] \in [Columns -> Fields \cup {Null}]
  /\ Len(db.rows) = Len(saved)

-------------------------------------------------------------------------------
\* What Postgres accepts.

Fits(v, type) == type # <<>> => v < 10^(type[1] - type[2])

Unique(rows, c) == \A i, j \in DOMAIN rows : i # j /\ rows[i][c] = rows[j][c] => rows[i][c] = Null

Satisfied(con, rows) ==
  LET values == {rows[i][con.column] : i \in DOMAIN rows} \ {Null} IN
  CASE con.kind = "fk" -> values \subseteq Parents[con.target]
    [] con.kind = "uq" -> Unique(rows, con.column)
    [] OTHER -> values \subseteq con.allowed

Accepted(table, rows) ==
  /\ table.exists
  /\ \A i \in DOMAIN rows, c \in DOMAIN table.columns :
       Fits(rows[i][c], table.columns[c].type) /\ (table.columns[c].notNull => rows[i][c] # Null)
  /\ \A con \in table.constraints : Satisfied(con, rows)
  /\ \A ix \in table.indexes : ix.unique => Unique(rows, ix.column)

\* A column the release does not fill, or leaves out, takes its default.
Stored(table, given) ==
  [c \in Columns |-> IF c \in DOMAIN given /\ given[c] # Null THEN given[c]
                     ELSE IF c \in DOMAIN table.columns THEN table.columns[c].default ELSE Null]

-------------------------------------------------------------------------------
\* The changes a table needs, each with its risk and whether it waits for a human.

Change(kind, on, c, def, risk, blocked) ==
  [kind |-> kind, on |-> on, column |-> c, def |-> def, risk |-> risk, blocked |-> blocked]

When(needed, change) == IF needed THEN <<change>> ELSE <<>>

Each(S, Op(_)) == LET order == SetToSeq(S) IN FlattenSeq([i \in DOMAIN order |-> Op(order[i])])

numericChange(from, to) ==
  IF from = <<>> \/ to = <<>> THEN "unrelated"
  ELSE IF to[1] - to[2] >= from[1] - from[2] /\ to[2] >= from[2] THEN "widen" ELSE "narrow"

diffColumns(d, live) == Each(DOMAIN d.columns, LAMBDA c :
  LET def == d.columns[c]
      now == live.columns[c]
      needsBackfill == def.notNull /\ def.default = Null
      destructive == numericChange(now.type, def.type) # "widen"
  IN
  IF c \notin DOMAIN live.columns
  THEN <<Change("add_column", "column", c, def, IF needsBackfill THEN "warn" ELSE "safe", needsBackfill)>>
  ELSE When(now.type # def.type, Change("alter_column_type", "column", c, def,
                                        IF destructive THEN "destructive" ELSE "warn", destructive))
       \o When(def.notNull /\ ~now.notNull, Change("set_not_null", "column", c, def, "warn", TRUE))
       \o When(~def.notNull /\ now.notNull, Change("drop_not_null", "column", c, def, "safe", FALSE))
       \o When(def.default # now.default, Change("set_default", "column", c, def, "safe", FALSE)))

\* A retired column keeps its data; the rows of a release that no longer fills it must pass.
diffDroppedColumns_Strict(d, live) == Each(DOMAIN live.columns \ DOMAIN d.columns, LAMBDA c :
  <<Change("drop_column", "column", c, NoColumn, "destructive", TRUE)>>)

diffDroppedColumns(d, live) == Each(DOMAIN live.columns \ DOMAIN d.columns, LAMBDA c :
  When(live.columns[c].notNull /\ live.columns[c].default = Null,
       Change("drop_not_null", "column", c, NoColumn, "safe", FALSE))
  \o <<Change("drop_column", "column", c, NoColumn, "destructive", TRUE)>>)

Named(live, kind, c) == {con \in live.constraints : con.kind = kind /\ con.column = c}

\* Missing, or pointing somewhere else.
diffForeignKeys(d, live) == Each({c \in DOMAIN d.columns : d.columns[c].references # "none"}, LAMBDA c :
  When(Constraint("fk", c, d.columns[c]) \notin live.constraints,
       Change("add_constraint", "fk", c, d.columns[c], "warn", FALSE)))

Checked(d) == {c \in DOMAIN d.columns : d.columns[c].check # {}}

\* Missing, or with another list of values; a rule only when it is missing.  A new table
\* is created with them.
diffChecks(d, live) ==
  IF ~live.exists THEN <<>>
  ELSE Each(Checked(d), LAMBDA c : When(Constraint("ck", c, d.columns[c]) \notin live.constraints,
                                        Change("add_constraint", "ck", c, d.columns[c], "warn", FALSE)))
       \o When(d.rule # {} /\ Named(live, "rule", RuleColumn) = {},
               Change("add_constraint", "rule", RuleColumn, [NoColumn EXCEPT !.check = d.rule], "warn", FALSE))

diffUniques(d, live) == Each(d.unique, LAMBDA c :
  When(Named(live, "uq", c) = {}, Change("add_constraint", "uq", c, NoColumn, "warn", FALSE)))

diffIndexes(d, live) ==
  Each(d.indexes \ live.indexes, LAMBDA ix :
    <<Change("create_index", IF ix.unique THEN "ux" ELSE "ix", ix.column, NoColumn, "safe", FALSE)>>)
  \o Each(live.indexes \ d.indexes, LAMBDA ix :
    <<Change("drop_index", IF ix.unique THEN "ux" ELSE "ix", ix.column, NoColumn, "warn", TRUE)>>)

\* Unique rules and checks that are no longer wanted; foreign keys stay.
diffRetired(d, live) ==
  LET wanted == {<<"uq", c>> : c \in d.unique} \cup {<<"ck", c>> : c \in Checked(d)}
                \cup (IF d.rule # {} THEN {<<"rule", RuleColumn>>} ELSE {})
  IN Each({con \in live.constraints : con.kind # "fk" /\ <<con.kind, con.column>> \notin wanted}, LAMBDA con :
       <<Change("drop_constraint", con.kind, con.column, NoColumn, "safe", FALSE)>>)

diffRls(live) == When(live.rls # RlsParts, Change("enable_rls", "table", RuleColumn, NoColumn, "safe", FALSE))

diffSchema(d, live) ==
  IF ~d.known THEN When(live.exists, Change("drop_table", "table", RuleColumn, NoColumn, "destructive", TRUE))
  ELSE (IF live.exists THEN diffColumns(d, live)
        ELSE <<Change("create_table", "table", RuleColumn, NoColumn, "safe", FALSE)>>)
       \o diffForeignKeys(d, live) \o diffChecks(d, live) \o diffUniques(d, live) \o diffIndexes(d, live)
       \o diffRetired(d, live) \o diffRls(live)
       \o (IF live.exists THEN diffDroppedColumns(d, live) ELSE <<>>)

-------------------------------------------------------------------------------
\* Applying them.

\* Whatever the risk.
isAllowed_Any(change, mode) == mode \in {"safe", "force"}

isAllowed(change, mode) ==
  mode = "force" \/ (~change.blocked /\ (change.risk = "safe" \/ (change.risk = "warn" /\ mode = "safe")))

createTable(d) ==
  [NoTable EXCEPT !.exists = TRUE, !.columns = d.columns,
     !.constraints = {Constraint("ck", c, d.columns[c]) : c \in Checked(d)}
                     \cup (IF d.rule = {} THEN {}
                           ELSE {Constraint("rule", RuleColumn, [NoColumn EXCEPT !.check = d.rule])})]

\* The table a change leads to; whether Postgres lets it depends on the rows.
Altered(d, change, t) ==
  LET c == change.column
      ix == [column |-> c, unique |-> change.on = "ux"]
      without == t.constraints \ Named(t, change.on, c)
  IN CASE change.kind = "create_table" -> createTable(d)
       [] change.kind = "add_column" -> [t EXCEPT !.columns = [x \in DOMAIN @ \cup {c} |-> IF x = c THEN change.def ELSE @[x]]]
       [] change.kind = "alter_column_type" -> [t EXCEPT !.columns[c].type = change.def.type]
       [] change.kind = "set_not_null" -> [t EXCEPT !.columns[c].notNull = TRUE]
       [] change.kind = "drop_not_null" -> [t EXCEPT !.columns[c].notNull = FALSE]
       [] change.kind = "set_default" -> [t EXCEPT !.columns[c].default = change.def.default]
       [] change.kind = "drop_column" -> [t EXCEPT !.columns = [x \in DOMAIN @ \ {c} |-> @[x]],
                                                   !.constraints = {con \in @ : con.column # c},
                                                   !.indexes = {i \in @ : i.column # c}]
       [] change.kind = "add_constraint" -> [t EXCEPT !.constraints = without \cup {Constraint(change.on, c, change.def)}]
       [] change.kind = "drop_constraint" -> [t EXCEPT !.constraints = without]
       [] change.kind = "create_index" -> [t EXCEPT !.indexes = @ \cup {ix}]
       [] change.kind = "drop_index" -> [t EXCEPT !.indexes = @ \ {ix}]
       [] change.kind = "enable_rls" -> [t EXCEPT !.rls = RlsParts]
       [] change.kind = "drop_table" -> NoTable

\* A new column is filled with its default, a dropped one is gone.
Rewritten(change, rows) ==
  [i \in DOMAIN rows |-> IF change.kind \in {"add_column", "drop_column"}
                         THEN [rows[i] EXCEPT ![change.column] = change.def.default] ELSE rows[i]]

\* A statement that fails leaves the table as it was, and is reported.
applyChange(d, mode, state, change) ==
  LET table == Altered(d, change, state.table)
      rows == IF change.kind = "drop_table" THEN <<>> ELSE Rewritten(change, state.rows)
      there == change.kind \in {"add_constraint", "create_index"} => change.column \in DOMAIN state.table.columns
  IN IF isAllowed(change, mode) /\ there /\ (table.exists => Accepted(table, rows))
     THEN [table |-> table, rows |-> rows] ELSE state

Synced(d, mode, state) ==
  FoldLeft(LAMBDA s, change : applyChange(d, mode, s, change), state, diffSchema(d, state.table))

-------------------------------------------------------------------------------
SchemaInit ==
  /\ db = [table |-> NoTable, rows |-> <<>>]
  /\ saved = <<>>
  /\ serving = {}
  /\ synced = NoDesign
  /\ boots = 0

\* An instance starts.  One that only verifies refuses to when anything differs.
syncSchema(d, mode) ==
  /\ boots < MaxBoots
  /\ boots' = boots + 1
  /\ IF mode \in {"safe", "force"}
     THEN /\ db' = Synced(d, mode, db)
          /\ saved' = IF mode = "force" THEN db'.rows ELSE saved
          /\ synced' = IF mode = "force" THEN NoDesign ELSE d
     ELSE UNCHANGED <<db, saved, synced>>
  /\ serving' = IF mode = "verify" /\ diffSchema(d, db.table) # <<>> THEN serving ELSE serving \cup {d}

StopRelease(d) ==
  /\ d \in serving
  /\ serving' = serving \ {d}
  /\ UNCHANGED <<db, saved, synced, boots>>

Save(d) ==
  \E given \in [DOMAIN d.columns -> Fields \cup {Null}] :
    LET row == Stored(db.table, given)
        rows == Append(db.rows, row)
    IN
    /\ d \in serving /\ d.known
    /\ Len(db.rows) < MaxRows[boots]
    /\ DOMAIN d.columns \subseteq DOMAIN db.table.columns
    /\ Accepted(db.table, rows)
    /\ db' = [db EXCEPT !.rows = rows]
    /\ saved' = Append(saved, row)
    /\ UNCHANGED <<serving, synced, boots>>

\* Someone at the database adds an index or switches a part of the isolation off.
ByHand ==
  /\ db.table.exists
  /\ synced # NoDesign
  /\ \/ \E ix \in Indexes \ db.table.indexes :
          /\ ix.column \in DOMAIN db.table.columns
          /\ ix.unique => Unique(db.rows, ix.column)
          /\ db' = [db EXCEPT !.table.indexes = @ \cup {ix}]
     \/ \E part \in db.table.rls : db' = [db EXCEPT !.table.rls = @ \ {part}]
  /\ synced' = NoDesign
  /\ UNCHANGED <<saved, serving, boots>>

SchemaNext ==
  \/ \E d \in Designs, mode \in SyncModes : syncSchema(d, mode)
  \/ \E d \in Designs :
       \/ StopRelease(d)
       \/ Save(d)
  \/ ByHand

-------------------------------------------------------------------------------
\* What is left to do after a sync.
Left == ToSet(diffSchema(synced, db.table))

\* What a fresh database of the release would be, rules only compared by name left out.
Fresh(d) == Synced(d, "safe", [table |-> NoTable, rows |-> <<>>]).table

WithoutRules(t) == [t EXCEPT !.constraints = {con \in @ : con.kind # "rule"}]

\* Foreign keys of columns that no longer have one are never dropped, nor are indexes
\* nobody declares.
WithoutLeftovers(t, d) ==
  [t EXCEPT !.constraints = {con \in @ : con.kind = "fk" => con.column \in DOMAIN d.columns /\ d.columns[con.column].references # "none"},
            !.indexes = @ \cap d.indexes]

\* "adding things is automatic, removing or rewriting things is not" (diff.ts:5), from
\* whatever releases, rows and hands left behind: after an automatic sync no value that was
\* saved is lost; tenants are isolated; what is still to do is blocked or was tried and
\* failed; and when that is only dropping columns and indexes, the table takes exactly the
\* rows a fresh database of the release would take, retired columns notwithstanding.
SchemaPlan ==
  synced.known =>
    /\ \A i \in DOMAIN saved, c \in Columns : saved[i][c] # Null => db.rows[i][c] = saved[i][c]
    /\ db.table.exists /\ db.table.rls = RlsParts
    /\ \A change \in Left : applyChange(synced, "safe", db, change) = db
    /\ (\A change \in Left : change.kind \in {"drop_column", "drop_index"}) =>
         LET fresh == WithoutRules(Fresh(synced))
             kept == WithoutRules(WithoutLeftovers(db.table, synced))
         IN \A given \in [DOMAIN synced.columns -> Fields \cup {Null}] :
              LET taken(t) == Accepted(t, Append(db.rows, Stored(t, given)))
              IN taken(fresh) = taken(kept)
===================================================================================

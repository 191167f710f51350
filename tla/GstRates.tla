-------------------------------- MODULE GstRates --------------------------------
(***************************************************************************)
(* GST & Tax (api/routes.master-pricing.ts): the rate of one HSN code and  *)
(* component, versioned by date.  A new version closes the open one the    *)
(* day before it starts; deleting a version of the future opens the one    *)
(* before it again.                                                        *)
(*                                                                         *)
(* Only the open version is locked, so creating takes two steps, and       *)
(* deleting, which waits for whoever holds its row.  A day ends with       *)
(* nobody in the middle of one.                                            *)
(***************************************************************************)
EXTENDS Integers, FiniteSets

CONSTANTS
  Editors,      \* who may change the rates at once
  MaxVersions,  \* bound: versions saved
  LastDate      \* bound: dates 1..LastDate, the first of which is long ago

ASSUME GstAssumption ==
  /\ IsFiniteSet(Editors)
  /\ MaxVersions \in Nat /\ LastDate \in Nat \ 0..1

VARIABLES
  editors,   \* those at work in this behaviour
  gstRate,   \* hsn_gst_rate
  date,      \* today
  charged,   \* the version each past day ended with
  saving     \* what each editor is in the middle of

gstVars == <<editors, gstRate, date, charged, saving>>

Dates == 1..LastDate
Open == 0
GstVersions == 1..MaxVersions
VersionRows == [status : {"none", "live", "deleted"}, from : Dates, to : {Open} \cup Dates]
NoVersion == [status |-> "none", from |-> 1, to |-> Open]

Savings == [pc : {"idle", "closing", "waiting", "insert", "deleting"}, row : {0} \cup GstVersions, from : Dates,
            reopens : SUBSET GstVersions]
NotSaving == [pc |-> "idle", row |-> 0, from |-> 1, reopens |-> {}]

GstTypeOK ==
  /\ gstRate \in [GstVersions -> VersionRows]
  /\ date \in Dates
  /\ charged \in [Dates -> {0} \cup GstVersions]
  /\ saving \in [Editors -> Savings]

\* A code seeded with the shop, or one nobody has entered yet.
GstInit ==
  /\ editors \in SUBSET Editors /\ editors # {}
  /\ gstRate \in {[v \in GstVersions |-> NoVersion],
                  [v \in GstVersions |-> IF v = 1 THEN [NoVersion EXCEPT !.status = "live"] ELSE NoVersion]}
  /\ date = 2
  /\ charged = [d \in Dates |-> 0]
  /\ saving = [e \in Editors |-> NotSaving]

\* The version a line dated d is charged with: the latest to start of those in force.
gstOn(d) ==
  LET inForce == {v \in GstVersions : gstRate[v].status = "live" /\ gstRate[v].from <= d
                                   /\ (gstRate[v].to = Open \/ gstRate[v].to >= d)}
  IN IF inForce = {} THEN 0 ELSE CHOOSE v \in inForce : \A w \in inForce : gstRate[w].from <= gstRate[v].from

Midnight ==
  /\ date < LastDate
  /\ \A e \in Editors : saving[e].pc = "idle"
  /\ date' = date + 1
  /\ charged' = [charged EXCEPT ![date] = gstOn(date)]
  /\ UNCHANGED <<editors, gstRate, saving>>

-------------------------------------------------------------------------------
Saving(e) == e \in editors /\ saving[e].pc = "idle"

OpenRows == {v \in GstVersions : gstRate[v].status = "live" /\ gstRate[v].to = Open}

RowHeld(v, e) ==
  \E other \in Editors \ {e} : \/ saving[other].pc = "closing" /\ saving[other].row = v
                               \/ saving[other].pc = "deleting" /\ v \in saving[other].reopens

\* The start of a version is not looked at.
mayStart_Later(v, from) == from > gstRate[v].from

\* After the open version starts, and not in the past.
mayStart(v, from) == from > gstRate[v].from /\ from >= date

\* The open version is looked up and locked; more than one is an error.
BeginCreateGst(e) ==
  \E from \in Dates :
    /\ Saving(e)
    /\ \/ /\ OpenRows = {}
          /\ saving' = [saving EXCEPT ![e] = [NotSaving EXCEPT !.pc = "insert", !.from = from]]
       \/ \E v \in OpenRows :
            /\ OpenRows = {v}
            /\ RowHeld(v, e) \/ mayStart(v, from)
            /\ saving' = [saving EXCEPT ![e] = [NotSaving EXCEPT !.pc = IF RowHeld(v, e) THEN "waiting" ELSE "closing",
                                                                 !.row = v, !.from = from]]
    /\ UNCHANGED <<editors, gstRate, date, charged>>

\* One that waited goes on with the row when it is still the open one, and without any
\* when it is not.
StopWaiting(e) ==
  LET ask == saving[e] IN
  /\ ask.pc = "waiting"
  /\ ~RowHeld(ask.row, e)
  /\ saving' = [saving EXCEPT ![e] =
       IF ask.row \notin OpenRows THEN [ask EXCEPT !.pc = "insert"]
       ELSE IF mayStart(ask.row, ask.from) THEN [ask EXCEPT !.pc = "closing"] ELSE NotSaving]
  /\ UNCHANGED <<editors, gstRate, date, charged>>

\* The next free row.
Slot == {v \in GstVersions : gstRate[v].status = "none" /\ \A w \in 1..v - 1 : gstRate[w].status # "none"}

\* The open version ends the day before; two that start on one day cannot be.
createGst(e) ==
  LET ask == saving[e]
      taken == \E v \in GstVersions : gstRate[v].status = "live" /\ gstRate[v].from = ask.from
  IN
  /\ ask.pc \in {"closing", "insert"}
  /\ \/ taken /\ UNCHANGED gstRate
     \/ \E new \in Slot :
          /\ ~taken
          /\ gstRate' = [v \in GstVersions |->
               IF v = new THEN [status |-> "live", from |-> ask.from, to |-> Open]
               ELSE IF ask.pc = "closing" /\ v = ask.row THEN [gstRate[v] EXCEPT !.to = ask.from - 1] ELSE gstRate[v]]
  /\ saving' = [saving EXCEPT ![e] = NotSaving]
  /\ UNCHANGED <<editors, date, charged>>

\* A version of the future; the one that ends the day before it is opened again.
BeginDeleteGst(e, v) ==
  LET before == {w \in GstVersions : gstRate[w].status = "live" /\ gstRate[w].to = gstRate[v].from - 1 /\ gstRate[w].to # Open}
  IN
  /\ Saving(e)
  /\ gstRate[v].status = "live" /\ gstRate[v].from > date
  /\ \A w \in before : ~RowHeld(w, e)
  /\ saving' = [saving EXCEPT ![e] = [NotSaving EXCEPT !.pc = "deleting", !.row = v, !.reopens = before]]
  /\ UNCHANGED <<editors, gstRate, date, charged>>

deleteGst(e) ==
  LET ask == saving[e] IN
  /\ ask.pc = "deleting"
  /\ ~RowHeld(ask.row, e)
  /\ gstRate' = [v \in GstVersions |-> IF v = ask.row THEN [gstRate[v] EXCEPT !.status = "deleted"]
                                    ELSE IF v \in ask.reopens THEN [gstRate[v] EXCEPT !.to = Open] ELSE gstRate[v]]
  /\ saving' = [saving EXCEPT ![e] = NotSaving]
  /\ UNCHANGED <<editors, date, charged>>

GstNext ==
  \/ Midnight
  \/ \E e \in Editors :
       \/ BeginCreateGst(e)
       \/ StopWaiting(e)
       \/ createGst(e)
       \/ \E v \in GstVersions : BeginDeleteGst(e, v)
       \/ deleteGst(e)

-------------------------------------------------------------------------------
\* "Nothing here is ever edited once a document has used it" (pricing.schema.ts:2).  From
\* the first version on every day has a rate, whoever edits at once.  With one editor the
\* rate of a day that is past never changes, and two versions are open, after which no
\* more can be added, only when one that started between them was deleted.
GstStands ==
  /\ \A d \in Dates : (\E v \in GstVersions : gstRate[v].status = "live" /\ gstRate[v].from <= d) => gstOn(d) # 0
  /\ Cardinality(editors) = 1 =>
       /\ \A d \in 1..date - 1 : charged[d] # 0 => gstOn(d) = charged[d]
       /\ \A v, w \in OpenRows : gstRate[v].from < gstRate[w].from =>
            \E x \in GstVersions : gstRate[x].status = "deleted" /\ gstRate[x].from \in gstRate[v].from..gstRate[w].from
=================================================================================

---------------------------------- MODULE Lists ----------------------------------
(***************************************************************************)
(* api/crud.ts: paging through a list of master data while rows are added, *)
(* changed and removed.  Customers, items and karigars are listed from a   *)
(* cursor, the last row of the page before; the other lists by how many    *)
(* rows to leave out.                                                      *)
(*                                                                         *)
(* One list with one filter, ordered by a column that may hold one value   *)
(* for several rows (the name), and one screen walking through it.  Each   *)
(* page is a transaction.  A search is a filter.                           *)
(***************************************************************************)
EXTENDS Integers, FiniteSets, SequencesExt

CONSTANTS
  EntryIds,       \* ids of rows, numbered as they compare
  Names,          \* values of the column, numbered as they compare
  PageSizes,
  MaxListed       \* bound: changes while a screen is open

\* A page has a row at least (limit is clamped), and no row is where the first page starts.
ASSUME ListsAssumption ==
  /\ EntryIds \subseteq Nat \ {0} /\ IsFiniteSet(EntryIds) /\ Names \subseteq Nat \ {0} /\ Names # {}
  /\ PageSizes \subseteq Nat \ {0} /\ MaxListed \in Nat

VARIABLES
  entry,     \* the rows
  walk,      \* the screen: how it pages, from where, and what it has been given
  stood,     \* rows on the list since the screen opened, as they were then
  touched,   \* rows changed since
  changes    \* how many changes there were

listVars == <<entry, walk, stood, touched, changes>>

EntryRows == [status : {"none", "live", "deleted"}, name : Names, matches : BOOLEAN]

Cursors == [name : Names, id : EntryIds]
NoCursor == [name |-> 0, id |-> 0]

NothingListed == [e \in EntryIds |-> [status |-> "none", name |-> CHOOSE n \in Names : \A m \in Names : n <= m, matches |-> TRUE]]

ListsTypeOK ==
  /\ entry \in [EntryIds -> EntryRows]
  /\ walk \in [pc : {"closed", "open", "done"}, by : {"cursor", "offset"}, limit : PageSizes \cup {0},
               cursor : Cursors \cup {NoCursor}, offset : Nat, given : Seq(EntryIds)]
  /\ stood \subseteq EntryIds /\ touched \subseteq EntryIds /\ changes \in 0..MaxListed

\* Any list there may be when a screen opens.
ListsInit ==
  /\ entry \in [EntryIds -> {r \in EntryRows : r.status # "deleted" /\ (r.status = "none" => r.matches)}]
  /\ \A e, f \in EntryIds : e < f /\ entry[f].status = "live" => entry[e].status = "live"
  /\ \A e \in EntryIds : entry[e].status = "none" => \A n \in Names : entry[e].name <= n
  /\ walk = [pc |-> "closed", by |-> "cursor", limit |-> 0, cursor |-> NoCursor, offset |-> 0, given |-> <<>>]
  /\ stood = {} /\ touched = {} /\ changes = 0

Listed == {e \in EntryIds : entry[e].status = "live" /\ entry[e].matches}

openList ==
  \E by \in {"cursor", "offset"}, limit \in PageSizes :
    /\ walk.pc = "closed"
    /\ walk' = [walk EXCEPT !.pc = "open", !.by = by, !.limit = limit]
    /\ stood' = Listed
    /\ UNCHANGED <<entry, touched, changes>>

-------------------------------------------------------------------------------
\* Where a page starts.

\* By the column alone.
pastCursor_Column(e, cursor) == entry[e].name > cursor.name

\* By the column, and the id where that is the same.
pastCursor(e, cursor) == entry[e].name > cursor.name \/ (entry[e].name = cursor.name /\ e > cursor.id)

InOrder(e, f) == entry[e].name < entry[f].name \/ (entry[e].name = entry[f].name /\ e < f)

\* The rows of a set in order.
InTurn(S) == CHOOSE seq \in SetToSeqs(S) : \A i, j \in DOMAIN seq : i < j => InOrder(seq[i], seq[j])

Page(seq, from) == SubSeq(seq, from + 1, IF from + walk.limit < Len(seq) THEN from + walk.limit ELSE Len(seq))

\* One row more than a page is read, to know whether there is another.
nextByCursor ==
  LET rest == InTurn({e \in Listed : pastCursor(e, walk.cursor)})
      page == Page(rest, 0)
      last == page[Len(page)]
  IN
  /\ walk.pc = "open" /\ walk.by = "cursor"
  /\ walk' = [walk EXCEPT !.given = @ \o page,
                !.pc = IF Len(rest) > walk.limit THEN "open" ELSE "done",
                !.cursor = IF Len(rest) > walk.limit THEN [name |-> entry[last].name, id |-> last] ELSE @]
  /\ UNCHANGED <<entry, stood, touched, changes>>

\* The rows and their total are taken as one.  Rows of one name come in any order, another
\* one each time; the screen goes on while it has had fewer than the total.
nextByOffset ==
  \E seq \in SetToSeqs(Listed) :
    /\ walk.pc = "open" /\ walk.by = "offset"
    /\ \A i \in 1..Len(seq) - 1 : entry[seq[i]].name <= entry[seq[i + 1]].name
    /\ walk' = [walk EXCEPT !.given = @ \o Page(seq, walk.offset), !.offset = @ + walk.limit,
                  !.pc = IF walk.offset + walk.limit < Len(seq) THEN "open" ELSE "done"]
    /\ UNCHANGED <<entry, stood, touched, changes>>

-------------------------------------------------------------------------------
\* Meanwhile.

Changing(e) ==
  /\ walk.pc = "open" /\ changes < MaxListed
  /\ changes' = changes + 1
  /\ stood' = stood \ {e}
  /\ UNCHANGED walk

addEntry(e) ==
  \E name \in Names :
    /\ entry[e].status = "none" /\ \A f \in EntryIds : f < e => entry[f].status # "none"
    /\ entry' = [entry EXCEPT ![e] = [status |-> "live", name |-> name, matches |-> TRUE]]
    /\ Changing(e)
    /\ UNCHANGED touched

\* Its name, or what the filter looks at.
updateEntry(e) ==
  \E name \in Names, matches \in BOOLEAN :
    /\ entry[e].status = "live"
    /\ entry' = [entry EXCEPT ![e].name = name, ![e].matches = matches]
    /\ Changing(e)
    /\ touched' = touched \cup {e}

\* Customers, items and karigars stay in their tables.
removeEntry(e) ==
  /\ entry[e].status = "live"
  /\ entry' = [entry EXCEPT ![e].status = "deleted"]
  /\ Changing(e)
  /\ UNCHANGED touched

ListsNext ==
  \/ openList
  \/ nextByCursor
  \/ nextByOffset
  \/ \E e \in EntryIds :
       \/ addEntry(e)
       \/ updateEntry(e)
       \/ removeEntry(e)

-------------------------------------------------------------------------------
Given(e) == Cardinality({i \in DOMAIN walk.given : walk.given[i] = e})

\* Whatever happens to other rows while a list is paged through from a cursor
\* (crud.ts:109-133), a row that nobody touches is given exactly once, and one that is
\* removed or added at most once; only a row put elsewhere on the list is given again.  By
\* offset that holds for a list nobody touches, and only when no name is there twice.
ListsWhole ==
  /\ walk.by = "cursor" =>
       /\ \A e \in EntryIds \ touched : Given(e) <= 1
       /\ walk.pc = "done" => \A e \in stood : Given(e) = 1
  /\ /\ walk.by = "offset" /\ walk.pc = "done" /\ changes = 0
     /\ \A e, f \in Listed : entry[e].name = entry[f].name => e = f
     => walk.given = InTurn(Listed)
===============================================================================

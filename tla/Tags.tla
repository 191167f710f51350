---------------------------------- MODULE Tags ----------------------------------
(***************************************************************************)
(* tagging.service.ts and the tag routes of routes.stock.ts: the HUID and  *)
(* the printed tag of each piece.                                          *)
(*                                                                         *)
(* A HUID is looked for without a lock and then saved, at tagging and at a *)
(* change, and the unique index over pieces still around decides: those    *)
(* requests take two steps.  So does posting a count, which writes off     *)
(* what was missing when it looked, sold since or not; a sale undone later *)
(* brings such a piece back.  Weights, lots and prices are left out, and a *)
(* piece on memo is as one in stock.                                       *)
(***************************************************************************)
EXTENDS Integers, FiniteSets, Sequences

CONSTANTS
  Pieces,        \* 1..n, in the order they are tagged
  Huids,
  NoHuid,
  Clerks,
  MaxAssignments, \* bound: HUIDs a piece has had
  MaxLabels      \* bound: tags printed

ASSUME TagsAssumption ==
  /\ IsFiniteSet(Pieces) /\ Pieces = 1..Cardinality(Pieces)
  /\ NoHuid \notin Huids

VARIABLES
  tagged,       \* stock_piece
  assignments,  \* huid_assignment, by piece
  labels,       \* the tags printed of each piece: off the queue, or again
  clerk,        \* the request each clerk has under way
  printer       \* what is at work: every clerk, or the printer and one who tags

tagVars == <<tagged, assignments, labels, clerk, printer>>

PieceTags == [status : {"none", "in_stock", "sold", "written_off"}, huid : Huids \cup {NoHuid}, billed : BOOLEAN, printed : BOOLEAN]
Assignments == [huid : Huids, superseded : BOOLEAN]

Tasks ==
  [pc : {"idle", "tagging", "assigning", "counting"}, huids : Seq(Huids \cup {NoHuid}), piece : Pieces \cup {0},
   missing : SUBSET Pieces]
NoTask == [pc |-> "idle", huids |-> <<>>, piece |-> 0, missing |-> {}]

TagsTypeOK ==
  /\ tagged \in [Pieces -> PieceTags] /\ assignments \in [Pieces -> Seq(Assignments)]
  /\ labels \in [Pieces -> Seq({"queue", "reprint"})] /\ clerk \in [Clerks -> Tasks] /\ printer \in BOOLEAN

TagsInit ==
  /\ tagged = [p \in Pieces |-> [status |-> "none", huid |-> NoHuid, billed |-> FALSE, printed |-> FALSE]]
  /\ assignments = [p \in Pieces |-> <<>>]
  /\ labels = [p \in Pieces |-> <<>>]
  /\ clerk = [c \in Clerks |-> NoTask]
  /\ printer \in BOOLEAN

\* Pieces whose HUID is theirs: one melted or written off has released it.
Standing_InStock == {p \in Pieces : tagged[p].status = "in_stock"}
Standing == {p \in Pieces : tagged[p].status \in {"in_stock", "sold"}}
Taken(huid) == \E p \in Standing : tagged[p].huid = huid

\* Nobody else is changing the piece: of the tasks, only a new HUID holds it between its steps.
Unheld(p) == \A c \in Clerks : clerk[c].pc = "assigning" => clerk[c].piece # p

AtHand(c) == clerk[c].pc = "idle" /\ (printer => \A d \in Clerks \ {c} : clerk[d] = NoTask)
Finished(c) == clerk' = [clerk EXCEPT ![c] = NoTask]

-------------------------------------------------------------------------------
\* Tagging.

\* Rows with a HUID that is taken, or that an earlier row has, are left out: an import saves
\* the others, and the tag form saves all of its rows or none.
Kept(huids, i) == huids[i] # NoHuid => ~Taken(huids[i]) /\ \A j \in 1..i - 1 : huids[j] # huids[i]
Untaken(huids) ==
  LET kept == {i \in DOMAIN huids : Kept(huids, i)}
      nth(n) == CHOOSE i \in kept : Cardinality({j \in kept : j <= i}) = n
  IN
  [n \in 1..Cardinality(kept) |-> huids[nth(n)]]

BeginTagging(c, huids) ==
  /\ AtHand(c)
  /\ Untaken(huids) # <<>>
  /\ clerk' = [clerk EXCEPT ![c].pc = "tagging", ![c].huids = Untaken(huids)]
  /\ UNCHANGED <<tagged, assignments, labels, printer>>

tagPieces(c) ==
  LET huids == clerk[c].huids
      first == Cardinality({p \in Pieces : tagged[p].status # "none"})
      New(p) == p \in first + 1 .. first + Len(huids)
      HuidOf(p) == huids[p - first]
  IN
  /\ clerk[c].pc = "tagging" /\ first + Len(huids) \in Pieces
  /\ \A i \in DOMAIN huids : huids[i] # NoHuid => ~Taken(huids[i])
  /\ tagged' = [p \in Pieces |-> IF New(p) THEN [tagged[p] EXCEPT !.status = "in_stock", !.huid = HuidOf(p)] ELSE tagged[p]]
  /\ assignments' = [p \in Pieces |-> IF New(p) /\ HuidOf(p) # NoHuid THEN <<[huid |-> HuidOf(p), superseded |-> FALSE]>> ELSE assignments[p]]
  /\ Finished(c)
  /\ UNCHANGED <<labels, printer>>

-------------------------------------------------------------------------------
\* A HUID for a piece that has none, or another one.

BeginAssign(c, p, huid) ==
  /\ AtHand(c) /\ ~printer /\ Unheld(p)
  /\ tagged[p].status = "in_stock" /\ tagged[p].huid # huid /\ ~Taken(huid)
  /\ Len(assignments[p]) < MaxAssignments
  /\ clerk' = [clerk EXCEPT ![c].pc = "assigning", ![c].huids = <<huid>>, ![c].piece = p]
  /\ UNCHANGED <<tagged, assignments, labels, printer>>

\* The one it had is kept as superseded.
Superseded(log) == [i \in DOMAIN log |-> [log[i] EXCEPT !.superseded = TRUE]]

assignHuid(c) ==
  LET p == clerk[c].piece
      huid == clerk[c].huids[1]
  IN
  /\ clerk[c].pc = "assigning"
  /\ ~Taken(huid)
  /\ tagged' = [tagged EXCEPT ![p].huid = huid]
  /\ assignments' = [assignments EXCEPT ![p] = Append(Superseded(@), [huid |-> huid, superseded |-> FALSE])]
  /\ Finished(c)
  /\ UNCHANGED <<labels, printer>>

-------------------------------------------------------------------------------
\* Pieces leave, and come back.

sellTagged(p) ==
  /\ Unheld(p) /\ tagged[p].status = "in_stock"
  /\ tagged' = [tagged EXCEPT ![p].status = "sold", ![p].billed = TRUE]
  /\ UNCHANGED <<assignments, labels, clerk, printer>>

\* Cancelled or returned: whatever the piece is now, unless the index refuses its HUID.
bringBack(p) ==
  /\ Unheld(p) /\ tagged[p].billed
  /\ tagged[p].status = "written_off" /\ tagged[p].huid # NoHuid => ~Taken(tagged[p].huid)
  /\ tagged' = [tagged EXCEPT ![p].status = "in_stock", ![p].billed = FALSE]
  /\ UNCHANGED <<assignments, labels, clerk, printer>>

writeOffTagged(p) ==
  /\ Unheld(p) /\ tagged[p].status = "in_stock"
  /\ tagged' = [tagged EXCEPT ![p].status = "written_off"]
  /\ UNCHANGED <<assignments, labels, clerk, printer>>

\* Any of the pieces on the books may not have been scanned.
BeginCountTagged(c, missing) ==
  /\ AtHand(c) /\ ~printer
  /\ missing # {} /\ \A p \in missing : tagged[p].status = "in_stock"
  /\ clerk' = [clerk EXCEPT ![c].pc = "counting", ![c].missing = missing]
  /\ UNCHANGED <<tagged, assignments, labels, printer>>

\* Nothing moves, and nothing is written off, when none of them is still there and no lot is
\* over or short; with a lot that is, all of them are.
postCountTagged(c) ==
  LET missing == clerk[c].missing
  IN
  /\ clerk[c].pc = "counting" /\ \A p \in missing : Unheld(p)
  /\ \/ tagged' = [p \in Pieces |-> IF p \in missing THEN [tagged[p] EXCEPT !.status = "written_off"] ELSE tagged[p]]
     \/ (\A p \in missing : tagged[p].status # "in_stock") /\ UNCHANGED tagged
  /\ Finished(c)
  /\ UNCHANGED <<assignments, labels, printer>>

-------------------------------------------------------------------------------
\* Printed off the queue, pieces are claimed first; one that was claimed refuses them all.
printTags(pieces, reprint) ==
  /\ printer /\ pieces # {} /\ \A p \in pieces : tagged[p].status # "none" /\ Unheld(p)
  /\ reprint \/ \A p \in pieces : ~tagged[p].printed
  /\ Cardinality(pieces) + Cardinality(UNION {{p} \X DOMAIN labels[p] : p \in Pieces}) <= MaxLabels
  /\ tagged' = [p \in Pieces |-> IF p \in pieces THEN [tagged[p] EXCEPT !.printed = TRUE] ELSE tagged[p]]
  /\ labels' = [p \in Pieces |-> IF p \in pieces THEN Append(labels[p], IF reprint THEN "reprint" ELSE "queue") ELSE labels[p]]
  /\ UNCHANGED <<assignments, clerk, printer>>

\* A request that is refused, or fails, leaves nothing.
DropTask(c) ==
  /\ clerk[c] # NoTask
  /\ Finished(c)
  /\ UNCHANGED <<tagged, assignments, labels, printer>>

TagsNext ==
  \/ \E c \in Clerks :
       \/ \E h, k \in Huids \cup {NoHuid} : BeginTagging(c, <<h, k>>) \/ BeginTagging(c, <<h>>)
       \/ tagPieces(c)
       \/ \E p \in Pieces, h \in Huids : BeginAssign(c, p, h)
       \/ assignHuid(c)
       \/ \E missing \in SUBSET Pieces : BeginCountTagged(c, missing)
       \/ postCountTagged(c)
       \/ DropTask(c)
  \/ \E p \in Pieces :
       \/ sellTagged(p)
       \/ bringBack(p)
       \/ writeOffTagged(p)
  \/ \E pieces \in SUBSET Pieces, reprint \in BOOLEAN : printTags(pieces, reprint)

-------------------------------------------------------------------------------
\* What a piece's papers say is what it carries, whoever tags, changes, counts, sells and
\* brings back at once: pieces around have HUIDs of their own (inventory.schema.ts:81, "One
\* HUID per piece in stock"); a piece's HUID is its one assignment that is not superseded,
\* the last; and a tag that went through the queue did so once, before any reprint that was
\* not asked for first (routes.stock.ts:566, "Queue prints can no longer print a tag twice").
TagsTell ==
  /\ \A p, q \in Standing : tagged[p].huid = tagged[q].huid /\ tagged[p].huid # NoHuid => p = q
  /\ \A p \in Pieces :
       LET log == assignments[p]
       IN
       /\ tagged[p].huid = IF log = <<>> THEN NoHuid ELSE log[Len(log)].huid
       /\ \A i \in DOMAIN log : log[i].superseded <=> i < Len(log)
  /\ \A p \in Pieces :
       /\ tagged[p].printed <=> labels[p] # <<>>
       /\ \A i \in DOMAIN labels[p] : labels[p][i] = "queue" => i = 1
===============================================================================

--------------------------------- MODULE Floor ---------------------------------
(***************************************************************************)
(* modules/inventory: transfers between locations, stock counts and        *)
(* manual adjustments, with re-weighing of a piece (modules/tagging) and,  *)
(* for what they do to a piece's place, selling it and undoing the sale    *)
(* (modules/sales, modelled in Sales).                                     *)
(*                                                                         *)
(* Each request is one transaction.  What it reads under the locks it      *)
(* keeps happens at one point.  Two requests decide by something read      *)
(* without a lock and take two steps: starting a count (is one running?)   *)
(* and posting one (which pieces are missing or belong elsewhere?).        *)
(* A count knows pieces by their tag; a tag nobody knows is left out, a    *)
(* transfer's document number and who did what too.                        *)
(***************************************************************************)
EXTENDS Shelf

CONSTANTS
  Sessions,                  \* requests served at once
  MaxTransfers, MaxCounts,   \* bounds: documents raised
  Scales,                    \* what a lot's scale may show
  Reweighs                   \* gross and net weights a piece may be corrected to

VARIABLES
  transfer,   \* stock_transfer with its lines
  count,      \* stock_count with its lines
  asked       \* the count request each session is in the middle of

floorVars == <<transfer, count, asked>>

Transfers == 1..MaxTransfers
Counts    == 1..MaxCounts

TransferRows == [status : {"none", "in_transit", "received", "cancelled"}, from : Places \cup {None},
                 to : Places \cup {None}, pieces : SUBSET Pieces, metal : Measures]

NoTransfer == [status |-> "none", from |-> None, to |-> None, pieces |-> {}, metal |-> Nothing]

CountRows == [status : {"none", "open", "posted", "cancelled"}, place : Places \cup {None},
              line : [Pieces -> {"none", "found", "elsewhere", "unknown"}], weighed : Nat \cup {None}]

NoCount == [status |-> "none", place |-> None, line |-> [p \in Pieces |-> "none"], weighed |-> None]

ASSUME FloorAssumption ==
  /\ Scales \subseteq Nat /\ Reweighs \subseteq [gross : Nat, net : Nat]
  /\ MaxTransfers \in Nat /\ MaxCounts \in Nat
  /\ \A b \in Bounds :
       /\ b.sessions \subseteq Sessions /\ b.at \subseteq Counters
       /\ b.transfers \in 0..MaxTransfers /\ b.counts \in 0..MaxCounts

\* What countResult found: pieces to move here, pieces to write off, and by how much
\* the lot weighed differs from the books.
Questions == [pc : {"idle", "start", "post"}, count : Nat, place : Places \cup {None},
              moveHere : SUBSET Pieces, missing : SUBSET Pieces, diff : Int]

Unasked == [pc |-> "idle", count |-> 0, place |-> None, moveHere |-> {}, missing |-> {}, diff |-> 0]

FloorTypeOK ==
  /\ transfer \in [Transfers -> TransferRows]
  /\ count \in [Counts -> CountRows]
  /\ asked \in [Sessions -> Questions]

FloorInit ==
  /\ transfer = [t \in Transfers |-> NoTransfer]
  /\ count = [c \in Counts |-> NoCount]
  /\ asked = [s \in Sessions |-> Unasked]

Atomic(s) == s \in bound.sessions /\ asked[s].pc = "idle"

\* The session holding a count's own row.
HasCount(c) == \E s \in Sessions : asked[s].pc = "post" /\ asked[s].count = c

Answered(s) == asked' = [asked EXCEPT ![s] = Unasked]

-------------------------------------------------------------------------------
\* Transfers.

\* Within a branch goods land at once, else in the receiving branch's transit location.
landing(from, to) == IF BranchOf[from] = BranchOf[to] THEN to ELSE Transit[BranchOf[to]]

Sent(set, weight, from) ==
  [tagged |-> PiecesAt(WhereItIs(set)),
   metal |-> IF weight = 0 THEN Nothing ELSE lotMovement(from, weight)]

dispatchTransfer(s) ==
  \E from, to \in Counters, set \in SUBSET Pieces, weight \in Scales :
    LET sent == Sent(set, weight, from)
        land == landing(from, to)
        sameBranch == BranchOf[from] = BranchOf[to]
    IN
    /\ Atomic(s)
    /\ from # to /\ (set # {} \/ weight > 0)
    /\ \A p \in set : InStock(p) /\ piece[p].place = from
    /\ \E t \in Unused(transfer, bound.transfers) :
         transfer' = [transfer EXCEPT ![t] =
           [status |-> IF sameBranch THEN "received" ELSE "in_transit",
            from |-> from, to |-> to, pieces |-> set, metal |-> sent.metal]]
    /\ recordMovements(With(PiecesAt(AllAt(set, land)), At("metal", land, sent.metal)),
                       With(sent.tagged, At("metal", from, sent.metal)), FALSE)
    /\ piece' = [p \in Pieces |-> IF p \in set
         THEN [piece[p] EXCEPT !.place = land, !.status = IF sameBranch THEN "in_stock" ELSE "in_transit"]
         ELSE piece[p]]
    /\ UNCHANGED <<bound, count, asked>>

\* A transfer already received lands again.
openTransfer_Any(t) == transfer[t].status # "none"

openTransfer(t) == transfer[t].status = "in_transit"

\* Received at its destination, or cancelled and back where it came from.  "A delivery
\* must always go through": allowed below zero.
land(s, t) ==
  \E status \in {"received", "cancelled"} :
    LET row == transfer[t]
        target == IF status = "received" THEN row.to ELSE row.from
        transit == Transit[BranchOf[row.to]]
    IN
    /\ Atomic(s)
    /\ openTransfer(t)
    /\ recordMovements(With(PiecesAt(AllAt(row.pieces, target)), At("metal", target, row.metal)),
                       With(PiecesAt(AllAt(row.pieces, transit)), At("metal", transit, row.metal)), TRUE)
    /\ piece' = [p \in Pieces |-> IF p \in row.pieces
         THEN [piece[p] EXCEPT !.place = target, !.status = "in_stock"] ELSE piece[p]]
    /\ transfer' = [transfer EXCEPT ![t].status = status]
    /\ UNCHANGED <<bound, count, asked>>

-------------------------------------------------------------------------------
\* Adjustments.

\* Pieces written off, or the lot item's weight out ("shortage") or in ("found"), in
\* one branch.
adjustStock(s) ==
  \E l \in bound.at, set \in SUBSET Pieces, weight \in Scales, found \in BOOLEAN :
    LET lot == IF weight = 0 THEN Nothing ELSE lotMovement(l, weight) IN
    /\ Atomic(s) /\ bound.adjusts
    /\ set # {} \/ weight > 0
    /\ found => set = {} /\ stock[<<"metal", l>>].net + weight <= bound.metalMost
    /\ \A p \in set : InStock(p) /\ BranchOf[piece[p].place] = BranchOf[l]
    /\ recordMovements(At("metal", l, IF found THEN lot ELSE Nothing),
                       With(PiecesAt(WhereItIs(set)), At("metal", l, IF found THEN Nothing ELSE lot)), FALSE)
    /\ piece' = [p \in Pieces |-> IF p \in set THEN [piece[p] EXCEPT !.status = "written_off"] ELSE piece[p]]
    /\ UNCHANGED <<bound, floorVars>>

\* The old weights go out and the new ones come in, at the same cost.
correctPieceWeights(s, p) ==
  \E w \in Reweighs :
    LET old == Weighed(p) IN
    /\ Atomic(s) /\ bound.adjusts
    /\ InStock(p)
    /\ recordMovements(At("tagged", piece[p].place, [old EXCEPT !.gross = w.gross, !.net = w.net]),
                       At("tagged", piece[p].place, old), FALSE)
    /\ piece' = [piece EXCEPT ![p].gross = w.gross, ![p].net = w.net]
    /\ UNCHANGED <<bound, floorVars>>

-------------------------------------------------------------------------------
\* Counts.

\* Is a count running here?  Nothing locks the answer.
BeginStartCount(s) ==
  \E l \in bound.at :
    /\ Atomic(s)
    /\ ~\E c \in Counts : count[c].status = "open" /\ count[c].place = l
    /\ Unused(count, bound.counts) # {}
    /\ asked' = [asked EXCEPT ![s] = [Unasked EXCEPT !.pc = "start", !.place = l]]
    /\ UNCHANGED <<shelfVars, transfer, count>>

startCount(s) ==
  /\ asked[s].pc = "start"
  /\ \E c \in Unused(count, bound.counts) :
       count' = [count EXCEPT ![c].status = "open", ![c].place = asked[s].place]
  /\ Answered(s)
  /\ UNCHANGED <<shelfVars, transfer>>

openCount(c) == count[c].status = "open" /\ ~HasCount(c)

\* A tag that is not in stock taken for a missing piece.
outcome_Missing(c, p) ==
  IF ~InStock(p) THEN "missing" ELSE IF piece[p].place = count[c].place THEN "found" ELSE "elsewhere"

\* What a tag turns out to be as it is scanned; it stays at that.
outcome(c, p) ==
  IF ~InStock(p) THEN "unknown" ELSE IF piece[p].place = count[c].place THEN "found" ELSE "elsewhere"

scanTags(s, c) ==
  \E p \in Pieces :
    /\ Atomic(s)
    /\ openCount(c)
    /\ piece[p].status # "none" /\ count[c].line[p] = "none"
    /\ count' = [count EXCEPT ![c].line[p] = outcome(c, p)]
    /\ UNCHANGED <<shelfVars, transfer, asked>>

\* The scale's reading of the lot, or a reading or a tag taken off again.
weighLot(s, c) ==
  \E weight \in Scales :
    /\ Atomic(s)
    /\ openCount(c)
    /\ count' = [count EXCEPT ![c].weighed = weight]
    /\ UNCHANGED <<shelfVars, transfer, asked>>

removeCountLine(s, c) ==
  /\ Atomic(s)
  /\ openCount(c)
  /\ \/ count' = [count EXCEPT ![c].weighed = None]
     \/ \E p \in Pieces : count' = [count EXCEPT ![c].line[p] = "none"]
  /\ UNCHANGED <<shelfVars, transfer, asked>>

cancelCount(s, c) ==
  /\ Atomic(s)
  /\ openCount(c)
  /\ count' = [count EXCEPT ![c].status = "cancelled"]
  /\ UNCHANGED <<shelfVars, transfer, asked>>

\* countResult: the books put it here and no scan has it.
missingFrom(c) == {p \in Pieces : InStock(p) /\ piece[p].place = count[c].place /\ count[c].line[p] = "none"}

\* Scanned here, on the books at another location of this branch.
elsewhere_None(c) == {}

elsewhere(c) ==
  {p \in Pieces : count[c].line[p] = "elsewhere" /\ BranchOf[piece[p].place] = BranchOf[count[c].place]}

\* The count is locked, and set against the books as they are read now.
BeginPostCount(s, c) ==
  \E writeOffMissing \in BOOLEAN :
    /\ Atomic(s)
    /\ openCount(c)
    /\ asked' = [asked EXCEPT ![s] =
         [Unasked EXCEPT !.pc = "post", !.count = c, !.moveHere = elsewhere(c),
                         !.missing = IF writeOffMissing THEN missingFrom(c) ELSE {},
                         !.diff = IF count[c].weighed = None THEN 0
                                  ELSE count[c].weighed - stock[<<"metal", count[c].place>>].net]]
    /\ UNCHANGED <<shelfVars, transfer, count>>

\* Of those pieces the ones still in stock are locked and moved on the books, from
\* wherever they are now (a missing one from here); but every piece listed gets the new
\* location or is written off.  Nothing at all happens when there is nothing to move.
postCount(s) ==
  LET q == asked[s]
      here == count[q.count].place
      moved == {p \in q.moveHere : InStock(p)}
      lost == {p \in q.missing : InStock(p)}
      lot == IF q.diff = 0 THEN Nothing ELSE lotMovement(here, IF q.diff < 0 THEN -q.diff ELSE q.diff)
  IN
  /\ q.pc = "post"
  /\ IF moved = {} /\ lost = {} /\ q.diff = 0
       THEN UNCHANGED <<piece, stock>>
       ELSE /\ recordMovements(
                 With(PiecesAt(AllAt(moved, here)), At("metal", here, IF q.diff > 0 THEN lot ELSE Nothing)),
                 With(With(PiecesAt(WhereItIs(moved)), PiecesAt(AllAt(lost, here))),
                      At("metal", here, IF q.diff < 0 THEN lot ELSE Nothing)), FALSE)
            /\ piece' = [p \in Pieces |->
                 IF p \in q.moveHere THEN [piece[p] EXCEPT !.place = here]
                 ELSE IF p \in q.missing THEN [piece[p] EXCEPT !.status = "written_off"] ELSE piece[p]]
  /\ count' = [count EXCEPT ![q.count].status = "posted"]
  /\ Answered(s)
  /\ UNCHANGED <<bound, transfer>>

-------------------------------------------------------------------------------
\* The counter, as far as the shelf is concerned.

sellPiece(s, p) ==
  /\ Atomic(s) /\ bound.sells
  /\ InStock(p)
  /\ recordMovements(At("tagged", piece[p].place, Nothing), At("tagged", piece[p].place, Weighed(p)), FALSE)
  /\ piece' = [piece EXCEPT ![p].status = "sold", ![p].soldAt = piece[p].place]
  /\ UNCHANGED <<bound, floorVars>>

\* cancelInvoice reverses the movement where it was made and puts the piece in stock,
\* whatever it is now; the piece's own location is left alone.
undoSale(s, p) ==
  /\ Atomic(s) /\ bound.sells
  /\ piece[p].soldAt # None
  /\ recordMovements(At("tagged", piece[p].soldAt, Weighed(p)), At("tagged", piece[p].soldAt, Nothing), TRUE)
  /\ piece' = [piece EXCEPT ![p].status = "in_stock", ![p].soldAt = None]
  /\ UNCHANGED <<bound, floorVars>>

\* A request that fails leaves nothing.
Abandon(s) ==
  /\ asked[s].pc # "idle"
  /\ Answered(s)
  /\ UNCHANGED <<shelfVars, transfer, count>>
===============================================================================

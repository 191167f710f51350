-------------------------------- MODULE MCOffice --------------------------------
(* What a small shop has of each part of Office: two of everybody who may be at work *)
(* at once, and as many rows as the hazards need.                                    *)
EXTENDS Office, TLC

\* Old gold: one kind of article; one desk that melts and pays, or two that do either.
MCArticles == {[gross |-> 4, stone |-> 1, dirt |-> 0, purity |-> 75, loss |-> 0]}
MCShops == {[desks |-> {"d1"}, melts |-> TRUE, pays |-> TRUE, intakes |-> 2],
            [desks |-> {"d1", "d2"}, melts |-> TRUE, pays |-> FALSE, intakes |-> 1],
            [desks |-> {"d1", "d2"}, melts |-> FALSE, pays |-> TRUE, intakes |-> 2]}
MCGoldRates == 75 :> 1 @@ 50 :> 1

\* Orders: the built-in stages, or repairs with stages of the shop's own.
Stage(k, terminal) == [key |-> k, terminal |-> terminal]
BuiltIn == [t \in OrderTypes |-> <<>>]
MCOverrides ==
  {BuiltIn, [BuiltIn EXCEPT !["repair"] = <<Stage("received", FALSE), Stage("ready", TRUE), Stage("repair", FALSE)>>]}

\* Schema: three releases of a table, and one without it.
Col(t, n, d, ck, r) == [type |-> t, notNull |-> n, default |-> d, check |-> ck, references |-> r]
Table(cols, uq, ix, rule) == [known |-> TRUE, columns |-> cols, unique |-> uq, indexes |-> ix, rule |-> rule]
FirstDesign == Table("a" :> Col(<<1, 0>>, TRUE, 0, {}, "none") @@ "b" :> Col(<<>>, FALSE, 0, {1}, "p"), {}, {}, {})
SecondDesign == Table("a" :> Col(<<3, 1>>, FALSE, 1, {1}, "none") @@ "b" :> Col(<<>>, TRUE, 1, {1, 10}, "q"),
                      {"a"}, {[column |-> "b", unique |-> FALSE]}, {})
ThirdDesign == Table("b" :> Col(<<>>, FALSE, 0, {}, "none"), {}, {[column |-> "b", unique |-> TRUE]}, {})
MCDesigns == {FirstDesign, SecondDesign, ThirdDesign, NoDesign}
MCParents == "p" :> {1, 10} @@ "q" :> {1}

\* Two rows, and after the third release what there is.
MCMaxRows == <<2, 2, 0>>

\* Prices: rules of every basis and scope, rate sheets with gaps, four lines at the
\* counter and a list of orders.
R(b, r) == [NoRule EXCEPT !.basis = b, !.rate = r]
Slabs(s, m) == [NoRule EXCEPT !.basis = "slab", !.slabs = s, !.mode = m, !.minimum = 2]
Slab(f, t, r) == [from |-> f, to |-> t, rate |-> r]
Formula(k, scope, r, p, since, linked) ==
  [appliesTo |-> k, scope |-> scope, rule |-> r, priority |-> p, since |-> since, active |-> TRUE, linked |-> linked]
Everywhere == [l \in {} |-> "none"]
MCFormulas ==
  {Formula("making", Everywhere, R("percent", 15), 9, 1, {}),
   Formula("making", Everywhere, R("percent", 12), 9, 0, {}),
   Formula("making", "item" :> "ring", R("per_gram", 3), 0, 0, {}),
   Formula("making", "category" :> "rings", Slabs(<<Slab(0, 10, 9), Slab(10, 0, 5)>>, "whole"), 0, 0, {}),
   Formula("making", "category" :> "rings" @@ "metal" :> "gold", Slabs(<<Slab(10, 30, 5), Slab(0, 10, 9)>>, "tiered"), 0, 0, {}),
   Formula("making", "purity" :> "22k" @@ "metal" :> "gold" @@ "branch" :> "shop", R("flat", 7), 5, 0, {"rings"}),
   Formula("making", "purity" :> "22k", [R("hybrid", 10) EXCEPT !.flat = 2], 9, 1, {}),
   Formula("making", "metal" :> "gold" @@ "branch" :> "shop", R("flat", 4), 5, 0, {}),
   Formula("making", Everywhere, Slabs(<<Slab(0, 10, 9), Slab(12, 0, 5)>>, "tiered"), 0, 0, {}),
   Formula("wastage", Everywhere, R("percent", 8), 0, 0, {}),
   Formula("hallmark", Everywhere, R("flat", 3), 0, 0, {})}
MCRateSheets == {"pure" :> 0 @@ "22k" :> 7 @@ "18k" :> 0, "pure" :> 9 @@ "22k" :> 0 @@ "18k" :> 5,
                 "pure" :> 0 @@ "22k" :> 0 @@ "18k" :> 0}
MCFineness == "22k" :> 92 @@ "18k" :> 75
Ring == [item |-> "ring", category |-> "rings", purity |-> "22k", metal |-> "gold", branch |-> "shop", qty |-> 1,
         gross |-> 25, stoneWeight |-> 3, tag |-> [making |-> NoRule, wastage |-> NoRule], override |-> NoRule,
         rate |-> 0, metalOn |-> "net", makingOn |-> "net", stoneAmount |-> 5, hallmark |-> 0, hallmarked |-> TRUE,
         discountOn |-> "total", gst |-> <<3, 3, 5, 3, 18>>, interState |-> FALSE]
MCRequests ==
  {Ring,
   [Ring EXCEPT !.item = "chain", !.discountOn = "charges", !.makingOn = "gross", !.gross = 10],
   [Ring EXCEPT !.item = "chain", !.category = "chains", !.purity = "18k", !.metalOn = "fine", !.interState = TRUE],
   [Ring EXCEPT !.tag.making = R("flat", 5), !.rate = 2, !.gross = 17, !.qty = 2, !.metalOn = "gross", !.discountOn = "making",
              !.stoneAmount = -40]}
Costly == [Ring EXCEPT !.rate = 433]
MCBills ==
  {[lines |-> <<Costly, [Costly EXCEPT !.gross = 7, !.item = "chain", !.category = "chains"]>>, rounding |-> "nearest_10"],
   [lines |-> <<[Costly EXCEPT !.tag.making = R("flat", 2)], [Costly EXCEPT !.tag.making = R("flat", 2)],
                [Costly EXCEPT !.tag.making = R("flat", 3), !.interState = TRUE]>>, rounding |-> "nearest_1"]}
Line == [gross |-> 25, stoneWeight |-> 3, rate |-> 377, wastage |-> 8, basis |-> "percent", making |-> 12, qty |-> 1,
         stoneAmount |-> 500, discount |-> 0, gst |-> 3, interState |-> FALSE]
MCOrderBodies ==
  [lines : {<<Line>>, <<Line, [Line EXCEPT !.basis = "flat", !.making = 250, !.interState = TRUE, !.discount = 9999]>>},
   settings : [wastageBasis : {"none", "per_gram", "percent"}, makingOnGross : BOOLEAN,
               lineRounding : {"none", "nearest_1"}, invoiceRounding : {"none", "nearest_10"}]]

\* Staff: one operator may change a user twice; where two do, the race is between two changes.
MCMaxVersion == <<2, 1>>

\* Support: a module that may be left out, with a part of its own, and one that may not.
MCShopModules == "orders" :> {"repair"} @@ "settings" :> {}

\* Schemes: enrolled on the last of January, so that February is run over, or of February.
MCEnrolDates == {[month |-> 1, day |-> 31], [month |-> 2, day |-> 28]}

\* Girvi: one article, worth 6 at today's buying rate.
MCCollaterals == {[gross |-> 4, stone |-> 1, purity |-> 92, rate |-> 2]}
===============================================================================

--------------------------------- MODULE Pricing ---------------------------------
(***************************************************************************)
(* How a line gets its price: masters/pricing (the engine, and the rate,   *)
(* formula and GST it is given) for bills and estimates, and               *)
(* modules/pricing, which orders use.                                      *)
(*                                                                         *)
(* Money is in paise and weight in tenths of a gram, so an amount is a     *)
(* weight times a rate rounded once.  One metal, one branch and one HSN    *)
(* code; purities, items and categories are a few each.  A formula's       *)
(* scope is the levels it names, each with its value.  The sheet of rates  *)
(* and formulas changes between quotes; a quote is one transaction.        *)
(***************************************************************************)
EXTENDS Money, SequencesExt

CONSTANTS
  Formulas,    \* price_rule rows a shop may save
  RateSheets,  \* rates in force, by purity or "pure"; 0 is none
  Requests,    \* lines asked for at the counter
  OrderBodies, \* lists of order lines, with what the document rounds to
  Bills,       \* lists of lines at the counter, with what a bill rounds to
  Discounts,   \* asked for on a bill
  FreePercent, \* of making and wastage, given without a manager
  Fineness,    \* percent, by purity
  TodaysDate,
  MaxFormulas  \* bound

SlabRows == [from : Int, to : Int, rate : Int]
Rules == [basis : {"none", "per_gram", "percent", "flat", "hybrid", "slab"}, rate : Int, flat : Int,
          slabs : Seq(SlabRows), mode : {"whole", "tiered"}, minimum : Int]

\* A line as it may be asked for: weights have no sign, amounts may.  What is not metal, stones
\* and other weight, is one weight: the engine takes both off the gross and uses neither alone.
CounterLine(req) ==
  /\ {req.gross, req.stoneWeight, req.qty} \subseteq Nat /\ {req.stoneAmount, req.hallmark, req.rate} \subseteq Int
  /\ {req.override, req.tag["making"], req.tag["wastage"]} \subseteq Rules
  /\ req.purity \in DOMAIN Fineness /\ req.gst \in [1..5 -> Int]
  /\ req.discountOn \in {"making", "charges", "total"}

OrderedLine(line) ==
  {line.gross, line.stoneWeight, line.rate, line.wastage, line.making, line.qty, line.stoneAmount, line.discount, line.gst} \subseteq Int

ASSUME PricingAssumption ==
  /\ IsFiniteSet(Formulas)
  /\ \A f \in Formulas :
       /\ f.rule \in Rules /\ f.priority \in Int /\ f.since \in Int
       /\ DOMAIN f.scope \subseteq {"item", "category", "purity", "metal", "branch"}
  /\ IsFiniteSet(DOMAIN Fineness) /\ Fineness \in [DOMAIN Fineness -> Nat]
  /\ RateSheets \subseteq [DOMAIN Fineness \cup {"pure"} -> Nat]
  /\ \A req \in Requests : CounterLine(req)
  /\ \A body \in Bills :
       /\ DOMAIN body.lines = 1..Len(body.lines) /\ Len(body.lines) \in Nat /\ \A i \in DOMAIN body.lines : CounterLine(body.lines[i])
       /\ body.rounding \in {"none", "nearest_1", "nearest_10"}
  /\ \A body \in OrderBodies :
       /\ DOMAIN body.lines = 1..Len(body.lines) /\ Len(body.lines) \in Nat /\ \A i \in DOMAIN body.lines : OrderedLine(body.lines[i])
  /\ Discounts \subseteq Nat /\ FreePercent \in Nat

VARIABLES
  formulas,  \* the formulas saved
  rates,     \* the rates in force
  quote      \* the last line, bill or order priced

pricingVars == <<formulas, rates, quote>>

PerGram == 10
NoRule == [basis |-> "none", rate |-> 0, flat |-> 0, slabs |-> <<>>, mode |-> "whole", minimum |-> 0]
NoQuote == [of |-> "none"]

PricingTypeOK ==
  /\ formulas \subseteq Formulas
  /\ rates \in RateSheets
  /\ quote.of \in {"none", "line", "bill", "order", "refused"}

PricingInit == formulas = {} /\ rates \in RateSheets /\ quote = NoQuote

-------------------------------------------------------------------------------
\* Formulas.

Sorted(slabs) ==
  LET order == CHOOSE p \in Bijection(DOMAIN slabs, DOMAIN slabs) :
                 \A i, j \in DOMAIN slabs : i < j => slabs[p[i]].from <= slabs[p[j]].from
  IN [i \in DOMAIN slabs |-> slabs[order[i]]]

\* Slabs meet end to end from nought, and only the last may be open (to = 0).
validateSlabs(slabs) ==
  /\ slabs # <<>>
  /\ Sorted(slabs)[1].from = 0
  /\ \A i \in DOMAIN slabs :
       LET slab == Sorted(slabs)[i] IN
       /\ slab.rate >= 0
       /\ slab.to = 0 => i = Len(slabs)
       /\ slab.to # 0 => slab.to > slab.from
       /\ slab.to # 0 /\ i < Len(slabs) => Sorted(slabs)[i + 1].from = slab.to

checkRule(f) == f.rule.basis = "slab" => validateSlabs(f.rule.slabs)

saveRule ==
  \E f \in Formulas \ formulas :
    /\ Cardinality(formulas) < MaxFormulas
    /\ checkRule(f)
    /\ formulas' = formulas \cup {f}
    /\ quote' = NoQuote
    /\ UNCHANGED rates

removeRule ==
  \E f \in formulas :
    /\ formulas' = formulas \ {f}
    /\ quote' = NoQuote
    /\ UNCHANGED rates

broadcastRate ==
  /\ rates' \in RateSheets \ {rates}
  /\ quote' = NoQuote
  /\ UNCHANGED formulas

-------------------------------------------------------------------------------
\* What a line is priced with.

Levels == <<"item", "category", "purity", "metal", "branch">>
Weight == [item |-> 16, category |-> 8, purity |-> 4, metal |-> 2, branch |-> 1]

\* Every level counts alike.
specificity_Flat(f) == Cardinality(DOMAIN f.scope)

specificity(f) == SumFunctionOnSet(Weight, DOMAIN f.scope)

\* A formula linked to categories belongs to those.
linkedHere(f, req) == req.category \in f.linked

rank(f, req) == IF linkedHere(f, req) THEN AtLeast(specificity(f), 8) ELSE specificity(f)

InForce(f) == f.active /\ f.since <= TodaysDate

Matching(kind, req) ==
  {f \in formulas :
     /\ f.appliesTo = kind /\ InForce(f)
     /\ f.linked # {} => "category" \in DOMAIN f.scope \/ linkedHere(f, req)
     /\ \A level \in DOMAIN f.scope : f.scope[level] = req[level]}

\* Whether a goes before b.
Before(a, b, req) ==
  \/ rank(a, req) > rank(b, req)
  \/ rank(a, req) = rank(b, req) /\ a.priority > b.priority
  \/ rank(a, req) = rank(b, req) /\ a.priority = b.priority /\ a.since > b.since

\* The first, or one of them when nothing tells them apart.
pick(kind, req) == {f \in Matching(kind, req) : \A g \in Matching(kind, req) : ~Before(g, f, req)}

\* Counter override, the tag, then the formulas.
termsFor(kind, req) ==
  IF kind = "making" /\ req.override # NoRule THEN {req.override}
  ELSE IF req.tag[kind] # NoRule THEN {req.tag[kind]}
  ELSE IF pick(kind, req) = {} THEN {NoRule} ELSE {f.rule : f \in pick(kind, req)}

hallmarkTerms(req) ==
  IF req.hallmark = 0 /\ req.hallmarked /\ pick("hallmark", req) # {}
  THEN {f.rule : f \in pick("hallmark", req)} ELSE {NoRule}

\* This purity's rate, else the pure rate at its fineness; on fine weight the pure rate,
\* or the purest purity's brought up to it.
rateFor(req) ==
  LET rated == {p \in DOMAIN Fineness : rates[p] # 0}
      purest == CHOOSE p \in rated : \A q \in rated : Fineness[p] >= Fineness[q]
  IN
  IF req.rate # 0 THEN req.rate
  ELSE IF req.metalOn = "fine"
       THEN IF rates.pure # 0 \/ rated = {} THEN rates.pure ELSE Rounded(rates[purest] * 100, Fineness[purest])
  ELSE IF rates[req.purity] # 0 THEN rates[req.purity] ELSE Percent(rates.pure, Fineness[req.purity])

-------------------------------------------------------------------------------
\* The engine.

Total(amounts) == SumFunction(amounts)

Covered(rule, weight) ==
  LET last == Sorted(rule.slabs)[Len(rule.slabs)]
  IN rule.basis = "slab" => validateSlabs(rule.slabs) /\ (last.to = 0 \/ weight < last.to)

\* The weight of a slab's own part, and the slab a weight is in.
Portion(slab, weight) == AtLeast(0, (IF slab.to = 0 THEN weight ELSE AtMost(weight, slab.to)) - slab.from)
Hit(slabs, weight) == CHOOSE i \in DOMAIN slabs : slabs[i].from <= weight /\ (slabs[i].to = 0 \/ weight < slabs[i].to)

slabAmount(rule, weight) ==
  IF rule.mode = "whole" THEN Rounded(weight * rule.slabs[Hit(rule.slabs, weight)].rate, PerGram)
  ELSE Rounded(Total([i \in DOMAIN rule.slabs |-> Portion(rule.slabs[i], weight) * rule.slabs[i].rate]), PerGram)

ruleAmount(rule, weight, metal, qty) ==
  AtLeast(CASE rule.basis = "none" -> 0
            [] rule.basis = "per_gram" -> Rounded(weight * rule.rate, PerGram)
            [] rule.basis = "percent" -> Percent(metal, rule.rate)
            [] rule.basis = "flat" -> rule.rate * qty
            [] rule.basis = "hybrid" -> rule.flat * qty + Percent(metal, rule.rate)
            [] rule.basis = "slab" -> slabAmount(rule, weight),
          rule.minimum * qty)

Components == <<"metal", "wastage", "making", "stone", "hallmark">>

DiscountTargets == [making |-> {3}, charges |-> {2, 3}, total |-> 1..5]

\* In proportion, each share rounded; what rounding leaves goes to the first of the largest.
allocate(total, parts, targets) ==
  LET whole == Total([i \in targets |-> parts[i]])
      share(i) == IF i \notin targets \/ whole = 0 THEN 0 ELSE Rounded(total * parts[i], whole)
      drift == total - Total([i \in DOMAIN parts |-> share(i)])
      largest == CHOOSE i \in targets : \A j \in targets : parts[j] < parts[i] \/ (parts[j] = parts[i] /\ i <= j)
  IN [i \in DOMAIN parts |-> share(i) + (IF whole # 0 /\ i = largest THEN drift ELSE 0)]

PartsOf(req, making, wastage, hallmark) ==
  LET net == req.gross - req.stoneWeight
      rate == rateFor(req)
      weight == CASE req.metalOn = "fine" -> Percent(net, Fineness[req.purity])
                  [] req.metalOn = "gross" -> req.gross
                  [] OTHER -> net
      metal == Rounded(weight * rate, PerGram)
  IN <<metal,
       IF wastage.basis = "percent" THEN Rounded(Percent(weight, wastage.rate) * rate, PerGram)
       ELSE ruleAmount(wastage, net, metal, req.qty),
       ruleAmount(making, IF req.makingOn = "gross" THEN req.gross ELSE net, metal, req.qty),
       req.stoneAmount,
       IF hallmark = NoRule THEN req.hallmark ELSE ruleAmount(hallmark, net, metal, req.qty)>>

Priced(req, on, parts, discount) ==
  LET shares == IF discount = 0 THEN [i \in DOMAIN parts |-> 0] ELSE allocate(discount, parts, DiscountTargets[on])
      taxable == [i \in DOMAIN parts |-> parts[i] - shares[i]]
      gst == Total([i \in DOMAIN parts |-> IF parts[i] = 0 THEN 0 ELSE Percent(taxable[i], req.gst[i])])
      cgst == IF req.interState THEN 0 ELSE Rounded(gst, 2)
  IN [shares |-> shares, taxable |-> Total(taxable), gst |-> gst, cgst |-> cgst,
      sgst |-> IF req.interState THEN 0 ELSE gst - cgst, igst |-> IF req.interState THEN gst ELSE 0,
      lineTotal |-> Total(taxable) + gst]

Priceable(req, making, wastage, hallmark) ==
  LET net == req.gross - req.stoneWeight IN
  /\ rateFor(req) # 0 /\ net >= 0
  /\ Covered(making, IF req.makingOn = "gross" THEN req.gross ELSE net)
  /\ Covered(wastage, net) /\ Covered(hallmark, net)

\* One line, with one of the discounts the counter may give.
priceLine ==
  \E req \in Requests :
  \E making \in termsFor("making", req), wastage \in termsFor("wastage", req), hallmark \in hallmarkTerms(req) :
    LET parts == PartsOf(req, making, wastage, hallmark)
        available == Total([i \in DiscountTargets[req.discountOn] |-> parts[i]])
    IN
    /\ quote = NoQuote
    /\ IF ~Priceable(req, making, wastage, hallmark) THEN quote' = [of |-> "refused"]
       ELSE \E discount \in {0} \cup 0..available :
              quote' = [of |-> "line", req |-> req, making |-> making, parts |-> parts, discount |-> discount,
                        price |-> Priced(req, req.discountOn, parts, discount)]
    /\ UNCHANGED <<formulas, rates>>

-------------------------------------------------------------------------------
\* Bills: a discount is spread over the lines by their charges, and each line is priced
\* again with its share.

charges(parts) == parts[2] + parts[3]

Step == [none |-> 1, nearest_1 |-> 100, nearest_10 |-> 1000]

\* Above the free part a discount takes the permission to approve one: the counter's own,
\* or that of somebody who signs in for it.
Approved(discount, free, mayApprove) == discount > free => mayApprove

\* A line's formulas, one way of choosing where nothing tells them apart.
TermsOf(req) ==
  [making |-> CHOOSE r \in termsFor("making", req) : TRUE, wastage |-> CHOOSE r \in termsFor("wastage", req) : TRUE,
   hallmark |-> CHOOSE r \in hallmarkTerms(req) : TRUE]

\* priceSale, and what checkout refuses it for.  A share may come out below nothing or
\* above its line's charges, and that line is refused.
priceSale ==
  \E body \in Bills :
  \E terms \in {[i \in DOMAIN body.lines |-> TermsOf(body.lines[i])]} :
  \E parts \in {[i \in DOMAIN terms |-> PartsOf(body.lines[i], terms[i].making, terms[i].wastage, terms[i].hallmark)]} :
  \E charged \in {[i \in DOMAIN parts |-> charges(parts[i])]} :
    /\ quote = NoQuote
    /\ \A i \in DOMAIN terms : Priceable(body.lines[i], terms[i].making, terms[i].wastage, terms[i].hallmark)
    /\ \E discount \in {d \in Discounts : d = 0 \/ d <= Total(charged)} :
       \E shares \in {IF discount = 0 THEN [i \in DOMAIN charged |-> 0] ELSE allocate(discount, charged, DOMAIN charged)} :
       \E lines \in {[i \in DOMAIN parts |-> Priced(body.lines[i], "charges", parts[i], shares[i])]} :
       \E total \in {Total([i \in DOMAIN lines |-> lines[i].lineTotal])}, free \in {Percent(Total(charged), FreePercent)} :
         LET grand == Rounded(total, Step[body.rounding]) * Step[body.rounding]
         IN
         /\ \A i \in DOMAIN shares : shares[i] = 0 \/ shares[i] \in 0..charged[i]
         /\ \E mayApprove \in BOOLEAN :
              /\ Approved(discount, free, mayApprove)
              /\ quote' = [of |-> "bill", parts |-> parts, lines |-> lines, discount |-> discount, free |-> free,
                           managed |-> mayApprove, rounding |-> body.rounding, grand |-> grand, roundOff |-> grand - total]
    /\ UNCHANGED <<formulas, rates>>

-------------------------------------------------------------------------------
\* Orders: GST on the whole line, and the document rounded.

applyRounding(value, mode) ==
  CASE mode = "nearest_1" -> Rounded(value, 100) * 100
    [] mode = "nearest_10" -> Rounded(value, 1000) * 1000
    [] OTHER -> value

orderLine(line, settings) ==
  LET net == line.gross - line.stoneWeight
      metal == Rounded(net * line.rate, PerGram)
      wastage == CASE settings.wastageBasis = "none" -> 0
                   [] settings.wastageBasis = "per_gram" -> Rounded(net * line.wastage * line.rate, PerGram)
                   [] OTHER -> Rounded(Percent(net, line.wastage) * line.rate, PerGram)
      making == CASE line.basis = "percent" -> Percent(metal, line.making)
                  [] line.basis = "flat" -> line.making * line.qty
                  [] OTHER -> Rounded((IF settings.makingOnGross THEN line.gross ELSE net) * line.making, PerGram)
      before == metal + wastage + making + line.stoneAmount
      taxable == applyRounding(before - line.discount, settings.lineRounding)
      tax == Percent(taxable, line.gst)
      cgst == IF line.interState THEN 0 ELSE Rounded(tax, 2)
  IN [metal |-> metal + wastage, making |-> making, taxable |-> taxable, cgst |-> cgst,
      sgst |-> IF line.interState THEN 0 ELSE tax - cgst, igst |-> IF line.interState THEN tax ELSE 0,
      lineTotal |-> taxable + tax]

totalDocument(lines, settings) ==
  LET sum(field) == Total([i \in DOMAIN lines |-> lines[i][field]])
      before == sum("taxable") + sum("cgst") + sum("sgst") + sum("igst")
      total == applyRounding(before, settings.invoiceRounding)
  IN [taxable |-> sum("taxable"), tax |-> before - sum("taxable"), roundOff |-> total - before, total |-> total]

priceOrder ==
  \E body \in OrderBodies :
    LET lines == [i \in DOMAIN body.lines |-> orderLine(body.lines[i], body.settings)] IN
    /\ quote = NoQuote
    /\ quote' = [of |-> "order", lines |-> lines, settings |-> body.settings,
                 totals |-> totalDocument(lines, body.settings)]
    /\ UNCHANGED <<formulas, rates>>

PricingNext ==
  \/ saveRule
  \/ removeRule
  \/ broadcastRate
  \/ priceLine
  \/ priceSale
  \/ priceOrder

-------------------------------------------------------------------------------
\* "Most specific rule wins: item, category, purity, metal, branch, then priority, then the
\* latest" (pricing.service.ts:77), level by level; a linked formula that names no item
\* is as specific as one that names its category only.
LevelsOf(f, req) ==
  IF linkedHere(f, req) /\ {"item", "category"} \cap DOMAIN f.scope = {} THEN {"category"} ELSE DOMAIN f.scope

MoreSpecific(a, b, req) ==
  \E i \in DOMAIN Levels :
    /\ Levels[i] \in LevelsOf(a, req) \ LevelsOf(b, req)
    /\ \A j \in 1..i - 1 : Levels[j] \in LevelsOf(a, req) <=> Levels[j] \in LevelsOf(b, req)

Wins(f, req) ==
  \A g \in Matching("making", req) :
    /\ ~MoreSpecific(g, f, req)
    /\ MoreSpecific(f, g, req) \/ g.priority < f.priority \/ (g.priority = f.priority /\ g.since <= f.since)

RuleWins(q) ==
  q.req.override = NoRule /\ q.req.tag.making = NoRule /\ Matching("making", q.req) # {} =>
    \E f \in Matching("making", q.req) : f.rule = q.making /\ Wins(f, q.req)

\* A tiered formula charges every unit of weight at the rate of the slab it is in, and one
\* by whole weight the lot at the rate of the slab that ends beyond it.
SlabCharged(q) ==
  LET weight == IF q.req.makingOn = "gross" THEN q.req.gross ELSE q.req.gross - q.req.stoneWeight
      rateAt(unit) == {s.rate : s \in {s \in ToSet(q.making.slabs) : s.from <= unit /\ (s.to = 0 \/ unit < s.to)}}
      charged(units) == Total([unit \in units |-> CHOOSE r \in rateAt(unit) : rateAt(unit) = {r}])
  IN q.making.basis = "slab" =>
       q.parts[3] = AtLeast(q.making.minimum * q.req.qty,
                            Rounded(IF q.making.mode = "tiered" THEN charged(0..weight - 1) ELSE weight * charged({weight}), PerGram))

\* "each component is rounded to paise (half-up) once" (engine.ts:5): the shares of a
\* discount are the discount, each within a rounding per component of its proportion;
\* the taxes are the tax, halves alike; and what is charged is what the parts come to.
AddsUp(q) ==
  LET targets == DiscountTargets[q.req.discountOn]
      whole == Total([i \in targets |-> q.parts[i]])
      p == q.price
      off(i) == p.shares[i] * whole - q.discount * q.parts[i]
  IN
  /\ Total(p.shares) = q.discount
  /\ q.discount # 0 =>
       \A i \in targets : 2 * off(i) <= Cardinality(targets) * whole /\ -2 * off(i) <= Cardinality(targets) * whole
  /\ p.taxable = Total(q.parts) - q.discount
  /\ p.lineTotal = p.taxable + p.cgst + p.sgst + p.igst
  /\ p.gst = p.cgst + p.sgst + p.igst
  /\ ~q.req.interState => p.cgst - p.sgst \in -1..1

\* An order's total is its lines', and what rounding it took off or added is on it.
OrderAddsUp(q) ==
  /\ q.totals.total = Total([i \in DOMAIN q.lines |-> q.lines[i].lineTotal]) + q.totals.roundOff
  /\ q.settings.invoiceRounding = "nearest_10" => q.totals.roundOff \in -500..500
  /\ q.settings.invoiceRounding = "none" => q.totals.roundOff = 0

\* "The discount spread over making and wastage" (sales.service.ts:248): through both
\* spreads, over lines and within each, it comes off those two only, whole, never more
\* than they are and each line's within a rounding per line of its proportion; above what
\* is free a manager stands behind it; and the bill's total is its lines' and the round-off.
BillAddsUp(q) ==
  LET lines == DOMAIN q.lines
      whole == Total([i \in lines |-> charges(q.parts[i])])
      share(i) == Total(q.lines[i].shares)
      off(i) == share(i) * whole - q.discount * charges(q.parts[i])
  IN
  /\ Total([i \in lines |-> share(i)]) = q.discount
  /\ \A i \in lines :
       /\ \A c \in {1, 4, 5} : q.lines[i].shares[c] = 0
       /\ (\A c \in {2, 3} : q.parts[i][c] >= 0) => \A c \in {2, 3} : q.lines[i].shares[c] \in 0..q.parts[i][c]
       /\ q.discount # 0 => 2 * off(i) <= Cardinality(lines) * whole /\ -2 * off(i) <= Cardinality(lines) * whole
  /\ q.discount > q.free => q.managed
  /\ q.grand = Total([i \in lines |-> q.lines[i].lineTotal]) + q.roundOff
  /\ 2 * q.roundOff \in -Step[q.rounding]..Step[q.rounding]

\* Whatever formulas, rates and discount a line is priced with, and in whatever order they
\* were saved, the formula that wins, its slabs and the sums are as documented.
PricedRight ==
  /\ quote.of = "line" => RuleWins(quote) /\ SlabCharged(quote) /\ AddsUp(quote)
  /\ quote.of = "bill" => BillAddsUp(quote)
  /\ quote.of = "order" => OrderAddsUp(quote)
==================================================================================

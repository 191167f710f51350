--------------------------------- MODULE Office ---------------------------------
(***************************************************************************)
(* The parts of the shop's system that keep to their own tables: old gold, *)
(* customer orders, sign-ins, caches, staff and roles, the synchronisation *)
(* of the schema, prices, GST rates, branches, number series, support,     *)
(* saving schemes, loans, the lists of master data, and tags.              *)
(*                                                                         *)
(* They neither call nor wait for each other, so nothing is learnt from    *)
(* their interleavings: a behaviour has one of them at work and the others *)
(* as they start.                                                          *)
(***************************************************************************)
EXTENDS OldGold, Orders, Sessions, Caches, Staff, Schema, Pricing, GstRates, Branches, NumberSeries, Support, Schemes, Girvi,
        Lists, Tags

VARIABLE part   \* the one at work

officeVars == <<part, goldVars, ordersVars, sessionVars, cacheVars, staffVars, schemaVars,
                pricingVars, gstVars, branchVars, seriesVars, supportVars, schemeVars, girviVars, listVars, tagVars>>

Parts == {"gold", "orders", "sessions", "caches", "staff", "schema", "pricing", "gst", "branches", "series", "support",
          "schemes", "girvi", "lists", "tags"}

\* What a part may start from is left to chance only where it is at work.
Init ==
  /\ part \in Parts
  /\ GoldInit /\ (part # "gold" => goldShop = CHOOSE s \in Shops : TRUE)
  /\ OrdersInit /\ (part # "orders" => pipeline = CHOOSE p \in Overrides : TRUE)
  /\ SessionsInit /\ (part # "sessions" => browsing = [browsers |-> Browsers, guesses |-> TRUE])
  /\ CachesInit /\ (part # "caches" => kind = "access")
  /\ StaffInit /\ (part # "staff" => operators = Operators)
  /\ SchemaInit
  /\ PricingInit /\ (part # "pricing" => rates = CHOOSE r \in RateSheets : TRUE)
  /\ GstInit /\ (part # "gst" => editors = Editors /\ gstRate[1].status = "none")
  /\ BranchesInit /\ (part # "branches" => managers = Managers)
  /\ SeriesInit /\ (part # "series" => format.years)
  /\ SupportInit
  /\ SchemesInit
  /\ GirviInit
  /\ (part = "lists" \/ entry = NothingListed) /\ ListsInit
  /\ TagsInit /\ (part # "tags" => ~printer)

OnlyOldGold ==
  /\ part = "gold"
  /\ UNCHANGED <<part, ordersVars, sessionVars, cacheVars, staffVars, schemaVars, pricingVars, gstVars, branchVars, seriesVars, supportVars, schemeVars, girviVars, listVars, tagVars>>

OnlyOrders ==
  /\ part = "orders"
  /\ UNCHANGED <<part, goldVars, sessionVars, cacheVars, staffVars, schemaVars, pricingVars, gstVars, branchVars, seriesVars, supportVars, schemeVars, girviVars, listVars, tagVars>>

OnlySessions ==
  /\ part = "sessions"
  /\ UNCHANGED <<part, goldVars, ordersVars, cacheVars, staffVars, schemaVars, pricingVars, gstVars, branchVars, seriesVars, supportVars, schemeVars, girviVars, listVars, tagVars>>

OnlyCaches ==
  /\ part = "caches"
  /\ UNCHANGED <<part, goldVars, ordersVars, sessionVars, staffVars, schemaVars, pricingVars, gstVars, branchVars, seriesVars, supportVars, schemeVars, girviVars, listVars, tagVars>>

OnlyStaff ==
  /\ part = "staff"
  /\ UNCHANGED <<part, goldVars, ordersVars, sessionVars, cacheVars, schemaVars, pricingVars, gstVars, branchVars, seriesVars, supportVars, schemeVars, girviVars, listVars, tagVars>>

OnlySchema ==
  /\ part = "schema"
  /\ UNCHANGED <<part, goldVars, ordersVars, sessionVars, cacheVars, staffVars, pricingVars, gstVars, branchVars, seriesVars, supportVars, schemeVars, girviVars, listVars, tagVars>>

OnlyPricing ==
  /\ part = "pricing"
  /\ UNCHANGED <<part, goldVars, ordersVars, sessionVars, cacheVars, staffVars, schemaVars, gstVars, branchVars, seriesVars, supportVars, schemeVars, girviVars, listVars, tagVars>>

OnlyGstRates ==
  /\ part = "gst"
  /\ UNCHANGED <<part, goldVars, ordersVars, sessionVars, cacheVars, staffVars, schemaVars, pricingVars, branchVars, seriesVars, supportVars, schemeVars, girviVars, listVars, tagVars>>

OnlyBranches ==
  /\ part = "branches"
  /\ UNCHANGED <<part, goldVars, ordersVars, sessionVars, cacheVars, staffVars, schemaVars, pricingVars, gstVars, seriesVars, supportVars, schemeVars, girviVars, listVars, tagVars>>

OnlyNumberSeries ==
  /\ part = "series"
  /\ UNCHANGED <<part, goldVars, ordersVars, sessionVars, cacheVars, staffVars, schemaVars, pricingVars, gstVars, branchVars, supportVars, schemeVars, girviVars, listVars, tagVars>>

OnlySupport ==
  /\ part = "support"
  /\ UNCHANGED <<part, goldVars, ordersVars, sessionVars, cacheVars, staffVars, schemaVars, pricingVars, gstVars, branchVars, seriesVars, schemeVars, girviVars, listVars, tagVars>>

OnlySchemes ==
  /\ part = "schemes"
  /\ UNCHANGED <<part, goldVars, ordersVars, sessionVars, cacheVars, staffVars, schemaVars, pricingVars, gstVars, branchVars, seriesVars, supportVars, girviVars, listVars, tagVars>>

OnlyGirvi ==
  /\ part = "girvi"
  /\ UNCHANGED <<part, goldVars, ordersVars, sessionVars, cacheVars, staffVars, schemaVars, pricingVars, gstVars, branchVars, seriesVars, supportVars, schemeVars, listVars, tagVars>>

OnlyLists ==
  /\ part = "lists"
  /\ UNCHANGED <<part, goldVars, ordersVars, sessionVars, cacheVars, staffVars, schemaVars, pricingVars, gstVars, branchVars, seriesVars, supportVars, schemeVars, girviVars, tagVars>>

OnlyTags ==
  /\ part = "tags"
  /\ UNCHANGED <<part, goldVars, ordersVars, sessionVars, cacheVars, staffVars, schemaVars, pricingVars, gstVars, branchVars, seriesVars, supportVars, schemeVars, girviVars, listVars>>

Next ==
  \/ OnlyOldGold /\ GoldNext
  \/ OnlyOrders /\ OrdersNext
  \/ OnlySessions /\ SessionsNext
  \/ OnlyCaches /\ CachesNext
  \/ OnlyStaff /\ StaffNext
  \/ OnlySchema /\ SchemaNext
  \/ OnlyPricing /\ PricingNext
  \/ OnlyGstRates /\ GstNext
  \/ OnlyBranches /\ BranchesNext
  \/ OnlyNumberSeries /\ SeriesNext
  \/ OnlySupport /\ SupportNext
  \/ OnlySchemes /\ SchemesNext
  \/ OnlyGirvi /\ GirviNext
  \/ OnlyLists /\ ListsNext
  \/ OnlyTags /\ TagsNext

Spec == Init /\ [][Next]_officeVars

-------------------------------------------------------------------------------
\* Types of every table of the part at work, and of what each of its requests holds.
OfficeTypeOK ==
  CASE part = "gold" -> GoldTypeOK
    [] part = "orders" -> OrdersTypeOK
    [] part = "sessions" -> SessionsTypeOK
    [] part = "caches" -> CachesTypeOK
    [] part = "staff" -> StaffTypeOK
    [] part = "schema" -> SchemaTypeOK
    [] part = "pricing" -> PricingTypeOK
    [] part = "gst" -> GstTypeOK
    [] part = "branches" -> BranchesTypeOK
    [] part = "series" -> SeriesTypeOK
    [] part = "support" -> SupportTypeOK
    [] part = "schemes" -> SchemesTypeOK
    [] part = "girvi" -> GirviTypeOK
    [] part = "lists" -> ListsTypeOK
    [] part = "tags" -> TagsTypeOK

\* Money taken from a customer over months is on the customer's account as it was taken:
\* in a saving scheme and on a loan, whoever collects it and in whatever order.
PaymentsTell == SchemesTell /\ LoansTell

\* Who may do what, as long as anybody can be asked: one admin per branch
\* (provisioning.service.ts:279), and a change to a user or a role tells every cache of it.
StaffTells == OneAdmin /\ VersionTells

\* A way in that was closed stays closed: by signing out, or by wrong passwords.
WaysInClosed == SignedOutStays /\ Lockout
===============================================================================

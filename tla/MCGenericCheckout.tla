------------------------- MODULE MCGenericCheckout -------------------------
(* Small links for GenericCheckout. *)
EXTENDS GenericCheckout

Link(product, plan, p, country, only) ==
  [product |-> product, ratePlan |-> plan, price |-> p, country |-> country,
   contributionsOnly |-> only]

Prices == [p \in Products \ {"unknown"} |-> IF p = "SupporterPlus" THEN 3 ELSE 2]

\* Links at the edges of the price; most of them are refused.
EveryLink ==
  {Link("Contribution", "Monthly", p, "GB", FALSE) : p \in {-2, 0, 2, 3, 4}}
    \cup {Link("SupporterPlus", "Annual", p, "GB", FALSE) : p \in {-2, 0, 1, 2}}
    \cup {Link("Contribution", "Annual", 4, "US", TRUE),
          Link("SupporterPlus", "Monthly", NoPrice, "US", FALSE),
          Link("GuardianWeekly", "Quarterly", NoPrice, "DE", FALSE),
          Link("TierThree", "Monthly", NoPrice, "GB", FALSE),
          Link("unknown", "Monthly", NoPrice, "GB", FALSE),
          Link("Contribution", "unknown", NoPrice, "GB", FALSE)}

=============================================================================

---------------------- MODULE MCContributionsCheckout ----------------------
(***************************************************************************)
(* The visits TLC walks through: one per combination of country, kind of   *)
(* contribution and payment methods whose handling differs.                *)
(***************************************************************************)
EXTENDS ContributionsCheckout

Visit(country, types, oneOff, regular, withWallet) ==
  [country |-> country, types |-> types, wallet |-> withWallet,
   switches |-> [ONE_OFF |-> oneOff, MONTHLY |-> regular]]

OneOffCard == Visit("CA", {"ONE_OFF"}, {"Stripe", "PayPal"}, {}, TRUE)
BankGB == Visit("GB", {"MONTHLY"}, {}, {"DirectDebit", "ExistingCard"}, FALSE)
BankDE == Visit("DE", {"MONTHLY"}, {}, {"Sepa", "ExistingCard"}, FALSE)
RegularCard == Visit("CA", {"MONTHLY"}, {}, {"Stripe"}, FALSE)
RegularWallet == Visit("CA", {"MONTHLY"}, {}, {"PayPal"}, TRUE)
Both == Visit("CA", {"ONE_OFF", "MONTHLY"}, {"Stripe"}, {"PayPal"}, FALSE)

EveryVisit == {OneOffCard, BankGB, BankDE, RegularCard, RegularWallet, Both}
CardVisit == {RegularCard}
=============================================================================

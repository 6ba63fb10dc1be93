---------------------------- MODULE MCDeployment -----------------------------
(***************************************************************************)
(* A small deployment: two registrations, vendor texts on both sides of the   *)
(* rules for an id, and command lines of add-vendor that differ in one place.  *)
(***************************************************************************)
EXTENDS Deployment, TLC

\* "acme" is an ordinary id, the others are too long or hold a dot.
MCVendorTexts == {"acme", "long", "dotted"}
MCVendorOrder == <<"acme", "dotted", "long">>
MCShape ==
  ("acme"   :> [len |-> 10, first |-> "lower", rest |-> {"lower", "-"}, dots |-> FALSE]) @@
  ("long"   :> [len |-> 65, first |-> "lower", rest |-> {"digit", "_"}, dots |-> FALSE]) @@
  ("dotted" :> [len |-> 5, first |-> "digit", rest |-> {"digit", "."}, dots |-> TRUE])

TwoVendors == {"acme", "bolt"}
TwoVendorsOrder == <<"acme", "bolt">>
TwoShapes ==
  [v \in TwoVendors |-> [len |-> 4, first |-> "lower", rest |-> {"lower"}, dots |-> FALSE]]

MCTexts == {"acme", "bolt", "long", "dotted", "usd", "USD", "us", "US", "4242", "https:", "http:",
            "yes", ""}
MCUpperCase == [t \in MCTexts |-> CASE t = "usd" -> "USD" [] t = "us" -> "US" [] OTHER -> t]
MCForms == [t \in MCTexts |->
  CASE t = "USD" -> {"AAA"} [] t = "US" -> {"AA"} [] t = "4242" -> {"9999"}
    [] t = "https:" -> {"https"} [] OTHER -> {}]

Line(id, currency, url, rest) ==
  <<"--id", id, "--name", "USD", "--currency", currency, "--country", "us", "--bank-holder", "USD",
    "--bank-last4", "4242", "--payout-url", url>> \o rest

\* An active vendor; one whose --active is not bare; and lines with an id, a
\* currency or an address that will not do, or a value that is missing.
MCLines ==
  {Line("acme", "usd", "https:", <<"--active">>), Line("acme", "USD", "https:", <<"--active", "yes">>),
   Line("long", "USD", "https:", <<"--active">>), Line("dotted", "USD", "https:", <<>>),
   Line("acme", "us", "https:", <<>>), Line("acme", "USD", "http:", <<>>),
   Line("acme", "", "https:", <<>>), Line("acme", "USD", "https:", <<"--name", "--active">>)}

TwoLines == {Line(v, "usd", "https:", <<"--active">>) : v \in TwoVendors}
=============================================================================

----------------------------- MODULE MCCatalogue -----------------------------
(* Catalogue for TLC.                                                       *)
EXTENDS CatalogueClaims

\* One is taken off a price.
OneLess == {-1}

\* The provider raises a price, or gives an item as inactive.
Offered == {[price |-> 1, shown |-> TRUE], [price |-> 2, shown |-> TRUE],
            [price |-> 1, shown |-> FALSE]}

===========================================================================

-------------------------- MODULE CatalogueClaims --------------------------
(* What the comments say of the catalogue that the code does not keep.       *)
EXTENDS Catalogue

\* order.service.js:263 says of the check of the provider's price: "This prevents
\* selling at a loss when a provider raises prices between sync cycles."  So no
\* order passes the check and is charged at a base price below the one that was
\* just checked, unless an administrator chose that price.
CheckPreventsLoss == losses \subseteq {"hand"}

===========================================================================

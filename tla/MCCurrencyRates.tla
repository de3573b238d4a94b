--------------------------- MODULE MCCurrencyRates ---------------------------
(* CurrencyRates for TLC.                                                   *)
EXTENDS CurrencyRates

===========================================================================

--------------------------- MODULE MCNotifications ---------------------------
(* Notifications for TLC.                                                   *)
EXTENDS Notifications

MCGrants == {{"orders.view", "wallet.adjust"}, {"topups.review"}}

===========================================================================

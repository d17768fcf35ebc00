------------------------------- MODULE MCPage -------------------------------
(* A small instance of the page: one tab of each kind of updater.            *)
EXTENDS Page

MCOption == {"1 hour", "15 minutes", "6 hours", "24 hours", "7 days", "30 days"}
MCStored == {"", "7 days", "2 hours"}
=============================================================================

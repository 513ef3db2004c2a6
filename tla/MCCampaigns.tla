------------------------------ MODULE MCCampaigns ------------------------------
(* Campaigns with three users, chunks of two and two passes at a time. *)
EXTENDS Campaigns
=============================================================================

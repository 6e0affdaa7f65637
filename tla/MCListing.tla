------------------------------ MODULE MCListing ------------------------------
(* A small instance of Listing for TLC; its constants are in the cfg. *)
EXTENDS Listing
=============================================================================

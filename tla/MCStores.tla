------------------------------ MODULE MCStores ------------------------------
(* Two clients contend for one lease and write two resources, beside the   *)
(* instance of MCBooks and under its symmetry.                             *)
EXTENDS MCBooks, Stores
=============================================================================

---------------------------- MODULE MCCollections ----------------------------
(* Collections on a small instance: two of the three items share a key. *)
EXTENDS Collections

MCKeyOf(e) == e % 2
===============================================================================

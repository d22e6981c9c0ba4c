---- MODULE MCMosKeyboard ----
(* An instance: the configuration gives the values. *)
EXTENDS MosKeyboard
====

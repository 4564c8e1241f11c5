---------------------------- MODULE MCClientOrder ----------------------------
(* Model-checking instances of ClientOrder. *)
EXTENDS ClientOrder, TLC

PublisherSymmetry == Permutations(Publisher) \cup Permutations(Uri)
==============================================================================

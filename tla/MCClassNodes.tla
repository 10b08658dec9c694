---------------------------- MODULE MCClassNodes ----------------------------
(* Names of one and two words, a Korean name inside another one, and a      *)
(* class that both languages name.                                          *)
EXTENDS ClassNodes

MCDictionary ==
    <<[alias |-> <<"a">>, class |-> "person"],
      [alias |-> <<"a", " ", "b">>, class |-> "bus"],
      [alias |-> <<"k">>, class |-> "person"],
      [alias |-> <<"l", "k">>, class |-> "sheep"]>>
=============================================================================

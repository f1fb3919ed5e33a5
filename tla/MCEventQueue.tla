---------------------------- MODULE MCEventQueue ----------------------------
(* Small instances of EventQueue. *)
EXTENDS EventQueue

CONSTANTS n1, n2, n3, dude, npc, item, null, head, any

\* Nodes are interchangeable; objects are not (the dude is special).
NodeSymmetry == Permutations(Node)

QueueTypes  == <<"DRUG", "KNOCKOUT", "SCRIPT", "POISON", "FLARE">>
LethalTypes == <<"DRUG", "SCRIPT">>
KnockoutTypes == <<"KNOCKOUT">>
=============================================================================

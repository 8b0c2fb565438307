-------------------------- MODULE MC_SysVSemServer --------------------------
(***************************************************************************)
(* SysVSemServer for TLC.  Names are byte sequences: "A" and "aA" stand    *)
(* for the same key.                                                       *)
(***************************************************************************)
EXTENDS SysVSemServer, TLC

MCOneKey == {65}
MCOneKeyNames == {<<65>>, <<97, 65>>}

(* Clients and connection slots are interchangeable.                       *)
Symmetry == Permutations(Clients) \cup Permutations(Conns)
=============================================================================

-------------------------- MODULE MC_ShmLockServer --------------------------
(***************************************************************************)
(* ShmLockServer for TLC: semaphores A and B, segment K, and a name with   *)
(* no capital letter.                                                      *)
(***************************************************************************)
EXTENDS ShmLockServer

MCSemKeys == {65, 66}
MCShmKeys == {75}
MCSemNames == {<<65>>, <<66>>}
MCShmNames == {<<75>>, <<107>>}
MCOneSemKey == {65}
MCOneSemName == {<<65>>}
MCOneShmName == {<<75>>}
=============================================================================

------------------------ MODULE MCMyMemoryAllocator ------------------------
(* Two threads on a memory of 96 bytes with the real header of 20: up to four  *)
(* blocks.  The sizes are aligned to 2 and 10: a freed small block serves no   *)
(* later request, a joined one is cut again at another place.                  *)
EXTENDS MyMemoryAllocator, TLC

CONSTANTS t1, t2
MCThreads == {t1, t2}
Symmetric == Permutations(MCThreads)
=============================================================================

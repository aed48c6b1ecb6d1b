-------------------------- MODULE MCRamCircBuff --------------------------
(* A ring of 17 bytes and records of one to five bytes: 4+5 is coprime with   *)
(* 17, so every cell is reached by both pointers, header and data are cut at   *)
(* every place, and between two and three records fit.                         *)
EXTENDS RamCircBuff

MCPayloads == {<<7>>, <<8, 9>>, <<1, 2, 3>>, <<6, 5, 4, 3, 2>>}
=============================================================================

----------------------------- MODULE MCMemchunks -----------------------------
EXTENDS Memchunks

(* Runs shorter than, as long as and longer than a chunk of two bytes.     *)
MCInput == {<<>>, <<1>>, <<1, 2, 2>>}
=============================================================================

----------------------------- MODULE MCLuaStore -----------------------------
(* Keys "", "ab" and "ba": the last two share a bucket.                    *)
EXTENDS LuaStore

MCKeys == {<< >>, <<97, 98>>, <<98, 97>>}
=============================================================================

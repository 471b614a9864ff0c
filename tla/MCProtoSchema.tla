--------------------------- MODULE MCProtoSchema ---------------------------
EXTENDS ProtoSchema

Decl(k, ty, n, num, d, o) ==
    [kind |-> k, type |-> ty, name |-> n, number |-> num, default |-> d, of |-> o]

(* A message, the same message with its numbers exchanged, an extension of *)
(* it that shares a name with a default, an enum, and a file that fails.   *)
MCFile ==
    { << Decl("type", "M", NoName, 0, NoName, NoName),
         Decl("field", "M", "a", 1, "b", NoName), Decl("field", "M", "b", 2, NoName, "E") >>,
      << Decl("type", "M", NoName, 0, NoName, NoName),
         Decl("field", "M", "a", 2, NoName, NoName), Decl("field", "M", "b", 1, "a", NoName) >>,
      << Decl("extension", "M", "a", 0, "a", NoName) >>,
      << Decl("type", "E", NoName, 0, NoName, NoName), Decl("value", "E", "b", 0, NoName, NoName),
         Decl("value", "E", NoName, 1, NoName, NoName), Decl("value", "E", "a", 1, NoName, NoName) >> }
=============================================================================

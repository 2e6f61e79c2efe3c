----------------------------- MODULE MCSshKeys -----------------------------
(* A user and an operator, one key that both may register, two rows, one   *)
(* step-up token in one process that may restart.                          *)
EXTENDS SshKeys, TLC

MCEntity      == {"ann", "op", "personType", "typeType"}
MCType        == {"person", "type"}
MCTypeEntity  == [person |-> "personType", type |-> "typeType"]
MCExactType   == [ann |-> "person", op |-> "person", personType |-> "type", typeType |-> "type"]
MCSatisfiedBy == [o \in {"assume", "delete", "manage"} |-> {o, "manage"}]
Symm          == Permutations(Requests) \cup Permutations(KeyId)
=============================================================================

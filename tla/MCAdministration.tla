-------------------------- MODULE MCAdministration --------------------------
(* Two persons with an account and one to come, a corporation with an      *)
(* account, nested groups (possibly in a cycle), and their types.          *)
EXTENDS Administration, TLC

MCEntity      == {"root", "ann", "new", "corp", "grp", "top",
                  "personType", "corpType", "groupType", "typeType"}
MCType        == {"person", "corporation", "group", "type"}
MCTypeEntity  == [person |-> "personType", corporation |-> "corpType",
                  group |-> "groupType", type |-> "typeType"]
MCExactType   == [root |-> "person", ann |-> "person", new |-> "person", corp |-> "corporation", grp |-> "group", top |-> "group",
                  personType |-> "type", corpType |-> "type", groupType |-> "type", typeType |-> "type"]
MCSatisfiedBy == [op \in {"create", "read", "list", "update", "assume", "manage"} |->
                    {op, "manage"} \cup IF op = "read" THEN {"list"} ELSE {}]
MCGrants      == [actor: {"ann", "top"}, op: {"list"}, target: {"top", "typeType"}]
                 \cup [actor: {"ann"}, op: {"manage"}, target: {"personType", None}]
MCGiven       == [actor: {"top"}, op: {"list"}, target: {"top"}]
MCNested      == {<<"grp", "top">>, <<"personType", "grp">>, <<"typeType", "grp">>}
MCMembers     == {<<"ann", "grp">>, <<"personType", "grp">>, <<"corp", "top">>, <<"top", "grp">>}
Symm          == Permutations(Requests)
=============================================================================

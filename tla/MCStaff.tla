------------------------------ MODULE MCStaff ------------------------------
(* Small instances of Staff. *)
EXTENDS Staff, TLC

Actions == "users" :> {"create", "update"} @@ "roles" :> {"create", "update", "delete"}
SmallGrants == {{}, {"roles"} \X {"create", "update", "delete"}}
SomeInherited == {{<<"roles", "write">>}}
RolesUpdate == <<"roles", "update">>
Symmetry == Permutations(Requests)
=============================================================================

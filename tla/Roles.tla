------------------------------- MODULE Roles -------------------------------
(***************************************************************************)
(* The role hierarchy and the permission checks of the middleware and of   *)
(* the consumers: pure operators over the columns parent_role,             *)
(* permissions and manager_id.  A permission <<m, a>> is the string "m:a"; *)
(* a column is a function on the rows that exist, and None is NULL or the  *)
(* empty string.  No module's name is a prefix of another's.               *)
(***************************************************************************)
EXTENDS Naturals

CONSTANT None

-----------------------------------------------------------------------------
\* Climbing a column that points at rows of its own table.

\* What is reached from x in i steps of the column up; None when the column is
\* NULL there or the row is missing.
Ancestor(up, x, i) ==
    LET reached[k \in Nat] ==
            IF k = 0 THEN x
            ELSE LET below == reached[k - 1] IN IF below \in DOMAIN up THEN up[below] ELSE None
    IN  reached[i]

\* The rows climbed to from x in at most n steps, without x itself.
AncestorsWithin(up, x, n) == {Ancestor(up, x, i) : i \in 1 .. n} \ {None}

-----------------------------------------------------------------------------
\* Permissions.

\* Permission p is covered by one listed for a role: the same, the wildcard,
\* or the wildcard of its module.
Grants(listed, p) ==
    \/ listed = p
    \/ listed = <<"*", "*">>
    \/ listed[2] = "*" /\ listed[1] = p[1]

\* CheckPermission: the role and the four above it are looked up, as long as
\* their rows exist, and one of them lists a permission that covers p.
CheckPermission(parentRole, permissions, role, p) ==
    \E r \in {role} \cup AncestorsWithin(parentRole, role, 4) :
        r \in DOMAIN permissions /\ \E listed \in permissions[r] : Grants(listed, p)

\* ModuleClearanceMiddleware and its variant for any of several permissions: a
\* token carries one role.
Cleared(parentRole, permissions, role, required) ==
    \E p \in required : CheckPermission(parentRole, permissions, role, p)

-----------------------------------------------------------------------------
\* Hierarchies.

\* IsSubordinate: the same role, or one of the five above the manager's: a
\* role inherits from the roles it commands.
IsSubordinate(parentRole, managerRole, subordinateRole) ==
    \/ managerRole = subordinateRole
    \/ subordinateRole \in AncestorsWithin(parentRole, managerRole, 5)

\* IsSubordinateRecursive: the same user, or the manager is one of the ten
\* above the subordinate.
IsSubordinateRecursive(managerOf, manager, subordinate) ==
    \/ manager = subordinate
    \/ manager \in AncestorsWithin(managerOf, subordinate, 10)

-----------------------------------------------------------------------------
\* The roles every tenant starts with.

DefaultRoles == {"field_technician", "finance_officer", "manager", "tenant_admin"}

DefaultParent ==
    [r \in DefaultRoles |-> CASE r = "manager"      -> "field_technician"
                              [] r = "tenant_admin" -> "manager"
                              [] OTHER              -> None]

DefaultPermissions ==
    [field_technician |-> {<<"inventory", "read">>, <<"tasks", "read">>, <<"timesheets", "submit">>},
     finance_officer  |-> {<<"finance", "read">>, <<"finance", "write">>},
     manager          |-> {<<"finance", "read">>, <<"tasks", "create">>,
                           <<"tasks", "approve">>, <<"timesheets", "approve">>},
     tenant_admin     |-> {<<"inventory", "*">>, <<"finance", "*">>,
                           <<"tasks", "*">>, <<"users", "*">>}]

=============================================================================

------------------------------ MODULE MCLanding ------------------------------
(* An estate for TLC: the platform mounts user and host; host mounts nested *)
(* and holds fresh, which is no repository yet; user builds on nested and   *)
(* fresh on user, nested's tests use user, and host is a .NET module that   *)
(* references user.                                                         *)
EXTENDS Landing, TLC

CONSTANTS root, host, nested, user, fresh

MCDeclared == <<user, host, nested, fresh>>
MCParent == (user :> root) @@ (host :> root) @@ (nested :> host)
                @@ (fresh :> host)
MCBuilds == (user :> {nested}) @@ (host :> {}) @@ (nested :> {})
                @@ (fresh :> {user})
MCNeeds == (user :> {nested}) @@ (host :> {}) @@ (nested :> {user})
                @@ (fresh :> {user})
MCReferences == (user :> {}) @@ (host :> {user}) @@ (nested :> {})
                @@ (fresh :> {})
==============================================================================

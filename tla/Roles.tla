------------------------------- MODULE Roles -------------------------------
(* What the AuthProvider lets the pages offer, by the role of the user.     *)
(* "admin" stands for a server without users, too. The server checks again. *)
EXTENDS Naturals, Sequences, FiniteSets

VARIABLE role

RoleNames == {"admin", "editor", "viewer"}
CanAdmin == role = "admin"
CanWrite == role \in {"admin", "editor"}

RoleInit == role \in RoleNames
=============================================================================

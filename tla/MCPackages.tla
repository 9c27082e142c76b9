----------------------------- MODULE MCPackages -----------------------------
(***************************************************************************)
(* Three packages on two discs; the repository has a newer version of two. *)
(***************************************************************************)
EXTENDS Packages

MCPkg   == {1, 2, 3}
MCDiscs == {{1, 2}, {3}}
MCSame  == {1}
=============================================================================

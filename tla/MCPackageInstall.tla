-------------------------- MODULE MCPackageInstall --------------------------
(* PackageInstall for TLC.  Package 1 depends on 2 and comes first in the      *)
(* catalogue; package 3 is published later.                                    *)
EXTENDS PackageInstall

MCDeps == <<<<2>>, <<>>, <<1>>>>

\* One package that depends on nothing.
MCDepsNone == <<<<>>>>
=============================================================================

---------------------------- MODULE MCInstaller ----------------------------
(* install.sh as an instance of Installer. *)
EXTENDS Installer

RootPieces == <<"binary", "config", "unit">>
RootRollback == <<"config", "unit", "binary">>
=============================================================================

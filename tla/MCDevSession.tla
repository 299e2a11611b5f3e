---------------------------- MODULE MCDevSession ----------------------------
(* Model of DevSession: two files of the entry's package and one of another. *)
EXTENDS DevSession, TLC

CONSTANTS main, util, lib

ModuleFiles == {main, util, lib}
MainPackage == {main, util}
=============================================================================

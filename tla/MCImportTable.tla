---------------------------- MODULE MCImportTable ----------------------------
(* A program that imports two modules. *)
EXTENDS ImportTable

CONSTANTS kernel, user

MCModules == {kernel, user}
MCImports == <<user, kernel>>
=============================================================================

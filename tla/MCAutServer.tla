---------------------------- MODULE MCAutServer ----------------------------
(* Instances of AutServer for TLC. *)
EXTENDS AutServer

CONSTANTS worker, late, LocalAlloc, CreateFileW

MCThreads == {Main, worker, late}
MCCreated == {worker}
MCFunctions == {LocalAlloc, CreateFileW}
=============================================================================

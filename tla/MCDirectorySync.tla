-------------------------- MODULE MCDirectorySync --------------------------
(* An instance of DirectorySync for TLC: a file in the directory itself and *)
(* one in a subdirectory that is made with it.                              *)
EXTENDS DirectorySync

CONSTANTS alice, bob, top, sub
=============================================================================

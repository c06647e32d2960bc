---------------------------- MODULE MCFileSystem ----------------------------
(* The instances of FileSystem that TLC checks.                            *)
EXTENDS FileSystem
==============================================================================

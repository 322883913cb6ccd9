--------------------------- MODULE MCRetentionPurge ---------------------------
(***************************************************************************)
(* A small instance of RetentionPurge for TLC.                             *)
(***************************************************************************)
EXTENDS RetentionPurge

CONSTANTS f1, f2

MCFiles   == {f1, f2}
MCRefused == {f1}
MCImages  == {f2}
=============================================================================

---------------------------- MODULE MCAdminStream ----------------------------
(***************************************************************************)
(* One connection; what it resumes from, and the stream it finds, are free.*)
(***************************************************************************)
EXTENDS AdminStream

CONSTANT c1
=============================================================================

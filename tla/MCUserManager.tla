--------------------------- MODULE MCUserManager ---------------------------
(* UserManager with two user ids and one group id. *)
EXTENDS UserManager
=============================================================================

-------------------------- MODULE MCExternalReplies -------------------------
(***************************************************************************)
(* Model values for the check of ExternalReplies: two replies of one room. *)
(***************************************************************************)
EXTENDS ExternalReplies

OneRoom == <<"a", "a">>
=============================================================================

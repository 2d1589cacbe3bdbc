--------------------------- MODULE MCIpcServices ---------------------------
(***************************************************************************)
(* One service of SERVICE_MAPPING and one name free to register, two       *)
(* slots to put objects in, so that a deleted object's slot is used again. *)
(***************************************************************************)
EXTENDS IpcServices, TLC

CONSTANTS s1, s2, bsd, user

MCMapping == bsd :> s1
=============================================================================

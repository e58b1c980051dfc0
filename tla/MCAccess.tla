------------------------------ MODULE MCAccess ------------------------------
(* Access segregator on two users: grant_access can be delegated, a second *)
(* registered extrinsic can change hands, and one pair is not registered.  *)
EXTENDS AccessAudit

MC_Extrinsics ==
    {GRANT_ACCESS, <<"SygmaBridge", "pause_bridge">>, <<"SygmaBridge", "unknown">>}

MC_Registered == MC_Extrinsics \ {<<"SygmaBridge", "unknown">>}

=============================================================================

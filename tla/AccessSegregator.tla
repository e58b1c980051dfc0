-------------------------- MODULE AccessSegregator --------------------------
(***************************************************************************)
(* Pallet access-segregator: one account at most may call each privileged  *)
(* extrinsic, the bridge committee may call them all.  An extrinsic is     *)
(* named by the pair <<pallet, name>>.                                     *)
(***************************************************************************)
EXTENDS SygmaTraits

CONSTANTS
    Users,                \* accounts that sign extrinsics
    Committee,            \* the origin that BridgeCommitteeOrigin accepts
    Unsigned,             \* any other origin (ensure_signed fails)
    Extrinsics,           \* every <<pallet, name>> a caller may write
    RegisteredExtrinsics, \* Config::Extrinsics
    Grantable             \* bound: the pairs grant_access is called with

GRANT_ACCESS == <<"AccessSegregator", "grant_access">>

ASSUME AccessAssumption ==
    /\ GRANT_ACCESS \in Extrinsics
    /\ RegisteredExtrinsics \subseteq Extrinsics
    /\ Grantable \subseteq Extrinsics
    /\ None \notin Users /\ Committee \notin Users /\ Unsigned \notin Users
    /\ Committee # Unsigned

VARIABLE ExtrinsicAccess   \* the account stored for each pair, or None

Origins == Users \cup {Committee, Unsigned}

AccessTypeOK == ExtrinsicAccess \in [Extrinsics -> Users \cup {None}]

AccessInit == ExtrinsicAccess = [e \in Extrinsics |-> None]

has_registered(e) == e \in RegisteredExtrinsics

\* Mutant: the stored account is not compared with the caller.
has_access_any_holder(e, origin) ==
    \/ origin = Committee
    \/ origin \in Users /\ has_registered(e) /\ ExtrinsicAccess[e] # None

has_access(e, origin) ==
    \/ origin = Committee
    \/ /\ origin \in Users
       /\ has_registered(e)
       /\ ExtrinsicAccess[e] = origin

\* Mutant: an existing holder is not replaced.
granted_keep(e, who) ==
    IF ExtrinsicAccess[e] = None THEN [ExtrinsicAccess EXCEPT ![e] = who]
                                 ELSE ExtrinsicAccess

granted(e, who) == [ExtrinsicAccess EXCEPT ![e] = who]

grant_access(origin, e, who) ==
    /\ has_access(GRANT_ACCESS, origin)
    /\ ExtrinsicAccess' = granted(e, who)

AccessNext ==
    \E origin \in Origins, e \in Grantable, who \in Users :
        grant_access(origin, e, who)

=============================================================================

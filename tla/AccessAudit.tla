---------------------------- MODULE AccessAudit ----------------------------
(***************************************************************************)
(* The access segregator with the history of the grants it accepted.  The  *)
(* pallet's AccessGranted event names the pair and the new holder; `by` is *)
(* the origin of the call.                                                 *)
(***************************************************************************)
EXTENDS AccessSegregator, Sequences

CONSTANT MaxGrants   \* bound: length of the history

VARIABLE log         \* sequence of [by, extrinsic, who]

AuditVars == <<ExtrinsicAccess, log>>

AuditInit == AccessInit /\ log = <<>>

AuditNext ==
    /\ Len(log) < MaxGrants
    /\ \E origin \in Origins, e \in Grantable, who \in Users :
          /\ grant_access(origin, e, who)
          /\ log' = Append(log, [by |-> origin, extrinsic |-> e, who |-> who])

AuditSpec == AuditInit /\ [][AuditNext]_AuditVars

----------------------------------------------------------------------------
\* The positions of the grants of e among the first n entries of the history.
GrantsOf(e, n) == {i \in 1 .. n : log[i].extrinsic = e}

\* Who holds e after the first n grants, reading the history alone.
HolderAfter(e, n) ==
    IF GrantsOf(e, n) = {} THEN None
    ELSE log[CHOOSE i \in GrantsOf(e, n) : \A j \in GrantsOf(e, n) : j <= i].who

\* No escalation: every grant was made by the committee, or by the account
\* that, reading the earlier history alone, held grant_access when it called.
\* It takes a chain of delegations and a replaced holder to violate it
\* (grant_access: the caller must pass has_access on grant_access itself).
DelegationChain ==
    \A i \in 1 .. Len(log) :
        \/ log[i].by = Committee
        \/ /\ GRANT_ACCESS \in RegisteredExtrinsics
           /\ log[i].by = HolderAfter(GRANT_ACCESS, i - 1)

\* A new grant revokes the previous one and an unregistered pair opens
\* nothing: an account other than the committee has access to exactly the
\* registered extrinsics whose latest grant names it (has_access).
LatestGrantDecides ==
    \A e \in Extrinsics, u \in Users :
        has_access(e, u) <=>
            e \in RegisteredExtrinsics /\ HolderAfter(e, Len(log)) = u

============================================================================

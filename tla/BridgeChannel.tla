--------------------------- MODULE BridgeChannel ---------------------------
(***************************************************************************)
(* What relayers and users may rely on, without the pallet's storage       *)
(* layout, batches, fees or assets: a channel with one lane per domain.    *)
(* Messages out of a lane are numbered 0, 1, 2, ... without a gap, each    *)
(* message into a lane is delivered at most once, lanes carry messages     *)
(* only while they are open, and nothing moves before the channel is ready.*)
(* An administrator may open and close lanes, and make the channel ready   *)
(* once and for all.                                                       *)
(***************************************************************************)
EXTENDS Naturals

CONSTANTS Lanes, Numbers

VARIABLES
    ready,   \* deliveries can be authenticated
    open,    \* the lanes that carry messages
    sent,    \* how many messages went out of each lane
    done     \* the messages delivered, <<lane, number>>

channelVars == <<ready, open, sent, done>>

ChannelInit ==
    /\ ready = FALSE
    /\ open = {}
    /\ sent = [l \in Lanes |-> 0]
    /\ done = {}

Send(l) ==
    /\ ready /\ l \in open
    /\ sent' = [sent EXCEPT ![l] = @ + 1]
    /\ UNCHANGED <<ready, open, done>>

Deliver(l, n) ==
    /\ ready /\ l \in open
    /\ <<l, n>> \notin done
    /\ done' = done \cup {<<l, n>>}
    /\ UNCHANGED <<ready, open, sent>>

Administer ==
    /\ open' \in SUBSET Lanes
    /\ ready' \in {ready, TRUE}
    /\ UNCHANGED <<sent, done>>

ChannelNext ==
    \/ Administer
    \/ \E l \in Lanes : Send(l) \/ \E n \in Numbers : Deliver(l, n)

ChannelSpec == ChannelInit /\ [][ChannelNext]_channelVars

============================================================================

----------------------------- MODULE ChannelView -----------------------------
(***************************************************************************)
(* What belle_sip_channel_t promises to the transactions that use it: the  *)
(* channel as NonInviteTransaction and InviteTransaction see it.  Name     *)
(* resolution and the attempts on the addresses it returned are one        *)
(* CONNECTING state, ERROR is a failure the listeners do not know yet, and *)
(* CLOSED is final.                                                        *)
(***************************************************************************)
VARIABLE view

ViewStates == {"NONE", "CONNECTING", "READY", "ERROR", "CLOSED"}

ViewInit == view = "NONE"

Start == view = "NONE" /\ view' = "CONNECTING"

BecomeReady == view = "CONNECTING" /\ view' = "READY"

\* A soft error sends a working channel to its next address.
Retry == view = "READY" /\ view' = "CONNECTING"

Fail == view \in {"CONNECTING", "READY"} /\ view' = "ERROR"

\* The listeners are told of a failure, or the channel is closed at once.
Close == view # "CLOSED" /\ view' = "CLOSED"

ViewNext == Start \/ BecomeReady \/ Retry \/ Fail \/ Close

ViewSpec == ViewInit /\ [][ViewNext]_view
=============================================================================

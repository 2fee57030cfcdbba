--------------------------- MODULE SubscriptionTable ---------------------------
(***************************************************************************)
(* The two sides of a subscription, as MessageDirector in                  *)
(* otp/messagedirector.py keeps them: each participant has a set of        *)
(* channels, and channel_subscriptions maps a channel to the participants  *)
(* that hear it.  The operators return the new value of channel_           *)
(* subscriptions, a function from channels to sets of participants, or of  *)
(* a participant's channels.  A channel that is no key of the dictionary   *)
(* and one that maps to the empty set are the same here; the difference    *)
(* is visible only in DownstreamMessageDirector (module ChannelRelay).     *)
(***************************************************************************)

\* subscribe_channel and unsubscribe_channel on channel_subscriptions.
Subscribed(subs, p, c)   == [subs EXCEPT ![c] = @ \union {p}]
Unsubscribed(subs, p, c) == [subs EXCEPT ![c] = @ \ {p}]

\* unsubscribe_all: it walks the participant's own channels, so an entry of
\* the dictionary for any other channel survives it.
UnsubscribedAll(subs, p, channels) ==
    [c \in DOMAIN subs |-> IF c \in channels THEN subs[c] \ {p} ELSE subs[c]]

\* The receiving_participants of a datagram addressed to the channels `to`.
Receivers(subs, to) == UNION {subs[c] : c \in to}

=============================================================================

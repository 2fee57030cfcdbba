--------------------------- MODULE ChannelAllocator ---------------------------
(***************************************************************************)
(* ChannelAllocator of otp/networking.py: how a client agent gives every   *)
(* connecting client a channel of its own.  new_channel_id calls itself    *)
(* until it meets a channel that is not in use; each of those calls is one *)
(* Probe step here, and the allocator is "busy" from the caller's call to  *)
(* the return, or the OverflowError, of the innermost one.                 *)
(*                                                                         *)
(* A client agent has one, beside the sessions of module Activation: the   *)
(* parts of the specification have names of their own.                     *)
(***************************************************************************)
EXTENDS Integers, Sequences, FiniteSets

CONSTANTS min_channel,   \* first channel of the configured range
          max_channel,   \* last channel of the configured range
          MaxGrants      \* bound: channels handed out in a behaviour

ASSUME AllocatorAssumption ==
    /\ min_channel \in Nat
    /\ max_channel \in Nat
    /\ min_channel <= max_channel
    /\ MaxGrants \in Nat

VARIABLES used_channels,   \* _used_channels
          freed_channels,  \* _freed_channels
          next_channel,    \* _next_channel
          mode,            \* "idle", "busy" or "overflow" (OverflowError raised)
          granted          \* history: the channels returned, in order

allocatorVars == <<used_channels, freed_channels, next_channel, mode, granted>>

-----------------------------------------------------------------------------

AllocatorInit ==
    /\ used_channels = {}
    /\ freed_channels = {}
    /\ next_channel = min_channel
    /\ mode = "idle"
    /\ granted = <<>>

\* A caller, such as the constructor of ClientProtocol, asks for a channel.
NewChannelId ==
    /\ mode = "idle"
    /\ Len(granted) < MaxGrants
    /\ mode' = "busy"
    /\ UNCHANGED <<used_channels, freed_channels, next_channel, granted>>

Exhausted == Cardinality(used_channels) >= max_channel - min_channel

\* One activation of new_channel_id: take the channel under the cursor, or,
\* when it is in use, go on with the next one, wrap around past max_channel,
\* or give up when nothing is left.
Probe ==
    /\ mode = "busy"
    /\ IF next_channel \notin used_channels
         THEN /\ used_channels' = used_channels \union {next_channel}
              /\ granted' = Append(granted, next_channel)
              /\ next_channel' = next_channel + 1
              /\ mode' = "idle"
         ELSE /\ UNCHANGED <<used_channels, granted>>
              /\ IF next_channel + 1 <= max_channel
                   THEN next_channel' = next_channel + 1 /\ mode' = "busy"
                   ELSE IF Exhausted
                   THEN next_channel' = next_channel + 1 /\ mode' = "overflow"
                   ELSE next_channel' = min_channel /\ mode' = "busy"
    /\ UNCHANGED freed_channels

\* Mutant: a freed channel is the next one handed out.
FreeForReuse(channel) ==
    /\ mode = "idle"
    /\ used_channels' = used_channels \ {channel}
    /\ freed_channels' = freed_channels \union {channel}
    /\ next_channel' = channel
    /\ UNCHANGED <<mode, granted>>

\* A channel is given back (no caller in the repository does so today).
FreeChannelId(channel) ==
    /\ mode = "idle"
    /\ freed_channels' = freed_channels \union {channel}
    /\ UNCHANGED <<used_channels, next_channel, mode, granted>>

AllocatorNext ==
    \/ NewChannelId
    \/ Probe
    \/ \E channel \in used_channels : FreeChannelId(channel)

AllocatorSpec == AllocatorInit /\ [][AllocatorNext]_allocatorVars

-----------------------------------------------------------------------------
(* Properties *)

AllocatorTypeOK ==
    /\ used_channels \subseteq Nat
    /\ freed_channels \subseteq used_channels
    /\ next_channel \in Nat
    /\ mode \in {"idle", "busy", "overflow"}
    /\ granted \in Seq(Nat)

\* A channel is handed out once, whether or not it was freed in between: a
\* message still on its way to a client that left can not reach another one
\* (new_channel_id and free_channel_id, which leaves _used_channels alone).
NeverReissued ==
    \A i, j \in 1..Len(granted) : granted[i] = granted[j] => i = j

\* Asking for a channel never fails: the search of new_channel_id ends at its
\* first probe, and the OverflowError branch is not taken.
NeverOverflows == mode # "overflow"

\* The channels handed out are consecutive numbers, also past max_channel: the
\* configured range ends nothing (new_channel_id).
GrantsConsecutive == \A i \in 1..Len(granted) : granted[i] = min_channel + i - 1

\* Why: the cursor only moves up, past every channel in use, so the branch of
\* Probe for a channel in use, the wrap-around included, is never taken.
CursorAhead ==
    /\ AllocatorTypeOK
    /\ NeverOverflows
    /\ GrantsConsecutive /\ next_channel = min_channel + Len(granted)
    /\ \A channel \in used_channels : channel < next_channel
    /\ \A i \in 1..Len(granted) : granted[i] \in used_channels
    /\ NeverReissued

=============================================================================

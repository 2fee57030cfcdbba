-------------------------- MODULE MCChannelAllocator --------------------------
(* A range of three channels and twice as many grants, so that the cursor    *)
(* runs far past max_channel.                                                *)
EXTENDS ChannelAllocator

MCMinChannel == 5
MCMaxChannel == 7
MCMaxGrants == 6
=============================================================================

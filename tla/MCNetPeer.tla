----------------------------- MODULE MCNetPeer -----------------------------
(* Three instances.  MCNetPeer: frames 7 and 1 are key frames, 0 and 2 are *)
(* not, the ids wrap at 8, and a queue has two slots.  MCNetPeerWait: ids  *)
(* of audio with a gap.  MCNetPeerTimer: two peers with one slot a queue.  *)
(* Resetting a peer and waiting for a frame take equally long, as in the   *)
(* code.                                                                   *)
EXTENDS NetPeer
=============================================================================

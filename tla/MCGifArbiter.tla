---------------------------- MODULE MCGifArbiter ----------------------------
(***************************************************************************)
(* Instances of GifArbiter: a packet of one word with or without an image,  *)
(* an image tag whose payload comes later, the end of one packet with the   *)
(* beginning of the next, and a tag that does not end its packet.           *)
(***************************************************************************)
EXTENDS GifArbiter

Word(size, eop, image) == [size |-> size, eop |-> eop, image |-> image]

MCChunks ==
    {<<Word(1, TRUE, FALSE)>>, <<Word(1, TRUE, TRUE)>>,
     <<Word(2, TRUE, TRUE)>>, <<Word(1, TRUE, FALSE), Word(1, FALSE, FALSE)>>}

MCPackets == {<<Word(1, TRUE, FALSE)>>}
=============================================================================

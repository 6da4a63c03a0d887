---------------------------- MODULE MCFrameCodec ----------------------------
(* Frames for FrameCodec, with a buffer of two bytes: an empty one, one    *)
(* that just fits, and one that is a byte too long.                        *)
EXTENDS FrameCodec

CONSTANTS byte1, byte2

MCFrame == {<<>>, <<byte1, byte2>>, <<byte2, byte1, byte1>>}
=============================================================================

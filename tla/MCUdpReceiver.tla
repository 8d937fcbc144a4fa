---------------------------- MODULE MCUdpReceiver ----------------------------
(* The two examples, which use the same port, and frames at the borders of   *)
(* extract_message_size and of the loop's condition.                         *)
EXTENDS UdpReceiver

CONSTANTS hello_world_udp, address_book_udp

MCMods == {hello_world_udp, address_book_udp}
MCLoopMods == {hello_world_udp}

Frame(len, bar) == [len |-> len, msg |-> bar]

\* 124 bytes after the prefix fill the buffer.
MCFrames ==
  {Frame(2, 5), Frame(124, 6), Frame(0, 0), Frame(BUFFER_SIZE, 5),
   Frame(INT_MAX + 1, 5)}

=============================================================================

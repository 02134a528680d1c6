------------------------------- MODULE Frames -------------------------------
(* What the Ethernet driver, its controller and the interface call a frame.  *)
CONSTANTS
  Frame,
  Bad,          \* the frames whose receive status says they are damaged
  NoFrame
=============================================================================

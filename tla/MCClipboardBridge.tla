------------------------- MODULE MCClipboardBridge -------------------------
(* Instances of ClipboardBridge for TLC. *)
EXTENDS ClipboardBridge
=============================================================================

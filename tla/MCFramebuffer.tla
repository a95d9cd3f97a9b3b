--------------------------- MODULE MCFramebuffer ---------------------------
(* Three rows of up to three glyphs. *)
EXTENDS Framebuffer
=============================================================================

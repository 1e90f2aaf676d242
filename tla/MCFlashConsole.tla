--------------------------- MODULE MCFlashConsole ---------------------------
(* Lines of up to four bytes, in commands of two, over pages of three. *)
EXTENDS FlashConsole
=============================================================================

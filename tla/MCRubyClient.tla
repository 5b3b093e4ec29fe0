---------------------------- MODULE MCRubyClient ----------------------------
(* RubyClient on a small instance, for TLC. *)
EXTENDS RubyClient

DatabaseIndices == {0, 15}
=============================================================================

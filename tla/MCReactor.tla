------------------------------ MODULE MCReactor ------------------------------
(* Small instances of Reactor.                                             *)
EXTENDS Reactor

MCBothMask == {{"read", "write"}}
=============================================================================

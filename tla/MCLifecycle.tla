----------------------------- MODULE MCLifecycle ------------------------------
(***************************************************************************)
(* Two static backends, and a catalogue that has both or one of them.      *)
(***************************************************************************)
EXTENDS Lifecycle

CONSTANTS b1, b2

MCStatic     == <<b1, b2>>
MCCatalogues == {<<b1, b2>>, <<b2>>}

=============================================================================

--------------------------- MODULE MCLayerControl ---------------------------
(***************************************************************************)
(* A small instance of LayerControl: two requests of the page, which may   *)
(* overtake each other, and a control panel; one unit.                     *)
(***************************************************************************)
EXTENDS LayerControl

MCUnits == <<"input">>
MCHooks == <<"bash", "fish">>
MCInstalled == <<"bash">>
=============================================================================

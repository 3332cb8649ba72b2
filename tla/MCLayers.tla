------------------------------- MODULE MCLayers -------------------------------
(* Four epochs: a request at work, one that supersedes it, one made by a       *)
(* listener while the second settles, and a destruction or a last request      *)
(* after them; one caller who withdraws.                                       *)
EXTENDS LayerProps

================================================================================

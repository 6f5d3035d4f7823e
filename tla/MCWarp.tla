------------------------------- MODULE MCWarp -------------------------------
(* Two endpoints, so that rotating has somewhere to go.                    *)
EXTENDS Warp

MCEndpoints == <<1, 2>>
==============================================================================

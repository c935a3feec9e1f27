------------------------- MODULE MCWorkbenchTimeline -------------------------
(* Instances of the Workbench timeline for TLC.                            *)
EXTENDS WorkbenchTimeline
CONSTANTS a1, a2
=============================================================================

--------------------------- MODULE MCSetupWizard ---------------------------
(* Two microphones, and one of everything else; every device may be missing *)
(* when its screen opens, and may be unselected.                            *)
EXTENDS SetupWizard

MCChoice == <<{"speaker"}, {"mic", "headset"}, {"webcam"}, {"models"}>>
=============================================================================

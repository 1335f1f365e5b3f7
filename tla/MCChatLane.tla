------------------------------ MODULE MCChatLane ------------------------------
\* Instances of ChatLane for TLC: workspaces as model values.
EXTENDS ChatLane

CONSTANTS w1, w2
=============================================================================

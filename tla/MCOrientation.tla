--------------------------- MODULE MCOrientation ---------------------------
EXTENDS Orientation, TLC

CONSTANT k1

\* Either two handlers race each other and the loop, outside of time, or one of
\* them, tasks, a message and a restart meet the idle reviews.
Upto(edits, tasks, chats, crashes, time) ==
  [edits |-> edits, tasks |-> tasks, chats |-> chats, crashes |-> crashes, time |-> time]
MCBounds == {Upto(2, 0, 0, 0, FALSE), Upto(1, 1, 0, 0, FALSE), Upto(0, 1, 1, 1, TRUE),
             Upto(1, 0, 0, 1, TRUE)}
\* For NoReviewInCooldown: one handler after another, and time.
MCSwitches == {Upto(3, 0, 0, 0, TRUE)}
=============================================================================

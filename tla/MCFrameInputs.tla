--------------------------- MODULE MCFrameInputs ---------------------------
EXTENDS FrameInputs

\* Two windows with a camera each, and two cameras without a window.
Scene2 == {1, 2}
Helpers2 == {3}
TwoWindows == [c \in {1, 2, 3} |-> IF c = 3 THEN 0 ELSE c]
Orders == [c \in {1, 2, 3} |-> IF c = 1 THEN 2 ELSE 1]
\* Three cameras of one window: the first in order depends on the last, and
\* the second on none.
OneWindow == [c \in {1, 2, 3} |-> 1]
Ascending == [c \in {1, 2, 3} |-> c]
Scene3 == {1, 2, 3}
NoHelpers == {}
=============================================================================

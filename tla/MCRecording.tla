---------------------------- MODULE MCRecording ----------------------------
(* Model-checking instances of Recording.                                  *)
EXTENDS Recording

CONSTANTS R, S

Instances(first, last) == [first |-> first, last |-> last]

(* A serial program with a file that selects instances of R; it may call   *)
(* exit() anywhere.                                                        *)
SelectiveSetup(ofR) ==
    [intervals |-> [r \in {R, S} |-> IF r = R THEN ofR ELSE {}], defaultMode |-> FALSE,
     switching |-> "never", parallel |-> FALSE, earlyExit |-> TRUE, maxCalls |-> 2]

ExitSetups == {SelectiveSetup({Instances(0, 0), Instances(2, 3)})}
=============================================================================

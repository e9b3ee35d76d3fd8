-------------------------------- MODULE MCRoom --------------------------------
EXTENDS Room

Line == [shout |-> FALSE, mode |-> "plain", text |-> 1, marks |-> FALSE, sound |-> FALSE,
         delay |-> 0, idle |-> "body", talk |-> "body", pre |-> "pre", scene |-> {}]

Over     == [Line EXCEPT !.mode = "over"]
Block    == [Line EXCEPT !.mode = "block", !.sound = TRUE, !.delay = 3]
Shout    == [Line EXCEPT !.shout = TRUE, !.mode = "block"]
Effect   == [Line EXCEPT !.text = 0, !.marks = TRUE, !.sound = TRUE]

AllKinds  == {Over, Block, Shout, Effect}

Knob(gate, catchUp, bypass) == [gate |-> gate, catchUp |-> catchUp, bypass |-> bypass]
Waiting  == {Knob("wait", TRUE, TRUE), Knob("off", FALSE, FALSE),
             Knob("strict", FALSE, TRUE), Knob("strict", TRUE, FALSE)}
=============================================================================

-------------------------- MODULE MCInputDelivery --------------------------
(* Two callers at a time: a combination, a sequence of two, a click in two *)
(* holds of the lock, text in two batches, a viewer's key, the bootstrap's *)
(* chord in one hold.                                                      *)
EXTENDS InputDelivery

PressOp(combos) == [combos |-> combos, holds |-> <<>>]
RawOp(holds) == [combos |-> <<>>, holds |-> holds]

KeyPress == PressOp(<<<<"ctrl", "c">>>>)
KeySequence == PressOp(<<<<"shift", "a">>, <<"b">>>>)
Click == RawOp(<<<<Press("left")>>, <<Release("left")>>>>)
Text == RawOp(<<<< <<>>, <<>> >>>>)
ViewerKey == RawOp(<<<<Press("x")>>>>)
Paste == RawOp(<<<< <<>>, Press("ctrl") \o Press("v"),
                    Release("v") \o Release("ctrl") >>>>)
Chord == RawOp(<<<<Press("super"), Press("r"), Release("r"), Release("super")>>>>)

Pairs == {<<KeyPress, Click>>, <<KeyPress, Text>>, <<KeySequence, ViewerKey>>,
          <<KeyPress, KeySequence>>, <<Paste, KeyPress>>, <<Chord, KeyPress>>}

MCInputPlans == {[c \in Callers |-> IF c = 1 THEN p[1] ELSE p[2]] : p \in Pairs}
=============================================================================

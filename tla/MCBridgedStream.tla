-------------------------- MODULE MCBridgedStream --------------------------
\* BridgedStream on responses of one or two output items.
EXTENDS BridgedStream, TLC

CONSTANTS item1, item2

OneItem      == {item1}
TwoItems     == {item1, item2}
OneOutput    == {0}
TwoOutputs   == {0, 1}
OneOutputOf  == item1 :> 0
TwoOutputOf  == (item1 :> 0) @@ (item2 :> 1)
=============================================================================

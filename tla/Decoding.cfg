\* The handler goes on when the body is decoded, and so nothing follows here.
SPECIFICATION Spec
CONSTANT MaxLexemes = 2
INVARIANT TrailingDataRefused
CHECK_DEADLOCK FALSE

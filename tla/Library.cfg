SPECIFICATION Spec
INVARIANTS CollectionsExact ParserExact TextExact DataExact   MotorsExact GCodeExact
CHECK_DEADLOCK FALSE

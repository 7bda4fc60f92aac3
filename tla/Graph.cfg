CONSTANT Nodes = {n1, n2, n3}
SPECIFICATION BothSpec
INVARIANTS AnswerRight OrderRight
PROPERTY Answers
CHECK_DEADLOCK FALSE

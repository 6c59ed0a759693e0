\* Two requests are enough: the answer to the first arrives during the second.
SPECIFICATION Spec
CONSTANT MaxMessages = 2
INVARIANT AnswerMatches
CHECK_DEADLOCK FALSE

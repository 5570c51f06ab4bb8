\* Every way up to four signals of a healthy device can go bad together.
CONSTANT MaxBad = 4
SPECIFICATION Spec
INVARIANTS DecisionMatchesReference ReasonNamesCulprit
PROPERTY EvidenceLossNeverRaises
CHECK_DEADLOCK FALSE

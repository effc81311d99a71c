------------------------------- MODULE MCBridge --------------------------------
\* One deck with two connections: P to the primary port of a server in direct
\* mode, S to the deck's secondary port.  P may send writes without end that ask
\* for no answer, such as images, while S waits for what it asked for.
EXTENDS DeckBridge

CONSTANTS P, S

MCConns == {P, S}
MCDirect == {P}
MCSends == [c \in MCConns |-> IF c = S THEN {"local", "ack", "report"} ELSE {"ack", "report", "quiet"}]
MCFrames == [c \in MCConns |-> IF c = S THEN 2 ELSE 1]
================================================================================

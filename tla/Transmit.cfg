SPECIFICATION FairSpec
CONSTANTS
  Block = 3
  ExtBlock = 6
  MaxRecv = 2
  MaxAnswer = 5
  Calls <- MCCalls
INVARIANT TypeOK
INVARIANT RunsWholeOnce
INVARIANT NoOpenChain
INVARIANT AnswerInOrder
 
PROPERTY CommandEnds

SPECIFICATION Spec
CONSTANTS
  Streams = {s1, s2}
  MaxIterations = 2
CHECK_DEADLOCK FALSE
INVARIANTS TypeOK OrderedAndOnce SoleReaderMissesNothing OneOutcome EndedStreamsLeaveNoQueue
PROPERTIES OutcomeIsAnnounced QueuesAreReclaimed

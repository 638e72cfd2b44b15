CONSTANTS
  Repeat <- MCRepeat
SPECIFICATION Spec
INVARIANT ProcessorOutlivesFinished
CHECK_DEADLOCK FALSE

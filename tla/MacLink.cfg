CONSTANTS
  Stations = {sta, ap}
  Foreign = {ap}
  Receiver = rx
  sta = sta
  ap = ap
  rx = rx
  SEQ = 2
  SEQ_NR = 2
  FIRST_SEQ = 17
  Beyond = {16}
  MAX_SENT = 3
  MAX_FRAGMENT = 1
  QUEUE = 1
SPECIFICATION Spec
CHECK_DEADLOCK FALSE
INVARIANTS TypeOK LostCountsNumbers FilterExact

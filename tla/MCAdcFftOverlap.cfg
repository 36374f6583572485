\* Each property below fails: TLC reports the first; comment it out for the next.
CONSTANTS
  w1 = w1
  w2 = w2
  w3 = w3
  Workers = {w1, w2, w3}
  FFT_LEN = 3
  Overlap = TRUE
SPECIFICATION Spec
INVARIANTS
  OneWindow
  OneWorker

CONSTANTS
  w1 = w1
  w2 = w2
  w3 = w3
  Workers = {w1, w2, w3}
  FFT_LEN = 3
  Overlap = FALSE
SPECIFICATION Spec
INVARIANT NeverAsserts

CONSTANTS
  BASE_HZ <- MC_BASE_HZ
  Freqs <- MC_Freqs
SPECIFICATION Spec
INVARIANT RtcTypeOK
INVARIANT RatesArePowersOfTwo
PROPERTY RtcReadReturns

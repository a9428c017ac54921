\* Two messages, a timeout of two ticks, every configuration.
CONSTANTS
  Timeout = 2
  MaxSends = 2
SPECIFICATION MailFairSpec
INVARIANT MailInv
PROPERTY EverySendReturns

SPECIFICATION FairSpec
CONSTANTS
  w1 = w1
  w2 = w2
  ctx = ctx
  Writers <- MCWriters
  Ctxs <- MCCtxs
  BufSizes <- MCBufSizes
  Background = Background
  MaxEmits <- MCMaxEmits
  MaxSlice = 2
  NoErr = NoErr
  CtxErr = CtxErr
  NoFrame = NoFrame
INVARIANTS
  Delivery
PROPERTIES
  CloseComesThrough
  ImplementsChannel
  BlockedEmitSurvives
  ErrorReported

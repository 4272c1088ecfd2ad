--------------------------- MODULE MCWaitablePacer ---------------------------
EXTENDS WaitablePacer, TLC

\* One thread that sees the handle published twice, or two threads and once.
GenerationsTwoThreads == <<2, 1>>
GenerationsOnceEach   == <<1, 1>>
GenerationsOneThread  == <<2>>
GenerationsOnce       == <<1>>
=============================================================================

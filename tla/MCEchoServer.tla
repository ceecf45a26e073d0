---------------------------- MODULE MCEchoServer ----------------------------
\* Small instances of EchoServer for TLC.
EXTENDS EchoServer

CONSTANTS a, b

\* Nothing, texts with and without a 0, one as long as the buffer, and one that
\* takes two reads.
MCTexts == {<<>>, <<1>>, <<2, 2>>, <<2, 0>>, <<1, 1, 1>>, <<1, 0, 1, 2>>}
=============================================================================

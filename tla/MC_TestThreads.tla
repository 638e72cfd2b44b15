------------------------------- MODULE MC_TestThreads -------------------------------
EXTENDS TestThreads

\* Four threads: enough for threads to end out of the order they are
\* joined in.
MCThreads == 4

MCPbExceptionIsXrdSsiException == FALSE

====

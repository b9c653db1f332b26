---- MODULE MCFdaExecutor ----
EXTENDS FdaExecutor
MCPids == 0 .. L + MaxInserts - 1
====

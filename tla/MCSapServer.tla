---------------------------- MODULE MCSapServer ----------------------------
EXTENDS SapServer

CONSTANTS D1, D2

MCPids == {2, 3, 4}
MCDatas == {D1, D2}
====

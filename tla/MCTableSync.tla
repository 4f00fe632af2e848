----------------------------- MODULE MCTableSync -----------------------------
EXTENDS TableSync

SomePages == [start : {1, 3}, count : {2}]
==============================================================================

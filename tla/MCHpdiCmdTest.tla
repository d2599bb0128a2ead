--------------------------- MODULE MCHpdiCmdTest ---------------------------
EXTENDS HpdiCmdTest

\* chanlist_len and scan_end_arg: empty, short, and the full 32 channels.
MCLens == {0, 2, 32}
MCStopArgs == {0, 1}
====

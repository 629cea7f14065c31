--------------------------- MODULE MCReplayWindow ---------------------------
EXTENDS ReplayWindow

\* A window of three bits and counters up to three windows ahead: shifts
\* below, at and beyond WINDOW_BITS, late arrivals on every offset.
MCCounters == -1 .. 9
=============================================================================

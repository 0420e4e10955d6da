--------------------------- MODULE MCAppLifecycle ---------------------------
\* AppLifecycle for TLC.  One session may expire while another is used; three
\* requests to quit, start or exit overlap; stopping fails once; the
\* application is launched a second time.
EXTENDS AppLifecycle

CONSTANTS t1, t2

MCTokens == {t1, t2}
============================================================================

------------------- MODULE MCReadingListDownloadService ---------------------
\* ReadingListDownloadService for TLC: URLs are model values.
EXTENDS ReadingListDownloadService, TLC

CONSTANTS u1, u2

MCURLs == {u1, u2}
=============================================================================

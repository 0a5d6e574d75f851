----------------------- MODULE MCHttpProtocolHandler ------------------------
\* HttpProtocolHandler for TLC: the bounds are given in the cfg files.
EXTENDS HttpProtocolHandler
=============================================================================

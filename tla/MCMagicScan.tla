---------------------------- MODULE MCMagicScan -----------------------------
EXTENDS MagicScan

\* Two commands without data; other words are also taken for a length of 2.
MCDataWords == <<0, 0>>
=============================================================================

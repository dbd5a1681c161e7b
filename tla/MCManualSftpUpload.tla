------------------------- MODULE MCManualSftpUpload -------------------------
EXTENDS ManualSftpUpload

\* A source of two equal chunks: writing one of them twice has the length and
\* the digest of the whole.
MCChunks == {"a", "b"}
MCSource == <<"a", "a">>
=============================================================================

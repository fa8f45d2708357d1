------------------------------ MODULE MCTsFilter ------------------------------
(* Instantiates the body filter for TLC: a 3-byte body written in blocks of *)
(* up to 2 bytes, two edits that may delete up to 2 bytes and insert up to  *)
(* 1, and a buffer limit that is unlimited, or 1 byte.                      *)
EXTENDS TsFilter

MCBodyLen   == 3
MCMaxChunk  == 2
MCMaxEdits  == 2
MCMaxDelete == 2
MCMaxRepl   == 1
MCLimits    == {-1, 1}
MCEditsInBlock == TRUE

\* The core configurations of TsFilter without flush_all.  The progress run
\* uses it: in BUFFER_FLUSHALL an edit inside the incoming block stops
\* flush_data's copy loop (run flushall_overrun), and a hung transform
\* trivially never delivers.  Every other mode is kept.
MCCoreCfgNoFlushAll ==
  [buffer: BOOLEAN, limit: MCLimits, flush_all: {FALSE}, ok: BOOLEAN]
=============================================================================

------------------------------ MODULE MCAsyncIo ------------------------------
(* Two loggers and a buffer that wraps, grows and holds more than what the
   thread takes at a time. *)
EXTENDS AsyncIo

CONSTANTS l1, l2

MCLoggers == {l1, l2}
MCSizes == {4, 8}
=============================================================================

----------------------------- MODULE MCSerialPort -----------------------------
(* SerialPort with a read buffer of three bytes, up to four bytes between    *)
(* flushes, two reads that fail and three tries of a write.                  *)
EXTENDS SerialPort
===============================================================================

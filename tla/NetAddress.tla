----------------------------- MODULE NetAddress -----------------------------
(***************************************************************************)
(* A line of /proc/net/{tcp,tcp6,udp,udp6} and what ParseProcNetLine makes *)
(* of it.  An address is the sequence of its bytes, 4 or 16 of them, in    *)
(* the order they have on the wire; a pair of hexadecimal digits is a      *)
(* byte.  The machine is little-endian, as the code takes it to be.        *)
(***************************************************************************)
EXTENDS Naturals, Sequences

Bytes == 0 .. 255
Addresses == [1 .. 4 -> Bytes] \cup [1 .. 16 -> Bytes]

\* The kernel prints an address word by word, each as a number (%08X).
Printed(a) == [n \in DOMAIN a |-> a[4 * ((n - 1) \div 4) + 4 - ((n - 1) % 4)]]

\* The states of the kernel that occur here, and their codes.
StateCode(state) ==
  CASE state = "ESTABLISHED" -> "01" [] state = "SYN_SENT" -> "02"
    [] state = "CLOSE" -> "07" [] state = "CLOSE_WAIT" -> "08" [] state = "LISTEN" -> "0A"

-----------------------------------------------------------------------------
TCPStateNames(st) ==
  CASE st = "01" -> "ESTABLISHED" [] st = "02" -> "SYN_SENT" [] st = "03" -> "SYN_RECV"
    [] st = "04" -> "FIN_WAIT1" [] st = "05" -> "FIN_WAIT2" [] st = "06" -> "TIME_WAIT"
    [] st = "07" -> "CLOSE" [] st = "08" -> "CLOSE_WAIT" [] st = "09" -> "LAST_ACK"
    [] st = "0A" -> "LISTEN" [] st = "0B" -> "CLOSING" [] OTHER -> st

\* The text ParseHexIP returns, as its parts: four bytes between dots, or
\* eight groups between colons.  The digits of IPv4 are turned around, those
\* of IPv6 within each group of two bytes.
\* Mutant: the bytes as they are printed.
ParseHexIPAsPrinted(hex) == hex
ParseHexIP(hex) ==
  IF Len(hex) = 4 THEN [n \in 1 .. 4 |-> hex[5 - n]]
  ELSE [n \in 1 .. 8 |-> 256 * hex[2 * n] + hex[2 * n - 1]]

\* ParseProcNetLine, with ParseHexAddress: the remote end of the connection.
ParseProcNetLine(line) ==
  [ip |-> ParseHexIP(line.rem), port |-> line.port, state |-> TCPStateNames(line.st)]
=============================================================================

------------------------------- MODULE MCTls --------------------------------
(* Instances of TlsTransfer for TLC: files of a few bytes.                 *)
EXTENDS TlsTransfer

\* Two contents with a common first byte, one of them longer and with the zero
\* a lost block reads as; and an empty file.
OrEmpty == {<<1, 0, 2>>, <<1, 3>>, <<>>}
=============================================================================

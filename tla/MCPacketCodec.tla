--------------------------- MODULE MCPacketCodec ---------------------------
(* Finite instances of PacketCodec for TLC. *)
EXTENDS PacketCodec

a == 97
b == 98
c == 99

\* Questions of one and two labels.
MCQNames == {<<a, DOT, b>>, <<b>>}

\* The question itself, a host in its domain, a sibling, a name with one label
\* of it, one that ends in it but not as a label, a stranger, a host of that.
MCTargets ==
  {<<a, DOT, b>>, <<c, DOT, a, DOT, b>>, <<c, DOT, b>>, <<b>>,
   <<c, a, DOT, b>>, <<c, c>>, <<a, DOT, c, c>>}

=============================================================================

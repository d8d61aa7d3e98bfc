----------------------------- MODULE MCFraming -----------------------------
(* Instances of Framing for TLC.                                           *)
EXTENDS Framing

\* A command of 11 bytes; one of 11 bytes that waits; one of 17, two arguments
\* of which one is empty; one of 24 bytes, the size of the greatest buffer,
\* whose argument holds the bytes of a command; and one of 27 bytes, whose
\* argument does not fit the greatest buffer.
Plain == << <<"x">> >>
Waiting == << <<"B">> >>
Pair == << <<"x">>, <<>> >>
Binary == << CRLF \o encode_array(Plain) >>
TooLong == << [i \in 1..16 |-> "x"] >>

MCPrograms == SeqOf({Plain, Waiting, Binary, Pair, TooLong}, 3) \ {<<>>}
=============================================================================

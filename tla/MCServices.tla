----------------------------- MODULE MCServices -----------------------------
(* Small instances of the services.                                           *)
EXTENDS Services

CONSTANTS a, b, c, d1

directMessages == {<<1, a, d1>>, <<2, a, NoDevice>>}

textSender == [x \in Text |-> a]

postAuthor == [p \in Post |-> IF p = 2 THEN b ELSE a]

uploadSize == [u \in Upload |-> u % 3]
=============================================================================

----------------------------- MODULE MCAbiCodec -----------------------------
(* Instances of AbiCodec: words of four bytes, rows of a NULL flag, a key   *)
(* and a value.                                                             *)
EXTENDS AbiCodec

\* A NULL flag that is not set, keys of two bytes that differ in one of them,
\* values of three bytes that end in a zero or not.
Rows == {<<0>> \o k \o v : k \in {<<0, 1>>, <<1, 0>>, <<1, 1>>},
                           v \in {<<0, 255, 7>>, <<3, 0, 0>>}}

Ids    == {<<0, 9>>, <<9, 0>>}
AddressOf(n) == <<n, 0, 200 + n>>
Commits      == {[i \in 1 .. n |-> AddressOf(i)] : n \in 1 .. 9}
=============================================================================

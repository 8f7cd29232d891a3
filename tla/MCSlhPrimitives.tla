--------------------------- MODULE MCSlhPrimitives ---------------------------
(***************************************************************************)
(* A field of the shape of Goldilocks with bytes of one bit: a word is     *)
(* 2^8, the prime 2^8 - 2^4 + 1 = 241.  The calls differ pairwise in one   *)
(* thing that a frame could lose, swap or repeat.                          *)
(***************************************************************************)
EXTENDS SlhPrimitives

MCRoundConstants == [k \in 0 .. 3 |-> [n \in 0 .. 11 |-> (37 * k + 91 * n + 13) % 256]]

Zero == <<0, 0, 0, 0, 0, 0, 0>>
Ones == <<1, 1, 1, 1, 1, 1, 1>>

\* An address that differs from zero in one word, also beyond the prime.
OneWord == {[Zero EXCEPT ![k] = v] : k \in {1, 6, 7}, v \in {1, 250}}

Seed == <<0, 1>>
A == <<3, 255>>
B == <<244, 0>>

MCCalls ==
    [prim : {"F"}, seed : {Seed}, adrs : {Zero} \cup OneWord, ms : {<<A>>}]
      \cup [prim : {"F", "Tk", "Tlen"}, seed : {<<1, 0>>, <<241, 1>>}, adrs : {Ones}, ms : {<<B>>}]
      \cup [prim : {"H"}, seed : {Seed}, adrs : {Zero} \cup OneWord, ms : {<<A, B>>}]
      \cup [prim : {"H"}, seed : {Seed}, adrs : {Zero}, ms : {<<B, A>>, <<B, B>>}]
      \cup [prim : {"Tk"}, seed : {Seed}, adrs : {Zero}, ms : {<<A, B>>, <<A, B, A>>, <<A, B, A, B, B>>}]
      \cup [prim : {"Tlen"}, seed : {Seed}, adrs : {Zero}, ms : {<<B, A>>, <<A, B, B>>, <<B, B, A, A, B, A, B>>}]
      \cup [prim : {"Hmsg"}, seed : {A, B}, adrs : {<<A, B>>, <<B, A>>}, ms : {<<A, B, B, A>>}]
=============================================================================

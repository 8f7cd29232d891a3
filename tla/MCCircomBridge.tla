-------------------------- MODULE MCCircomBridge --------------------------
(* Six constraint systems and a witness, written with their sections in every
   order and cut at every length; also files without a section, with a section
   twice, with another magic, version or field size.  Three of the systems are
   none circom writes: a wire twice in a linear combination, a wire out of
   range in the first row and one in the last.  Words are base 256, so the field is the integers modulo 65281. *)
EXTENDS CircomBridge, SequencesExt

MCHeader(kind, h) ==
    <<h.fsb>> \o [k \in 1 .. h.fsb \div 4 |-> 7]
      \o IF kind = "r1cs" THEN <<h.wires, h.pub_out, h.pub_in, 1, 9, 0, h.count>> ELSE <<h.count>>

MCItem(kind, item) ==
    IF kind = "r1cs" THEN <<Len(item)>> \o FlattenSeq([t \in 1 .. Len(item) |-> <<item[t][1]>> \o item[t][2]])
                     ELSE item

MCSection(type, content) == <<type, 4 * Len(content), 0>> \o content

\* The offsets of parts laid one after the other, and of the end.
MCOffsets(first, parts) ==
    [k \in 1 .. Len(parts) + 1 |-> first + Len(FlattenSeq(SubSeq(parts, 1, k - 1)))]

MCInput(kind, magic, version, v, sections, length) ==
    LET written == [k \in 1 .. Len(v.items) |-> MCItem(kind, v.items[k])]
        at == MCOffsets(3, sections)
        whole == <<magic, version, Len(sections)>> \o FlattenSeq(sections)
    IN  [kind |-> kind,
         file |-> SubSeq(whole, 1, IF length < Len(whole) THEN length ELSE Len(whole)),
         what |-> [magic |-> magic, version |-> version, header |-> v.header, items |-> v.items,
                   offsets |-> MCOffsets(0, written),
                   sections |-> [s \in 1 .. Len(sections) |->
                       [type |-> sections[s][1], at |-> at[s], words |-> Len(sections[s]) - 3]]]]

\* Coefficients 1 and -1, and the largest word pair, which wraps.
MCOne == <<1, 0>>
MCMinus == <<0, 255>>
MCBig == <<255, 255>>

MCR1cs(fsb, wires, pub_out, pub_in, combos) ==
    [header |-> [fsb |-> fsb, wires |-> wires, pub_out |-> pub_out, pub_in |-> pub_in, count |-> Len(combos) \div 3],
     items |-> combos]

MCSmall  == MCR1cs(8, 3, 1, 0, << << <<0, MCOne>>, <<2, MCBig>> >>, << <<1, MCMinus>> >>, << >>,
                                  << >>, << <<2, MCBig>>, <<1, MCOne>> >>, << <<0, MCMinus>> >> >>)
MCEmpty  == MCR1cs(8, 1, 0, 0, << >>)
MCWide   == MCR1cs(12, 2, 0, 1, << << <<1, <<1, 2, 3>> >> >>, << >>, << >> >>)
MCTwice  == MCR1cs(8, 2, 0, 0, << << <<1, MCOne>>, <<1, MCMinus>> >>, << >>, << >> >>)
MCBeyond(first, last) ==
    MCR1cs(8, 2, 0, 0, << << >>, << <<first, MCOne>> >>, << >>, << >>, << <<last, MCMinus>> >>, << >> >>)
MCWitness == [header |-> [fsb |-> 8, count |-> 3], items |-> << MCOne, MCBig, MCMinus >>]

MCInputsOf(kind, v) ==
    LET head == MCSection(HEADER, MCHeader(kind, v.header))
        tail == MCSection(BODY, FlattenSeq([k \in 1 .. Len(v.items) |-> MCItem(kind, v.items[k])]))
        map  == MCSection(3, <<1, 2, 3, 4>>)
        right == Version(kind)
        orders == {<<head, tail>>, <<tail, head>>, <<head, map, tail>>, <<map, tail, head>>,
                   <<tail, head, map>>, <<head, head, tail>>, <<tail, tail, head>>}
        all == Len(FlattenSeq(<<head, head, tail, tail, map>>))
    IN  {MCInput(kind, kind, right, v, s, n) : s \in orders, n \in 0 .. all}
          \cup {MCInput(kind, kind, 3 - right, v, <<head, tail>>, all),
                MCInput(kind, "other", right, v, <<head, tail>>, all),
                MCInput(kind, kind, right, v, <<head>>, all),
                MCInput(kind, kind, right, v, <<tail, map>>, all)}

\* The file that names a wire twice.
MCTwiceInputs == MCInputsOf("r1cs", MCTwice)

MCInputs ==
    MCInputsOf("r1cs", MCSmall) \cup MCInputsOf("r1cs", MCEmpty) \cup MCInputsOf("r1cs", MCWide)
      \cup MCInputsOf("r1cs", MCTwice) \cup MCInputsOf("r1cs", MCBeyond(2, 1)) \cup MCInputsOf("r1cs", MCBeyond(1, 2))
      \cup MCInputsOf("wtns", MCWitness)
=============================================================================

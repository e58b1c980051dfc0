---------------------------- MODULE DepositData ----------------------------
(***************************************************************************)
(* The deposit data of a fungible transfer, as bytes: a word with the      *)
(* amount, a word with the length of the recipient, the recipient.  A word *)
(* has WORD_BYTES bytes (32 in the code) of ByteBase values (256), most    *)
(* significant first.                                                      *)
(***************************************************************************)
EXTENDS SygmaTraits, Sequences

CONSTANTS
    WORD_BYTES, ByteBase,
    EncodedLocations    \* the SCALE encodings of MultiLocations; none is a prefix of another

Bytes == 0 .. ByteBase - 1
InvalidDepositData == <<>>   \* the error

\* The bytes t begin with the bytes s.
Begins(s, t) == Len(s) <= Len(t) /\ SubSeq(t, 1, Len(s)) = s

\* The weight of a byte with k bytes behind it.
Place[k \in 0 .. WORD_BYTES] == IF k = 0 THEN 1 ELSE ByteBase * Place[k - 1]

ASSUME DepositDataAssumption ==
    /\ WORD_BYTES \in Nat \ {0} /\ ByteBase \in Nat \ {0, 1}
    /\ MaxU128 < Place[WORD_BYTES]
    /\ EncodedLocations \subseteq Seq(Bytes) \ {<<>>}
    /\ \A l \in EncodedLocations : Len(l) < Place[WORD_BYTES]
    /\ \A l, m \in EncodedLocations : Begins(l, m) => l = m

hex_zero_padding_32(n) ==
    [i \in 1 .. WORD_BYTES |-> (n \div Place[WORD_BYTES - i]) % ByteBase]

from_big_endian(word) ==
    LET value[i \in 0 .. Len(word)] ==
            IF i = 0 THEN 0 ELSE value[i - 1] * ByteBase + word[i]
    IN  value[Len(word)]

create_deposit_data(amount, recipient) ==
    hex_zero_padding_32(amount) \o hex_zero_padding_32(Len(recipient)) \o recipient

\* MultiLocation::decode (external): reads an encoding, and nothing behind it.
decoded(bytes) ==
    LET read == {l \in EncodedLocations : Begins(l, bytes)}
    IN  IF read = {} THEN InvalidDepositData ELSE CHOOSE l \in read : TRUE

\* Mutant: the declared length is not compared.
extract_deposit_data_unchecked(data) ==
    LET amount == from_big_endian(SubSeq(data, 1, WORD_BYTES))
        location == decoded(SubSeq(data, 2 * WORD_BYTES + 1, Len(data)))
    IN  IF Len(data) < 2 * WORD_BYTES \/ amount > MaxU128 \/ location = InvalidDepositData
        THEN InvalidDepositData
        ELSE <<amount, location>>

extract_deposit_data(data) ==
    LET amount == from_big_endian(SubSeq(data, 1, WORD_BYTES))
        recipient_len == from_big_endian(SubSeq(data, WORD_BYTES + 1, 2 * WORD_BYTES))
        location == decoded(SubSeq(data, 2 * WORD_BYTES + 1, Len(data)))
    IN  IF \/ Len(data) < 2 * WORD_BYTES
           \/ amount > MaxU128
           \/ Len(data) - 2 * WORD_BYTES # recipient_len
           \/ location = InvalidDepositData
        THEN InvalidDepositData
        ELSE <<amount, location>>

============================================================================

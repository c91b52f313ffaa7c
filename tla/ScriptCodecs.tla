---------------------------- MODULE ScriptCodecs ----------------------------
(* What the host lends the scripts to sign and to read with: the protobuf     *)
(* writer, whose message grows call by call, and the conversions that come in *)
(* pairs, base64, hex, text, AES and compression, where a script applies one  *)
(* way and then the other.                                                    *)
(*                                                                            *)
(* A throw leaves the script running, so a writer may be used after one; what *)
(* it makes of a message that was too long is not followed further.           *)
EXTENDS Integers, Sequences, SequencesExt

CONSTANTS
    Numbers, FieldNumbers, Payloads, MaxFields, \* what the calls of a writer are given
    MaxField, MaxSafeInteger, MaxMessage,       \* MAX_FIELD, MAX_SAFE_INTEGER, MAX_MESSAGE_BYTES
    SampleBytes, MaxBytes,                      \* the bytes and lengths that are encoded as text
    SmallBytes, MaxData, BlockSize,             \* AES: bytes of two bits, in blocks
    MaxExpansion                                \* MAX_EXPANSION_BYTES

VARIABLES
    codec,    \* what the behaviour is about
    message,  \* the buffer of the writer
    written,  \* history: the fields whose calls returned
    torn,     \* history: how far the message had come when a call was first refused for its size
    job       \* a conversion: what went in, what came out, what came back
codecVars == <<codec, message, written, torn, job>>

Ok(value) == [outcome |-> "ok", value |-> value]
Throws == [outcome |-> "throws", value |-> <<>>]
Panics == [outcome |-> "panics", value |-> <<>>]
NoJob == [kind |-> "none", options |-> <<>>, in |-> <<>>, out |-> Throws, undone |-> FALSE, with |-> <<>>, back |-> Throws]
Whole == [bytes |-> -1, fields |-> -1]
CodecInit == /\ codec \in {"protobuf", "pairs"}
             /\ message = <<>> /\ written = <<>> /\ torn = Whole /\ job = NoJob

-----------------------------------------------------------------------------
(* Protobuf.                                                                  *)

\* Mutant: 128 is written in one byte.
VarintLong(v) ==
    LET varint[n \in Nat] == IF n <= 128 THEN <<n>> ELSE <<(n % 128) + 128>> \o varint[n \div 128] IN varint[v]
WriteVarint(v) ==
    LET varint[n \in Nat] == IF n < 128 THEN <<n>> ELSE <<(n % 128) + 128>> \o varint[n \div 128] IN varint[v]
FieldHead(field, wire) == WriteVarint(field * 8 + wire)
ValidField(field) == field \in 1..MaxField
ValidVarint(value) == value <= MaxSafeInteger

\* A refused call leaves its head behind, and a script that catches the error may go on.
\* Bound: the writer is used up to its limit, beyond which every call is refused.
MayWrite == codec = "protobuf" /\ Len(written) < MaxFields /\ Len(message) <= MaxMessage
Tears(fits) == torn' = IF fits \/ torn # Whole THEN torn ELSE [bytes |-> Len(message), fields |-> Len(written)]
\* varint: both parts are in the buffer before its length is checked.
PutVarint(field, value) ==
    /\ MayWrite
    /\ IF ValidField(field) /\ ValidVarint(value)
       THEN LET grown == message \o FieldHead(field, 0) \o WriteVarint(value)
                fits == Len(grown) <= MaxMessage IN
            /\ message' = grown /\ Tears(fits)
            /\ written' = IF fits THEN Append(written, <<field, value, <<>>>>) ELSE written
       ELSE UNCHANGED <<message, torn, written>>
    /\ UNCHANGED <<codec, job>>

\* string and bytes: the head stays in the buffer when the payload is refused.
PutBytes(field, payload) ==
    /\ MayWrite
    /\ IF ValidField(field)
       THEN LET head == message \o FieldHead(field, 2) \o WriteVarint(Len(payload))
                fits == Len(head) + Len(payload) <= MaxMessage IN
            /\ message' = IF fits THEN head \o payload ELSE head
            /\ Tears(fits)
            /\ written' = IF fits THEN Append(written, <<field, Len(payload), payload>>) ELSE written
       ELSE UNCHANGED <<message, torn, written>>
    /\ UNCHANGED <<codec, job>>

-----------------------------------------------------------------------------
(* Base64 and hex. A digit of the standard alphabet is its value, the two     *)
(* digits of the URL-safe one that differ are 66 and 67.                      *)
Equals == 64
Blank == 65
Alphabet(d, urlSafe) == IF urlSafe /\ d > 61 THEN d + 4 ELSE d
ValueOf(c, urlSafe) == IF urlSafe /\ c > 61 THEN c - 4 ELSE c
Chunks(s, n) == [i \in 1..((Len(s) + n - 1) \div n) |-> SubSeq(s, n * (i - 1) + 1, IF n * i < Len(s) THEN n * i ELSE Len(s))]
Nth(s, i) == IF i <= Len(s) THEN s[i] ELSE 0

Quad(chunk, urlSafe) ==
    LET triple == Nth(chunk, 1) * 65536 + Nth(chunk, 2) * 256 + Nth(chunk, 3)
        digit(unit) == Alphabet((triple \div unit) % 64, urlSafe) IN
    <<digit(262144), digit(4096), IF Len(chunk) > 1 THEN digit(64) ELSE Equals,
      IF Len(chunk) > 2 THEN digit(1) ELSE Equals>>
ToBase64(bytes, urlSafe) == LET chunks == Chunks(bytes, 3) IN
                            FlattenSeq([i \in DOMAIN chunks |-> Quad(chunks[i], urlSafe)])

\* Mutant: the second byte is kept whatever the length.
TrioLong(digits) ==
    LET triple == Nth(digits, 1) * 262144 + Nth(digits, 2) * 4096 + Nth(digits, 3) * 64 + Nth(digits, 4) IN
    <<triple \div 65536, (triple \div 256) % 256>> \o (IF Len(digits) > 3 THEN <<triple % 256>> ELSE <<>>)
Trio(digits) ==
    LET triple == Nth(digits, 1) * 262144 + Nth(digits, 2) * 4096 + Nth(digits, 3) * 64 + Nth(digits, 4) IN
    <<triple \div 65536>> \o (IF Len(digits) > 2 THEN <<(triple \div 256) % 256>> ELSE <<>>)
                          \o (IF Len(digits) > 3 THEN <<triple % 256>> ELSE <<>>)
FromBase64(text, urlSafe) ==
    LET compact == SelectSeq(text, LAMBDA c : c # Blank)
        body == IF \E i \in DOMAIN compact : compact[i] # Equals
                THEN SubSeq(compact, 1, CHOOSE i \in DOMAIN compact : /\ compact[i] # Equals
                                        /\ \A j \in DOMAIN compact : j > i => compact[j] = Equals)
                ELSE <<>>
        legal == \A i \in DOMAIN body : body[i] \in 0..61 \cup (IF urlSafe THEN 66..67 ELSE 62..63) IN
    IF \/ Len(compact) - Len(body) > 2 \/ (body = <<>> /\ compact # <<>>)
       \/ Len(body) % 4 = 1 \/ ~legal
    THEN Throws
    ELSE LET digits == [i \in DOMAIN body |-> ValueOf(body[i], urlSafe)] chunks == Chunks(digits, 4) IN
         Ok(FlattenSeq([i \in DOMAIN chunks |-> Trio(chunks[i])]))

ToHex(bytes) == FlattenSeq([i \in DOMAIN bytes |-> <<bytes[i] \div 16, bytes[i] % 16>>])
FromHex(text) == IF Len(text) % 2 = 1 \/ \E i \in DOMAIN text : text[i] > 15 THEN Throws
                 ELSE Ok([i \in 1..(Len(text) \div 2) |-> text[2 * i - 1] * 16 + text[2 * i]])

-----------------------------------------------------------------------------
(* Text: characters are "bom" and "c", bytes also "bad", which is not text.   *)
EncodeText(text) == text
DecodeText(bytes, options) ==
    LET body == IF ~options.ignoreBOM /\ bytes # <<>> /\ bytes[1] = "bom" THEN Tail(bytes) ELSE bytes IN
    IF options.fatal /\ \E i \in DOMAIN body : body[i] = "bad" THEN Throws
    ELSE Ok([i \in DOMAIN body |-> IF body[i] = "bad" THEN "replacement" ELSE body[i]])

-----------------------------------------------------------------------------
(* AES with bytes of two bits and blocks of BlockSize bytes. The cipher is    *)
(* some permutation of the blocks for each key.                               *)
Xor(a, b) == ((a + b) % 2) + 2 * ((a \div 2 + b \div 2) % 2)
XorBlock(x, y) == [i \in DOMAIN x |-> Xor(x[i], y[i])]
Cipher(key, x) == [i \in DOMAIN x |-> (x[Len(x) + 1 - i] + key + i) % 4]
Decipher(key, y) == [i \in DOMAIN y |-> (y[Len(y) + 1 - i] + 8 - key - (Len(y) + 1 - i)) % 4]

\* Mutant: aligned data is not padded.
Pkcs7PadUnlessAligned(data) == IF Len(data) % BlockSize = 0 THEN data ELSE
                               LET pad == BlockSize - (Len(data) % BlockSize) IN data \o [i \in 1..pad |-> pad]
Pkcs7Pad(data) == LET pad == BlockSize - (Len(data) % BlockSize) IN data \o [i \in 1..pad |-> pad]
Unpad(data) ==
    IF data = <<>> THEN Throws
    ELSE LET pad == Last(data) IN
         IF pad \in 1..BlockSize /\ \A i \in (Len(data) - pad + 1)..Len(data) : data[i] = pad
         THEN Ok(SubSeq(data, 1, Len(data) - pad)) ELSE Throws

\* CBC: every block is mixed with the ciphertext before it.
CbcEncrypt(key, iv, data) ==
    LET in == Chunks(data, BlockSize)
        out[i \in 0..Len(in)] == IF i = 0 THEN iv ELSE Cipher(key, XorBlock(in[i], out[i - 1])) IN
    FlattenSeq([i \in DOMAIN in |-> out[i]])

\* Mutant: a block is chained to the plain text before it.
CbcDecryptPlain(key, iv, data) ==
    LET in == Chunks(data, BlockSize)
        plain == [i \in 0..Len(in) |-> IF i = 0 THEN iv ELSE Decipher(key, in[i])] IN
    FlattenSeq([i \in DOMAIN in |-> XorBlock(Decipher(key, in[i]), plain[i - 1])])
CbcDecrypt(key, iv, data) ==
    LET in == Chunks(data, BlockSize) IN
    FlattenSeq([i \in DOMAIN in |-> XorBlock(Decipher(key, in[i]), IF i = 1 THEN iv ELSE in[i - 1])])
EcbEncrypt(key, data) == LET in == Chunks(data, BlockSize) IN FlattenSeq([i \in DOMAIN in |-> Cipher(key, in[i])])
EcbDecrypt(key, data) == LET in == Chunks(data, BlockSize) IN FlattenSeq([i \in DOMAIN in |-> Decipher(key, in[i])])
\* CTR: a keystream from the counter, a big-endian number that wraps around.
Counter(iv, n) == [i \in DOMAIN iv |-> ((iv[1] * 4 + iv[2] + n) \div (IF i = 1 THEN 4 ELSE 1)) % 4]
CtrRun(key, iv, data) ==
    [i \in DOMAIN data |-> Xor(data[i], Cipher(key, Counter(iv, (i - 1) \div BlockSize))[((i - 1) % BlockSize) + 1])]

\* parse_padding
ParsePadding(mode, label) ==
    CASE mode \in {"cbc", "ecb"} /\ label \in {"default", "pkcs7"} -> "pkcs7"
      [] label = "none" \/ (label = "default" /\ mode \in {"ctr", "gcm"}) -> "none"
      [] OTHER -> "invalid"
TheIv == <<3, 3>>
\* What encryption makes of data without padding that does not fill its blocks: the library panics.
Blocks(o, op, padding, data) ==
    LET run(d) == CASE o.mode = "cbc" /\ op = "encrypt" -> CbcEncrypt(o.key, TheIv, d)
                    [] o.mode = "cbc" /\ op = "decrypt" -> CbcDecrypt(o.key, TheIv, d)
                    [] o.mode = "ecb" /\ op = "encrypt" -> EcbEncrypt(o.key, d)
                    [] o.mode = "ecb" /\ op = "decrypt" -> EcbDecrypt(o.key, d)
    IN  IF op = "encrypt"
        THEN IF padding = "none" /\ Len(data) % BlockSize # 0 THEN Panics
             ELSE Ok(run(IF padding = "pkcs7" THEN Pkcs7Pad(data) ELSE data))
        ELSE IF Len(data) % BlockSize # 0 THEN Throws
             ELSE IF padding = "pkcs7" THEN Unpad(run(data)) ELSE Ok(run(data))
\* GCM: a keystream, and a tag that determines key, nonce, additional data and text.
GcmRun(op, o, iv, data) ==
    IF op = "encrypt" THEN Ok([body |-> CtrRun(o.key, iv, data), tag |-> <<o.key, iv, o.aad, data>>])
    ELSE LET plain == CtrRun(o.key, iv, data.body) IN
         IF data.tag = <<o.key, iv, o.aad, plain>> THEN Ok(plain) ELSE Throws

\* aes_run. A key is its number, 0 one of a wrong length; a nonce that is too short panics.
AesRun(op, o, data) ==
    LET padding == ParsePadding(o.mode, o.padding) IN
    IF \/ padding = "invalid" \/ (o.mode = "ecb") # (o.iv = "absent") \/ o.key = 0
    THEN Throws
    ELSE CASE o.mode # "ecb" /\ o.iv = "short" -> (IF o.mode = "gcm" THEN Panics ELSE Throws)
           [] o.mode \in {"cbc", "ecb"} -> Blocks(o, op, padding, data)
           [] o.mode = "ctr" -> Ok(CtrRun(o.key, TheIv, data))
           [] o.mode = "gcm" -> GcmRun(op, o, TheIv, data)

\* Simon and Speck: a permutation again, always padded, never undone.
SignRun(key, data) == IF key = 0 THEN Throws ELSE Ok(EcbEncrypt(key, Pkcs7Pad(data)))

\* Compression of n bytes, and what stops an expansion that is too long.
Expand(n) == IF n > MaxExpansion THEN Throws ELSE Ok(n)

-----------------------------------------------------------------------------
(* A script converts, and converts back.                                      *)
Data(bytes, n) == SeqOf(bytes, n)
Layouts(text) == {text, <<Blank>> \o text, SelectSeq(text, LAMBDA c : c # Equals)}
AesOptions == [mode : {"cbc", "ecb", "ctr", "gcm"}, iv : {"full", "short", "absent"},
               padding : {"default", "pkcs7", "none", "zero"}, key : {0, 1}, aad : {"a"}]

Fresh == codec = "pairs" /\ job.kind = "none"
Convert(kind, options, in, out) ==
    /\ job' = [NoJob EXCEPT !.kind = kind, !.options = options, !.in = in, !.out = out]
    /\ UNCHANGED <<codec, message, written, torn>>
ConvertBack(kind, with, back) ==
    /\ job.kind = kind /\ job.out.outcome = "ok" /\ ~job.undone
    /\ job' = [job EXCEPT !.undone = TRUE, !.with = with, !.back = back]
    /\ UNCHANGED <<codec, message, written, torn>>

CodecNext ==
    \/ \E f \in FieldNumbers, v \in Numbers : PutVarint(f, v)
    \/ \E f \in FieldNumbers, p \in Payloads : PutBytes(f, p)
    \/ Fresh /\ \E u \in BOOLEAN, d \in Data(SampleBytes, MaxBytes) :
           \E t \in Layouts(ToBase64(d, u)) : Convert("base64", u, d, Ok(t))
    \/ \E u \in BOOLEAN : ConvertBack("base64", u, FromBase64(job.out.value, u))
    \/ Fresh /\ \E d \in Data(SampleBytes, 2) : Convert("hex", <<>>, d, Ok(ToHex(d)))
    \/ ConvertBack("hex", <<>>, FromHex(job.out.value))
    \/ Fresh /\ \E o \in [fatal : BOOLEAN, ignoreBOM : BOOLEAN], d \in Data({"bom", "c", "bad"}, 2) :
           Convert("text", o, d, DecodeText(d, o))
    \/ ConvertBack("text", <<>>, Ok(EncodeText(job.out.value)))
    \/ Fresh /\ \E o \in AesOptions, d \in Data(SmallBytes, MaxData) : Convert("aes", o, d, AesRun("encrypt", o, d))
    \/ \E aad \in {"a", "b"} :
           ConvertBack("aes", aad, AesRun("decrypt", [job.options EXCEPT !.aad = aad], job.out.value))
    \/ Fresh /\ \E k \in {0, 1}, d \in Data(SmallBytes, MaxData) : Convert("sign", k, d, SignRun(k, d))
    \/ Fresh /\ \E n \in (MaxExpansion - 1)..(MaxExpansion + 1) : Convert("gzip", <<>>, n, Ok(n))
    \/ ConvertBack("gzip", <<>>, Expand(job.out.value))
-----------------------------------------------------------------------------
(* The wire format, read: a number from position i, and the fields from i on. *)
ReadVarint(s, start) ==
    LET read[i \in Nat] == IF i > Len(s) THEN <<0, i>> ELSE IF s[i] < 128 THEN <<s[i], i + 1>>
                           ELSE <<s[i] - 128 + 128 * read[i + 1][1], read[i + 1][2]>> IN read[start]
ReadFields(s) ==
    LET read[i \in 1..(Len(s) + 1)] ==
            IF i > Len(s) THEN <<>>
            ELSE LET key == ReadVarint(s, i)
                     value == ReadVarint(s, key[2])
                     end == value[2] + (IF key[1] % 8 = 2 THEN value[1] ELSE 0) IN
                 IF end > Len(s) + 1 THEN <<<<0, 0, <<>>>>>>
                 ELSE <<<<key[1] \div 8, value[1], SubSeq(s, value[2], end - 1)>>>> \o read[end] IN read[1]
(* A message is within its limit and reads as the fields of the calls that    *)
(* returned, refused fields and values left out. Of one that a call was       *)
(* refused for its size in, the same holds as far as it had come by then;     *)
(* what follows begins with the head of the field that was refused, and       *)
(* nothing is said of it: finish() returns it all the same.                   *)
MessageReads ==
    LET bytes == IF torn = Whole THEN Len(message) ELSE torn.bytes
        fields == IF torn = Whole THEN Len(written) ELSE torn.fields
    IN bytes <= MaxMessage /\ ReadFields(SubSeq(message, 1, bytes)) = SubSeq(written, 1, fields)

(* What was converted comes back, from every layout of the text, in every     *)
(* mode of the cipher and from every expansion the limit allows; with the     *)
(* other alphabet, or with other additional data, it is refused or the same.  *)
PairsUndone ==
    job.undone =>
        CASE job.kind = "base64" -> job.back = Ok(job.in) \/ (job.with # job.options /\ job.back = Throws)
          [] job.kind = "hex" -> job.back = Ok(job.in)
          [] job.kind = "text" -> job.options.fatal /\ job.options.ignoreBOM => job.back = Ok(job.in)
          [] job.kind = "aes" -> IF job.options.mode = "gcm" /\ job.with # job.options.aad
                                 THEN job.back = Throws ELSE job.back = Ok(job.in)
          [] job.kind = "gzip" -> job.back = IF job.in <= MaxExpansion THEN Ok(job.in) ELSE Throws
(* A signature tells apart what was signed, however it fills the blocks.      *)
SignedApart ==
    job.kind = "sign" /\ job.out.outcome = "ok" => Unpad(EcbDecrypt(job.options, job.out.value)) = Ok(job.in)
CodecsTrue == MessageReads /\ PairsUndone /\ SignedApart
=============================================================================

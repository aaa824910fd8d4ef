-------------------------- MODULE StructuredField ---------------------------
(***************************************************************************)
(* ngx_auth_httpsig_sfv.c: reading Dictionaries and Items of Structured    *)
(* Fields, and writing Items and Inner Lists in their canonical form.      *)
(*                                                                         *)
(* A reader takes a text and the position it starts at and returns what it *)
(* read and where it stopped; its loops are recursive operators.           *)
(* Running out of memory is left out.                                      *)
(***************************************************************************)
EXTENDS Octets

CONSTANTS
    MaxLength,       \* NGX_AUTH_HTTPSIG_MAX_SFV_LENGTH, 8192
    MaxItems,        \* NGX_AUTH_HTTPSIG_MAX_SFV_ITEMS, 64
    MaxParams,       \* NGX_AUTH_HTTPSIG_MAX_SFV_PARAMS, 16
    IntegerDigits,   \* 15
    DecimalDigits,   \* 12
    FractionDigits   \* 3

ASSUME SfvAssumption ==
    /\ MaxLength \in Nat /\ MaxItems \in Nat /\ MaxParams \in Nat
    /\ IntegerDigits \in Nat \ {0}
    /\ DecimalDigits \in Nat \ {0}
    /\ FractionDigits \in Nat \ {0}

\* Both outcomes of a reader.
Done(val, p) == [rc |-> "OK", val |-> val, pos |-> p]
Fail(p) == [rc |-> "DECLINED", pos |-> p]

\* A loop goes on from read with one more element, or ends with its refusal.
Also(read, next) ==
    IF next.rc = "OK" THEN [next EXCEPT !.val = Append(read.val, @)] ELSE next

\* A bare item; the bytes of a Byte Sequence are kept as their base64 digits.
Bare(type, value, integer) ==
    [type |-> type, value |-> value, integer |-> integer]

True == Bare("BOOLEAN", "", 1)

OWS     == {" ", "\t"}
Alpha   == Lower \cup Upper
Visible == Coded(32 .. 126)
KeyChar == Lower \cup Digit \cup {"_", "-", ".", "*"}
TokenChar ==
    Alpha \cup Digit \cup {"!", "#", "$", "%", "&", "'", "*", "+", "-", ".",
                           "^", "_", "|", "~", ":", "/"}

-----------------------------------------------------------------------------
(* Bare items. *)

ReadKey(s, p) ==
    LET end == EndOf(s, p + 1, KeyChar) IN
    IF At(s, p) \in Lower \cup {"*"} THEN Done(SubSeq(s, p, end - 1), end)
    ELSE Fail(p)

RECURSIVE StringFrom(_, _, _)

\* The rest of a string, of which value has been read, from q on.
StringFrom(s, value, q) ==
    IF At(s, q) = "\"" THEN Done(Bare("STRING", value, 0), q + 1)
    ELSE IF At(s, q) = "\\" THEN
        IF At(s, q + 1) \in {"\"", "\\"}
        THEN StringFrom(s, value \o At(s, q + 1), q + 2) ELSE Fail(q + 1)
    ELSE IF At(s, q) \in Visible THEN StringFrom(s, value \o At(s, q), q + 1)
    ELSE Fail(q)

\* p is at the opening quote.
ReadString(s, p) == StringFrom(s, "", p + 1)

Base64 == "ABCDEFGHIJKLMNOPQRSTUVWXYZabcdefghijklmnopqrstuvwxyz0123456789+/"

\* ngx_decode_base64() on n digits without padding: the digits of the bytes
\* it returns, with the bits that no byte takes cleared.
Decodable(digits) ==
    /\ Len(digits) % 4 # 1
    /\ \A i \in 1 .. Len(digits) : \E j \in 1 .. 64 : At(digits, i) = At(Base64, j)

DecodeBase64(digits) ==
    LET n      == Len(digits)
        last   == CHOOSE j \in 1 .. 64 : At(Base64, j) = At(digits, n)
        unused == CASE n % 4 = 2 -> 16 [] n % 4 = 3 -> 4 [] OTHER -> 1
    IN IF n = 0 THEN ""
       ELSE SubSeq(digits, 1, n - 1)
                \o At(Base64, last - ((last - 1) % unused))

\* p is at the opening colon; padding is at the end and at most two.
ReadByteSequence(s, p) ==
    LET end     == FindAny(s, p + 1, {":"})
        encoded == SubSeq(s, p + 1, end - 1)
        padding == FindAny(encoded, 1, {"="})
        digits  == SubSeq(encoded, 1, padding - 1)
    IN IF end > Len(s) THEN Fail(end)
       ELSE IF /\ EndOf(encoded, padding, {"="}) > Len(encoded)
               /\ Len(encoded) - Len(digits) <= 2
               /\ Decodable(digits)
       THEN Done(Bare("BYTE_SEQUENCE", DecodeBase64(digits), 0), end + 1)
       ELSE Fail(end + 1)

ReadBoolean(s, p) ==
    IF At(s, p + 1) \in {"0", "1"}
    THEN Done(Bare("BOOLEAN", "", IF At(s, p + 1) = "1" THEN 1 ELSE 0), p + 2)
    ELSE Fail(p + 1)

ReadToken(s, p) ==
    LET end == EndOf(s, p + 1, TokenChar)
    IN Done(Bare("TOKEN", SubSeq(s, p, end - 1), 0), end)

\* The number a text of digits stands for.
Number(digits) ==
    LET value[i \in 0 .. Len(digits)] ==
            IF i = 0 THEN 0
            ELSE value[i - 1] * 10 + (Ord[At(digits, i)] - 48)
    IN value[Len(digits)]

\* An Integer, or a Decimal scaled by 10^FractionDigits.
ReadNumber(s, p) ==
    LET negative == At(s, p) = "-"
        sign     == IF negative THEN -1 ELSE 1
        start    == IF negative THEN p + 1 ELSE p
        dot      == EndOf(s, start, Digit)
        int      == Number(SubSeq(s, start, dot - 1))
        end      == EndOf(s, dot + 1, Digit)
        digits   == end - (dot + 1)
        frac     == Number(SubSeq(s, dot + 1, end - 1))
                        * 10 ^ (FractionDigits - digits)
    IN IF dot = start THEN Fail(start)
       ELSE IF dot - start > IntegerDigits THEN Fail(start + IntegerDigits)
       ELSE IF At(s, dot) # "." THEN Done(Bare("INTEGER", "", sign * int), dot)
       ELSE IF dot - start > DecimalDigits THEN Fail(dot)
       ELSE IF digits = 0 THEN Fail(dot + 1)
       ELSE IF digits > FractionDigits THEN Fail(dot + 1 + FractionDigits)
       ELSE Done(Bare("DECIMAL", "",
                      sign * (int * 10 ^ FractionDigits + frac)), end)

ReadBareItem(s, p) ==
    LET c == At(s, p) IN
    CASE c \in Digit \cup {"-"}    -> ReadNumber(s, p)
      [] c = "\""                  -> ReadString(s, p)
      [] c = ":"                   -> ReadByteSequence(s, p)
      [] c = "?"                   -> ReadBoolean(s, p)
      [] c \in Alpha \cup {"*"}    -> ReadToken(s, p)
      [] OTHER                     -> Fail(p)

-----------------------------------------------------------------------------
(* Parameters, items, inner lists and dictionaries. *)

\* Faulty variant of Put: the first value of a repeated key stays.
PutFirst(list, entry) ==
    IF \E i \in DOMAIN list : list[i].key = entry.key THEN list
    ELSE Append(list, entry)

\* A repeated key overwrites the value where the key first stood.
Put(list, entry) ==
    IF \E i \in DOMAIN list : list[i].key = entry.key
    THEN [i \in DOMAIN list |-> IF list[i].key = entry.key THEN entry ELSE list[i]]
    ELSE Append(list, entry)

Merged(occurrences) == FoldLeft(Put, <<>>, occurrences)

\* What a loop from p on has read, unless more than max different keys.
Collected(read, p, max) ==
    IF read.rc # "OK" THEN read
    ELSE IF Len(Merged(read.val)) > max THEN Fail(p)
    ELSE Done([entries |-> Merged(read.val),
               duplicate_keys |-> Len(Merged(read.val)) # Len(read.val)],
              read.pos)

\* A key and the value that follows it.
Entry(key, value) ==
    IF key.rc # "OK" THEN key
    ELSE IF value.rc # "OK" THEN value
    ELSE Done([key |-> key.val, value |-> value.val], value.pos)

\* p is at the semicolon.
ReadParameter(s, p) ==
    LET key == ReadKey(s, EndOf(s, p + 1, {" "}))
    IN Entry(key, IF At(s, key.pos) = "=" THEN ReadBareItem(s, key.pos + 1)
                  ELSE Done(True, key.pos))

RECURSIVE ParametersFrom(_, _)

\* The parameters, of which read has been read.
ParametersFrom(s, read) ==
    IF read.rc # "OK" \/ At(s, read.pos) # ";" THEN read
    ELSE ParametersFrom(s, Also(read, ReadParameter(s, read.pos)))

ReadParameters(s, p) ==
    Collected(ParametersFrom(s, Done(<<>>, p)), p, MaxParams)

\* A member: an Item (whose items are unused) or an Inner List (whose bare
\* item is).
Item(bare, params) ==
    [type |-> "ITEM", bare |-> bare, items |-> <<>>, params |-> params]
InnerList(items, params) ==
    [type |-> "INNER_LIST", bare |-> True, items |-> items, params |-> params]

\* The bare item and its parameters are an item.
WithParams(bare, params) ==
    IF bare.rc # "OK" THEN bare
    ELSE IF params.rc # "OK" THEN params
    ELSE Done(Item(bare.val, params.val.entries), params.pos)

ReadItemParameters(s, bare) == WithParams(bare, ReadParameters(s, bare.pos))

ReadItem(s, p) == ReadItemParameters(s, ReadBareItem(s, p))

\* After an item of an inner list come spaces or the end.
NextItem(s, item) ==
    IF item.rc # "OK" THEN item
    ELSE IF At(s, item.pos) \notin {")", " "} THEN Fail(item.pos)
    ELSE [item EXCEPT !.pos = EndOf(s, @, {" "})]

RECURSIVE ItemsFrom(_, _)

\* The items of an inner list, of which read has been read.
ItemsFrom(s, read) ==
    IF read.rc # "OK" THEN read
    ELSE IF At(s, read.pos) = ")" THEN Done(read.val, read.pos + 1)
    ELSE IF read.pos > Len(s) THEN Fail(read.pos)
    ELSE ItemsFrom(s, Also(read, NextItem(s, ReadItem(s, read.pos))))

\* The items of a list that began at p and its parameters are the list.
ListWithParams(items, params, p) ==
    IF items.rc # "OK" THEN items
    ELSE IF Len(items.val) > MaxItems THEN Fail(p)
    ELSE IF params.rc # "OK" THEN params
    ELSE Done(InnerList(items.val, params.val.entries), params.pos)

ReadListParameters(s, items, p) ==
    ListWithParams(items, ReadParameters(s, items.pos), p)

\* p is at the opening parenthesis.
ReadInnerList(s, p) ==
    ReadListParameters(s, ItemsFrom(s, Done(<<>>, EndOf(s, p + 1, {" "}))), p)

ReadMember(s, p) ==
    IF At(s, p) = "(" THEN ReadInnerList(s, p) ELSE ReadItem(s, p)

ReadEntry(s, p) ==
    LET key == ReadKey(s, p)
    IN Entry(key, IF At(s, key.pos) = "=" THEN ReadMember(s, key.pos + 1)
                  ELSE ReadItemParameters(s, Done(True, key.pos)))

\* After an entry of a dictionary come a comma and the next, or the end.
NextEntry(s, entry) ==
    LET comma == EndOf(s, entry.pos, OWS)
        next  == EndOf(s, comma + 1, OWS)
    IN IF entry.rc # "OK" THEN entry
       ELSE IF comma > Len(s) THEN [entry EXCEPT !.pos = comma]
       ELSE IF At(s, comma) # "," THEN Fail(comma)
       ELSE IF next > Len(s) THEN Fail(next)
       ELSE [entry EXCEPT !.pos = next]

RECURSIVE EntriesFrom(_, _)

\* The entries of a dictionary, of which read has been read.
EntriesFrom(s, read) ==
    IF read.rc # "OK" \/ read.pos > Len(s) THEN read
    ELSE EntriesFrom(s, Also(read, NextEntry(s, ReadEntry(s, read.pos))))

ReadDictionary(s, p) == Collected(EntriesFrom(s, Done(<<>>, p)), p, MaxItems)

\* parse_begin(): where reading begins.
ParseBegin(s) == EndOf(s, 1, {" "})

\* parse_end(): what was read is all there is.  The limit on the length, which
\* parse_begin() tests, comes first.
ParseEnd(s, read) ==
    LET end == EndOf(s, read.pos, {" "})
    IN IF Len(s) > MaxLength THEN Fail(1)
       ELSE IF read.rc # "OK" THEN read
       ELSE IF end <= Len(s) THEN Fail(end)
       ELSE read

ParseDictionary(s) == ParseEnd(s, ReadDictionary(s, ParseBegin(s)))
ParseItem(s) == ParseEnd(s, ReadItem(s, ParseBegin(s)))

\* dict_get() and param_get(): whether list has key, and its value.
HasKey(list, key) == \E i \in DOMAIN list : list[i].key = key
Get(list, key) ==
    list[CHOOSE i \in DOMAIN list : list[i].key = key].value

-----------------------------------------------------------------------------
(* Writers. *)

Abs(n) == IF n < 0 THEN -n ELSE n
Sign(n) == IF n < 0 THEN "-" ELSE ""

WriteInteger(n) ==
    LET digits[m \in Nat] ==
            IF m < 10 THEN Chr[48 + m]
            ELSE digits[m \div 10] \o Chr[48 + (m % 10)]
    IN Sign(n) \o digits[Abs(n)]

\* Faulty variant of WriteDecimal: leading zeros of the fraction are lost.
WriteDecimalShort(n) ==
    Sign(n) \o WriteInteger(Abs(n) \div 10 ^ FractionDigits) \o "."
        \o WriteInteger(Abs(n) % 10 ^ FractionDigits)

\* Without trailing zeros in the fraction, but at least one digit.
WriteDecimal(n) ==
    LET digit == [i \in 1 .. FractionDigits |->
                     (Abs(n) \div 10 ^ (FractionDigits - i)) % 10]
        last  == Max({1} \cup {i \in DOMAIN digit : digit[i] # 0})
    IN Sign(n) \o WriteInteger(Abs(n) \div 10 ^ FractionDigits) \o "."
           \o Concat([i \in 1 .. last |-> Chr[48 + digit[i]]])

WriteString(value) ==
    "\"" \o Concat([i \in 1 .. Len(value) |->
                       IF At(value, i) \in {"\"", "\\"} THEN "\\" \o At(value, i)
                       ELSE At(value, i)]) \o "\""

\* ngx_encode_base64() pads to a multiple of four digits.
WriteByteSequence(value) ==
    ":" \o value \o SubSeq("===", 1, (4 - (Len(value) % 4)) % 4) \o ":"

WriteBareItem(bare) ==
    CASE bare.type = "INTEGER"       -> WriteInteger(bare.integer)
      [] bare.type = "DECIMAL"       -> WriteDecimal(bare.integer)
      [] bare.type = "STRING"        -> WriteString(bare.value)
      [] bare.type = "TOKEN"         -> bare.value
      [] bare.type = "BYTE_SEQUENCE" -> WriteByteSequence(bare.value)
      [] bare.type = "BOOLEAN"       -> IF bare.integer = 1 THEN "?1" ELSE "?0"

WriteParams(params) ==
    Concat([i \in DOMAIN params |->
               ";" \o params[i].key
                   \o IF params[i].value = True THEN ""
                      ELSE "=" \o WriteBareItem(params[i].value)])

WriteItem(item) == WriteBareItem(item.bare) \o WriteParams(item.params)

WriteInnerList(list) ==
    "(" \o Join([i \in DOMAIN list.items |-> WriteItem(list.items[i])], " ")
        \o ")" \o WriteParams(list.params)

\* serialize_item() or serialize_inner_list()
Serialize(member) ==
    IF member.type = "INNER_LIST" THEN WriteInnerList(member)
    ELSE WriteItem(member)
=============================================================================

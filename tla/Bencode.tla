------------------------------ MODULE Bencode ------------------------------
(***************************************************************************)
(* The bencode parser (parser.c): parse_value builds the tree of a         *)
(* .torrent file; skip_value goes over a value without building it, for    *)
(* get_info_value_offset, which finds the bytes the info hash is made of.  *)
(*                                                                         *)
(* A text is a sequence of tokens: the letters of the grammar, digits, the *)
(* colon, and words such as "info", each of which counts as one byte.      *)
(* Cursors count from 1; "at" is where the data of a string lies in the     *)
(* buffer, for the tree points there.  Signs and blanks before a number,    *)
(* which strtol takes too, are left out.                                    *)
(***************************************************************************)
EXTENDS Integers, Sequences

DigitOrder == <<"0", "1", "2", "3", "4", "5", "6", "7", "8", "9">>
Digit == [d \in {DigitOrder[k] : k \in 1 .. 10} |-> (CHOOSE k \in 1 .. 10 : DigitOrder[k] = d) - 1]

IsAt(text, c, token) == c <= Len(text) /\ text[c] = token
DigitAt(text, c) == c <= Len(text) /\ text[c] \in DOMAIN Digit

(* What a function returns: a value, NULL, or nothing defined since it has  *)
(* read behind the end of the buffer.  "bare": a key on the way had no      *)
(* digits before its colon.  "lax": some string or number was not written   *)
(* as bencode demands.  "missing": tokens that the text lacks at least.     *)
Value(v, c, bare, lax) == [outcome |-> "value", value |-> v, cursor |-> c, bare |-> bare, lax |-> lax]
Null == [outcome |-> "null"]
Past(n) == [outcome |-> "past", missing |-> n]

-----------------------------------------------------------------------------
(* strtol: the digits at the cursor, none of which is 0 too.               *)
RECURSIVE strtol(_, _, _)
strtol(text, c, n) ==
    IF DigitAt(text, c) THEN strtol(text, c + 1, 10 * n + Digit[text[c]])
    ELSE [number |-> n, end |-> c]

(* Digits are missing, or superfluous.                                     *)
LaxDigits(text, c, end) == end = c \/ (text[c] = "0" /\ end > c + 1)

(* parse_raw_string.  Whatever follows the digits is taken for the colon.  *)
(* Data that goes past the end is read by the caller, not here.             *)
parse_raw_string(text, c) ==
    LET n == strtol(text, c, 0) IN
    IF n.end + n.number > Len(text) THEN Past(n.end + n.number - Len(text))
    ELSE Value(SubSeq(text, n.end + 1, n.end + n.number), n.end + n.number + 1,
               n.end = c, LaxDigits(text, c, n.end) \/ text[n.end] # ":")

parse_string(text, c) ==
    LET s == parse_raw_string(text, c) IN
    IF s.outcome = "past" THEN s
    ELSE Value([type |-> "string", string |-> s.value, at |-> s.cursor - Len(s.value)],
               s.cursor, FALSE, s.lax)

parse_num(text, c) ==
    LET n == strtol(text, c + 1, 0) IN
    IF n.end > Len(text) THEN Past(1)
    ELSE IF text[n.end] # "e" THEN Null
    ELSE Value([type |-> "number", number |-> n.number], n.end + 1,
               FALSE, LaxDigits(text, c + 1, n.end))

RECURSIVE parse_value(_, _), parse_items(_, _, _, _, _), parse_pairs(_, _, _, _, _)

(* What comes of a list or dictionary when a part of it gave r, which is no *)
(* value: n more tokens are missing than r lacks.                          *)
Broken(r, n) == IF r.outcome = "past" THEN Past(r.missing + n) ELSE Null

(* The loop of parse_list, with the items so far.                          *)
parse_items(text, c, items, bare, lax) ==
    IF c > Len(text) THEN Past(1)
    ELSE IF text[c] = "e"
         THEN Value([type |-> "list", list |-> items], c + 1, bare, lax)
    ELSE LET v == parse_value(text, c) IN
         IF v.outcome # "value" THEN Broken(v, 1)
         ELSE parse_items(text, v.cursor, Append(items, v.value), bare \/ v.bare, lax \/ v.lax)

(* The loop of parse_dict, with the pairs so far.                          *)
parse_pairs(text, c, pairs, bare, lax) ==
    IF c > Len(text) THEN Past(1)
    ELSE IF text[c] = "e"
         THEN Value([type |-> "dict", dict |-> pairs], c + 1, bare, lax)
    ELSE LET k == parse_raw_string(text, c) IN
         IF k.outcome = "past" THEN Broken(k, 3)
         ELSE LET v == parse_value(text, k.cursor) IN
              IF v.outcome # "value" THEN Broken(v, 1)
              ELSE parse_pairs(text, v.cursor, Append(pairs, [key |-> k.value, value |-> v.value]),
                               bare \/ k.bare \/ v.bare, lax \/ k.lax \/ v.lax)

parse_value(text, c) ==
    IF c > Len(text) THEN Past(2)
    ELSE CASE text[c] = "i" -> parse_num(text, c)
           [] text[c] = "l" -> parse_items(text, c + 1, <<>>, FALSE, FALSE)
           [] text[c] = "d" -> parse_pairs(text, c + 1, <<>>, FALSE, FALSE)
           [] text[c] \in DOMAIN Digit -> parse_string(text, c)
           [] OTHER -> Null

(* What CMD_add calls: the file has to be a dictionary.                     *)
parse_dict(text) ==
    IF text = <<>> THEN Past(2)
    ELSE IF text[1] # "d" THEN Null
    ELSE parse_pairs(text, 2, <<>>, FALSE, FALSE)

-----------------------------------------------------------------------------
(* skip_value: the cursor behind the value, or "past", or "hang": inside a  *)
(* list or dictionary a token no case fits is asked for again and again.    *)
Skipped(c) == [outcome |-> "skipped", cursor |-> c]
SkipPast == [outcome |-> "past", cursor |-> 0]
SkipHangs == [outcome |-> "hang", cursor |-> 0]

RECURSIVE skip_to_e(_, _)
skip_to_e(text, c) ==
    IF c > Len(text) THEN SkipPast
    ELSE IF text[c] = "e" THEN Skipped(c + 1)
    ELSE skip_to_e(text, c + 1)

(* Definitions named X_... are the mistakes the properties are tried on; no *)
(* action uses them.  Here: the number's digits only.                       *)
skip_number_digits(text, c) == Skipped(strtol(text, c + 1, 0).end)

skip_number(text, c) == skip_to_e(text, c + 1)

RECURSIVE skip_value(_, _), skip_items(_, _)

skip_items(text, c) ==
    IF c > Len(text) THEN SkipPast
    ELSE IF text[c] = "e" THEN Skipped(c + 1)
    ELSE LET v == skip_value(text, c) IN
         IF v.outcome # "skipped" THEN v
         ELSE IF v.cursor = c THEN SkipHangs
         ELSE skip_items(text, v.cursor)

skip_value(text, c) ==
    IF c > Len(text) THEN SkipPast
    ELSE CASE text[c] \in {"d", "l"} -> skip_items(text, c + 1)
           [] text[c] = "i" -> skip_number(text, c)
           [] text[c] \in DOMAIN Digit ->
                  LET s == parse_raw_string(text, c) IN
                  IF s.outcome = "past" THEN SkipPast ELSE Skipped(s.cursor)
           [] OTHER -> Skipped(c)

(* The key has the length of "info" and is equal to it.                     *)
IsInfo(key) == key = <<"info">>

(* get_info_value_offset: begining and end of the info value, which it      *)
(* leaves unset when there is no such key.                                 *)
RECURSIVE info_offset_from(_, _)
info_offset_from(text, c) ==
    IF c > Len(text) THEN [outcome |-> "past"]
    ELSE IF text[c] = "e" THEN [outcome |-> "unset"]
    ELSE LET k == parse_raw_string(text, c) IN
         IF k.outcome = "past" THEN [outcome |-> "past"]
         ELSE LET v == skip_value(text, k.cursor) IN
              IF v.outcome # "skipped" THEN [outcome |-> v.outcome]
              ELSE IF IsInfo(k.value)
                   THEN [outcome |-> "set", begining |-> k.cursor, end |-> v.cursor]
              ELSE IF v.cursor = c THEN [outcome |-> "hang"]
              ELSE info_offset_from(text, v.cursor)

get_info_value_offset(text) == info_offset_from(text, 2)

(* get_BEN_value_by_key: the first pair with the key.                      *)
HasKey(pairs, key) == \E j \in DOMAIN pairs : pairs[j].key = key

get_BEN_value_by_key(pairs, key) ==
    LET j == CHOOSE j \in DOMAIN pairs :
                 pairs[j].key = key /\ \A k \in 1 .. j - 1 : pairs[k].key # key
    IN pairs[j].value

-----------------------------------------------------------------------------
(* Bencode as it is defined: the text of a value.                          *)
RECURSIVE Digits(_)
Digits(n) ==
    IF n < 10 THEN <<DigitOrder[n + 1]>> ELSE Append(Digits(n \div 10), DigitOrder[(n % 10) + 1])

EncodeString(data) == Digits(Len(data)) \o <<":">> \o data

RECURSIVE Encode(_), EncodeItems(_), EncodePairs(_)
EncodeItems(items) ==
    IF items = <<>> THEN <<>> ELSE Encode(Head(items)) \o EncodeItems(Tail(items))
EncodePairs(pairs) ==
    IF pairs = <<>> THEN <<>>
    ELSE EncodeString(Head(pairs).key) \o Encode(Head(pairs).value) \o EncodePairs(Tail(pairs))
Encode(v) ==
    CASE v.type = "string" -> EncodeString(v.string)
      [] v.type = "number" -> <<"i">> \o Digits(v.number) \o <<"e">>
      [] v.type = "list" -> <<"l">> \o EncodeItems(v.list) \o <<"e">>
      [] v.type = "dict" -> <<"d">> \o EncodePairs(v.dict) \o <<"e">>

-----------------------------------------------------------------------------
(* Properties of a text and what parse_dict makes of it                    *)

(* The tree of a file that is accepted is the value the file encodes,       *)
(* unless the file has a string or a number that is not written as bencode  *)
(* demands.                                                                 *)
TreeIsEncoded(text, dict) ==
    dict.outcome = "value" /\ ~dict.lax => Encode(dict.value) = text

(* skip_value ends where the parser ended, so that the two agree on where   *)
(* each value lies, and does end; only a key without digits tells them     *)
(* apart, on which skip_value may go on for ever.                          *)
SkipsWhatIsParsed(text, dict) ==
    dict.outcome = "value" /\ ~dict.bare => skip_value(text, 1) = Skipped(dict.cursor)

(* The bytes that are hashed are those of the value that the torrent is     *)
(* made from.                                                               *)
HashedIsParsed(text, dict) ==
    dict.outcome = "value" /\ ~dict.bare =>
        LET offsets == get_info_value_offset(text) IN
        IF HasKey(dict.value.dict, <<"info">>)
        THEN /\ offsets.outcome = "set"
             /\ LET info == parse_value(text, offsets.begining) IN
                   /\ info.outcome = "value" /\ info.cursor = offsets.end
                   /\ info.value = get_BEN_value_by_key(dict.value.dict, <<"info">>)
        ELSE offsets.outcome = "unset"

=============================================================================

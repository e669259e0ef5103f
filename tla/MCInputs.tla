------------------------------ MODULE MCInputs ------------------------------
(***************************************************************************)
(* The sequential parts of the program on bounded inputs: those of Inputs, *)
(* a text that grows by a token as long as it may become a dictionary, a   *)
(* .torrent file, and an arena after some calls.                           *)
(***************************************************************************)
EXTENDS Inputs, Metainfo, Arena

CONSTANT MaxLen   \* tokens of a text

VARIABLE dict     \* what parse_dict makes of a text

inputs == <<kind, input, dict>>
MCVars == <<inputs, arena_vars>>

(* Directories of torrents, the second below another.                       *)
Folders == {<<"x">>, <<"/", "x", "/", "_">>}

Alphabet == {"d", "l", "i", "e", "0", "1", ":", "info"}

-----------------------------------------------------------------------------
(* The .torrent files                                                      *)
String(data) == [type |-> "string", string |-> data]
Number(n) == [type |-> "number", number |-> n]
List(items) == [type |-> "list", list |-> items]
Dict(pairs) == [type |-> "dict", dict |-> pairs]
Pair(key, value) == <<[key |-> <<key>>, value |-> value]>>

(* A key is there with one of the values, or is not.                       *)
Maybe(key, values) == {<<>>} \cup {Pair(key, v) : v \in values}

Strings(data) == List([k \in DOMAIN data |-> String(data[k])])

NamesOfFiles == {<<>>, <<"x">>, <<"?">>, <<" ", "x", ".">>, <<".", "/">>, <<".", ".">>}

Files == {Dict(l \o p) : l \in Maybe("length", {Number(12)}),
                         p \in Maybe("path", {Strings(<<n, <<"x">>>>) : n \in NamesOfFiles})}
FileLists == {List(<<>>)} \cup {List(<<f>>) : f \in Files}
             \cup {List(<<f, g>>) : f, g \in {h \in Files : Len(h.dict) = 2}}

Info(files, name, n) ==
    files \o Pair("name", String(name)) \o Pair("piece length", Number(4))
          \o Pair("pieces", String([k \in 1 .. n |-> "0"]))

(* An info dictionary with a pair left out, or with all of them.           *)
Infos ==
    LET whole == {Info(f \o l, n, 11) : f \in Maybe("files", FileLists),
                                        l \in Maybe("length", {Number(7)}),
                                        n \in NamesOfFiles}
        missing == {RemoveAt(w, k) : w \in {Info(<<>>, <<"x">>, 1)}, k \in 1 .. 3}
    IN {Dict(w) : w \in whole \cup missing}

AnnounceKeys ==
    {a \o l : a \in Maybe("announce", {String(<<"a">>)}),
              l \in Maybe("announce-list", {List(<<>>), List(<<Strings(<<<<"a">>>>)>>)})}
OneAnnounce == Pair("announce", String(<<"a">>))
OneInfo == Pair("info", Dict(Info(Pair("length", Number(7)), <<"x", "?">>, 1)))

Torrents ==
    {Encode(Dict(keys)) :
        keys \in {OneAnnounce \o Pair("info", i) : i \in Infos}
             \cup {a \o OneInfo : a \in AnnounceKeys}
             \cup AnnounceKeys}

-----------------------------------------------------------------------------
MCInit ==
    /\ arena_create
    /\ \/ Init
       \/ kind \in {"text", "arena"} /\ input = <<>>
       \/ kind = "torrent" /\ input \in Torrents
    /\ dict = parse_dict(IF kind = "text" THEN input ELSE <<>>)

(* One more token, if the text is the beginning of a dictionary and may be  *)
(* the whole of one before it is too long.                                 *)
AddToken ==
    /\ kind = "text" /\ dict.outcome = "past"
    /\ \E token \in Alphabet : input' = Append(input, token)
    /\ dict' = parse_dict(input')
    /\ \/ dict'.outcome = "value"
       \/ dict'.outcome = "past" /\ Len(input') + dict'.missing <= MaxLen
    /\ UNCHANGED <<kind, arena_vars>>

Push ==
    /\ kind = "arena"
    /\ ArenaNext
    /\ UNCHANGED inputs

MCNext ==
    \/ Next /\ UNCHANGED <<dict, arena_vars>>
    \/ AddToken
    \/ Push

MCSpec == MCInit /\ [][MCNext]_MCVars

-----------------------------------------------------------------------------
(* The tree that parse_dict builds of a text is the value the text encodes; *)
(* skip_value and parse_value agree on where each value of a text ends, and *)
(* get_info_value_offset finds the one that the torrent is made from.       *)
TextParsed ==
    kind = "text" =>
        /\ TreeIsEncoded(input, dict)
        /\ SkipsWhatIsParsed(input, dict)
        /\ HashedIsParsed(input, dict)

(* The info hash CMD_add works out is that of the file exactly when the      *)
(* parser has replaced no character of its names in the buffer before.      *)
HashOfTheFile == kind = "torrent" => HashIsOfTheFile(input)

=============================================================================

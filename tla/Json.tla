-------------------------------- MODULE Json --------------------------------
(***************************************************************************)
(* json.c, which reads the configuration file: json_parse_ex runs the same *)
(* character loop twice.  The first pass creates a value for every value   *)
(* of the text and counts its children and bytes; the second takes those   *)
(* values again in order, allocates what was counted and fills it.         *)
(*                                                                         *)
(* A character is a string: "x" is any plain one, "t" a literal word, "1"  *)
(* a digit other than 0, and "u1", "u2", "u3" the letter u with four hex   *)
(* digits of a code point of that many UTF-8 bytes.  "" is the end of the  *)
(* text.  The text is chosen while the first pass reads it.  Comments are  *)
(* off (json_settings is zero in every caller).                            *)
(***************************************************************************)
EXTENDS Integers, Sequences
LOCAL INSTANCE Functions
LOCAL INSTANCE FiniteSets

\* Records [head, chars, len, full]: how the text begins, the alphabet of the
\* rest, the longest text, and the longest one whose unread rest is chosen as
\* well when the parser rejects it.
CONSTANT Texts

VARIABLE js
jsonVars == <<js>>

\* names counts the bytes of an object's names; mem is object_mem.
Value(type, parent) ==
    [type |-> type, parent |-> parent, length |-> 0, names |-> 0, cap |-> 0,
     mem |-> 0, kids |-> <<>>, keys |-> <<>>, text |-> <<>>]

JsonInit ==
    \E t \in Texts :
        js = [from |-> t, input |-> t.head, whole |-> FALSE, i |-> 1, pass |-> 1, end |-> "",
              flags |-> {"seek_value"}, top |-> 0, root |-> 0, alloc |-> 0,
              vals |-> <<>>, slen |-> 0, str |-> <<>>, digits |-> 0,
              over |-> FALSE, left |-> 0, short |-> FALSE]

Top(s) == s.vals[s.top]
Flags(s, on, off) == [s EXCEPT !.flags = (@ \ off) \union on]
Advance(s) == [s EXCEPT !.i = @ + 1]

\* What json_value_free_ex reaches from a value: through values[], which
\* holds as many as length says.
RECURSIVE Linked(_, _)
Linked(s, v) ==
    {v} \union UNION {Linked(s, s.vals[v].kids[k]) : k \in DOMAIN s.vals[v].kids}

\* e_failed: the first pass frees the chain of values, the second what it
\* has not taken yet and what hangs from the root.
Fail(s) ==
    LET untaken == IF s.alloc = 0 THEN {} ELSE s.alloc..Len(s.vals)
        freed == IF s.pass = 1 THEN DOMAIN s.vals
                 ELSE untaken \union Linked(s, s.root)
    IN  [s EXCEPT !.end = "failed", !.flags = {}, !.str = <<>>,
                   !.left = Cardinality(DOMAIN s.vals \ freed)]

\* The second pass allocates for the counts of the first and counts again.
new_value(s, type) ==
    IF s.pass = 1
    THEN [s EXCEPT !.vals = Append(@, Value(type, s.top)), !.top = Len(s.vals) + 1,
                   !.root = IF @ = 0 THEN Len(s.vals) + 1 ELSE @]
    ELSE [s EXCEPT !.top = s.alloc, !.root = IF @ = 0 THEN s.alloc ELSE @,
                   !.alloc = IF @ = Len(s.vals) THEN 0 ELSE @ + 1,
                   !.vals[s.alloc].cap = s.vals[s.alloc].length,
                   !.vals[s.alloc].length = 0]

\* The bytes a character of a string becomes.
UtfBytes(b, escaped) ==
    IF b \notin {"u1", "u2", "u3"} THEN <<b>>
    ELSE IF ~escaped THEN <<"x", "x", "x", "x", "x">>
    ELSE CASE b = "u1" -> <<b>> [] b = "u2" -> <<b, b>> [] b = "u3" -> <<b, b, b>>

\* Whether n bytes at string (a string value, or the name after those
\* before it) lie outside what the first pass counted, the zero included.
Outside(s, n) ==
    /\ s.pass = 0
    /\ IF Top(s).type = "string" THEN n > Top(s).cap + 1
       ELSE Top(s).mem + n > Top(s).names

string_add(s, bytes) ==
    [s EXCEPT !.slen = @ + Len(bytes),
              !.over = @ \/ Outside(s, s.slen + Len(bytes)),
              !.str = IF s.pass = 0 THEN @ \o bytes ELSE @]

BeginString(s) == Flags([s EXCEPT !.slen = 0, !.str = <<>>], {"string"}, {})

NamesUncounted(s) ==   \* mutant: the zero after a name is not counted
    LET n == s.slen + 1
        t == [Flags(s, {"seek_value", "need_colon"}, {"string"})
                EXCEPT !.over = @ \/ Outside(s, n)]
    IN  IF s.pass = 1 THEN [t EXCEPT !.vals[s.top].names = @ + s.slen]
        ELSE [t EXCEPT !.vals[s.top].keys = Append(@, s.str),
                       !.vals[s.top].mem = @ + n,
                       !.over = @ \/ Top(s).length + 1 > Top(s).cap]

\* The closing quote of a name.
EndName(s) ==
    LET n == s.slen + 1
        t == [Flags(s, {"seek_value", "need_colon"}, {"string"})
                EXCEPT !.over = @ \/ Outside(s, n)]
    IN  IF s.pass = 1 THEN [t EXCEPT !.vals[s.top].names = @ + n]
        ELSE [t EXCEPT !.vals[s.top].keys = Append(@, s.str),
                       !.vals[s.top].mem = @ + n,
                       !.over = @ \/ Top(s).length + 1 > Top(s).cap]

EndString(s) ==
    Flags([s EXCEPT !.over = @ \/ Outside(s, s.slen + 1),
                    !.vals[s.top].length = s.slen, !.vals[s.top].text = s.str],
          {"next"}, {"string"})

\* The end of an iteration: reproc keeps the character, next closes the
\* value and hands it to its parent.
Close(s) ==
    LET p == Top(s).parent
        u == Flags(s, {"need_comma"}, {"next"})
        k == s.vals[p].length + 1
        linked == IF s.pass = 1 THEN u
                  ELSE [u EXCEPT !.vals[p].kids = Append(@, s.top),
                                 !.over = @ \/ k > s.vals[p].cap]
    IN  IF p = 0 THEN Flags(u, {"done"}, {})
        ELSE [Flags(linked, IF s.vals[p].type = "array" THEN {"seek_value"} ELSE {}, {})
                EXCEPT !.vals[p].length = k, !.top = p]

Loop(s) ==
    LET t == IF "reproc" \in s.flags THEN Flags(s, {}, {"reproc"}) ELSE Advance(s)
    IN  IF "next" \in s.flags THEN Close(t) ELSE t

InString(s, b) ==
    CASE b = "" -> Fail(s)
      [] b # "" /\ "escaped" \in s.flags ->
            Advance(Flags(string_add(s, UtfBytes(b, TRUE)), {}, {"escaped"}))
      [] "escaped" \notin s.flags /\ b = "\\" -> Advance(Flags(s, {"escaped"}, {}))
      [] "escaped" \notin s.flags /\ b = "\"" ->
            IF Top(s).type = "object" THEN Advance(EndName(s)) ELSE Loop(EndString(s))
      [] OTHER -> Advance(string_add(s, UtfBytes(b, FALSE)))

\* Behind the root value; the end of the text ends the pass.
AfterRoot(s, b) ==
    CASE b = " " -> Advance(s)
      [] b = "" /\ s.pass = 1 ->
            [s EXCEPT !.pass = 0, !.i = 1, !.alloc = s.root, !.top = 0, !.root = 0,
                      !.flags = {"seek_value"}, !.slen = 0]
      [] b = "" /\ s.pass = 0 -> [s EXCEPT !.pass = -1, !.end = "parsed"]
      [] OTHER -> Fail(s)

Digits == {"0", "1"}
NumberChars == Digits \union {"+", "-", "e", "."}

\* The second pass skips the number, which the first has converted.
SkipNumber(s) ==
    LET past == CHOOSE j \in s.i..(Len(s.input) + 1) :
                    /\ \A k \in s.i..(j - 1) : s.input[k] \in NumberChars
                    /\ j = Len(s.input) + 1 \/ s.input[j] \notin NumberChars
    IN  Flags([s EXCEPT !.i = past], {"next", "reproc"}, {})

BeginNumber(s, b) ==
    LET t == new_value(s, "integer")
        u == [Flags(t, {}, {"num_e", "num_e_got_sign", "num_zero"}) EXCEPT !.digits = 0]
    IN  IF s.pass = 0 THEN Loop(SkipNumber(t))
        ELSE IF b # "-" THEN Loop(Flags(u, {"reproc"}, {}))
        ELSE Advance([u EXCEPT !.vals[u.top].text = <<b>>])

SeekValue(s, b) ==
    LET t == Flags(s, {}, {"seek_value"}) IN
    CASE b = " " -> Advance(s)
      [] b = "]" -> IF s.top = 0 THEN [s EXCEPT !.end = "undefined"]  \* top->type of no value
                    ELSE IF Top(s).type # "array" THEN Fail(s)
                    ELSE Loop(Flags(s, {"next"}, {"need_comma", "seek_value"}))
      [] b \notin {" ", "]"} /\ "need_comma" \in s.flags ->
            IF b = "," THEN Advance(Flags(s, {}, {"need_comma"})) ELSE Fail(s)
      [] b \notin {" ", "]"} /\ "need_comma" \notin s.flags /\ "need_colon" \in s.flags ->
            IF b = ":" THEN Advance(Flags(s, {}, {"need_colon"})) ELSE Fail(s)
      [] OTHER ->
            CASE b = "{" -> Advance(new_value(t, "object"))
              [] b = "[" -> Advance(Flags(new_value(t, "array"), {"seek_value"}, {}))
              [] b = "\"" -> Advance(BeginString(new_value(t, "string")))
              [] b = "t" -> Loop(Flags(new_value(t, "literal"), {"next"}, {}))
              [] b \in Digits \union {"-"} -> BeginNumber(t, b)
              [] OTHER -> Fail(t)

InObject(s, b) ==
    CASE b = " " -> Advance(s)
      [] b = "\"" /\ "need_comma" \notin s.flags -> Advance(BeginString(s))
      [] b = "}" -> Loop(Flags(s, {"next"}, {"need_comma"}))
      [] b = "," /\ "need_comma" \in s.flags -> Advance(Flags(s, {}, {"need_comma"}))
      [] OTHER -> Fail(s)

\* First pass only.  text keeps the characters the value is computed from.
InNumber(s, b) ==
    LET keep == [s EXCEPT !.vals[s.top].text = Append(@, b)]
        exp == "num_e" \in s.flags
        int == Top(s).type = "integer"
        more == IF s.digits < 2 THEN s.digits + 1 ELSE 2
    IN  CASE b \in Digits /\ exp ->
                Advance([Flags(keep, {"num_e_got_sign"}, {}) EXCEPT !.digits = more])
          [] b \in Digits /\ ~exp /\ int ->
                IF "num_zero" \in s.flags THEN Fail(s)
                ELSE Advance([Flags(keep, IF more = 1 /\ b = "0" THEN {"num_zero"} ELSE {}, {})
                                EXCEPT !.digits = more])
          [] b \in Digits /\ ~exp /\ ~int -> Advance([keep EXCEPT !.digits = more])
          [] b \in {"+", "-"} /\ exp /\ "num_e_got_sign" \notin s.flags ->
                Advance(Flags(keep, {"num_e_got_sign"}, {}))
          [] b = "." /\ int ->
                IF s.digits = 0 THEN Fail(s)
                ELSE Advance([keep EXCEPT !.vals[s.top].type = "double", !.digits = 0])
          [] OTHER ->
                IF s.digits = 0 /\ (exp \/ ~int) THEN Fail(s)
                ELSE IF b = "e" /\ ~exp
                THEN Advance([Flags(keep, {"num_e"}, {"num_zero"})
                                EXCEPT !.vals[s.top].type = "double", !.digits = 0])
                ELSE Loop(Flags(s, {"next", "reproc"}, {}))

json_parse_ex(s, b) ==
    CASE "string" \in s.flags -> InString(s, b)
      [] "string" \notin s.flags /\ "done" \in s.flags -> AfterRoot(s, b)
      [] s.flags \intersect {"string", "done"} = {} /\ "seek_value" \in s.flags ->
            SeekValue(s, b)
      [] OTHER -> IF Top(s).type = "object" THEN InObject(s, b) ELSE InNumber(s, b)

-----------------------------------------------------------------------------
\* The first pass, with the next character of the text or its end.
FirstPass(b) ==
    /\ js.end = "" /\ js.pass = 1
    /\ IF js.i <= Len(js.input) THEN b = js.input[js.i]
       ELSE b = "" \/ (b \in js.from.chars /\ ~js.whole /\ Len(js.input) < js.from.len)
    /\ js' = json_parse_ex(
                IF js.i <= Len(js.input) THEN js
                ELSE IF b = "" THEN [js EXCEPT !.whole = TRUE]
                ELSE [js EXCEPT !.input = Append(@, b)], b)

SecondPass ==
    /\ js.end = "" /\ js.pass = 0
    /\ js' = json_parse_ex(js, IF js.i <= Len(js.input) THEN js.input[js.i] ELSE "")

\* json_alloc returns no memory for a value the character begins.
AllocFails(b) ==
    /\ js.end = "" /\ js.pass = 1 /\ ~js.whole
    /\ js.i > Len(js.input) /\ Len(js.input) < js.from.len
    /\ b \in js.from.chars /\ Len(json_parse_ex(js, b).vals) > Len(js.vals)
    /\ js' = [Fail(js) EXCEPT !.short = TRUE]

\* The rest of a text the parser has rejected.
Unread(b) ==
    /\ js.end = "failed" /\ ~js.short
    /\ ~js.whole /\ Len(js.input) < js.from.full
    /\ js' = [js EXCEPT !.input = Append(@, b)]

JsonNext ==
    \/ \E b \in js.from.chars \union {""} \union Range(js.from.head) : FirstPass(b)
    \/ SecondPass
    \/ \E b \in js.from.chars : AllocFails(b) \/ Unread(b)

-----------------------------------------------------------------------------
(***************************************************************************)
(* The language the parser reads, by its grammar.  A comma may follow the  *)
(* last element, and the digits of an integer part may be missing after a  *)
(* minus.                                                                  *)
(***************************************************************************)
CharAt(w, i) == IF i <= Len(w) THEN w[i] ELSE ""
Skip(w, i) == CHOOSE j \in i..(Len(w) + 1) :
    CharAt(w, j) # " " /\ \A k \in i..(j - 1) : w[k] = " "
AllDigits(w) == w # <<>> /\ \A k \in DOMAIN w : w[k] \in Digits

IsNumber(w) ==
    \E m \in 0..1, a \in 0..Len(w) : \E c \in a..Len(w) : m <= a /\
        LET int == SubSeq(w, m + 1, a)
            frac == SubSeq(w, a + 1, c)
            exp == SubSeq(w, c + 1, Len(w))
        IN  /\ m = 1 => w[1] = "-"
            /\ int = <<>> \/ (AllDigits(int) /\ (int[1] = "0" => Len(int) = 1))
            /\ int = <<>> => (m = 1 /\ frac = <<>>)
            /\ frac = <<>> \/ (frac[1] = "." /\ AllDigits(Tail(frac)))
            /\ \/ exp = <<>>
               \/ /\ exp[1] = "e"
                  /\ \/ AllDigits(Tail(exp))
                     \/ Len(exp) > 2 /\ exp[2] \in {"+", "-"} /\ AllDigits(Tail(Tail(exp)))

No == [ok |-> FALSE, i |-> 0, tree |-> <<>>]
Tree(type, x, y) == <<type, x, y>>

RECURSIVE Quoted(_, _, _), Element(_, _), Elements(_, _, _, _, _)
\* The bytes of a string whose opening quote is before i.
Quoted(w, i, bytes) ==
    CASE CharAt(w, i) = "" -> No
      [] CharAt(w, i) = "\"" -> [ok |-> TRUE, i |-> i + 1, tree |-> bytes]
      [] CharAt(w, i) = "\\" -> IF CharAt(w, i + 1) = "" THEN No
                            ELSE Quoted(w, i + 2, bytes \o UtfBytes(CharAt(w, i + 1), TRUE))
      [] OTHER -> Quoted(w, i + 1, bytes \o UtfBytes(CharAt(w, i), FALSE))

Element(w, i) ==
    LET b == CharAt(w, i)
        q == Quoted(w, i + 1, <<>>)
        ends == {j \in i..Len(w) : IsNumber(SubSeq(w, i, j))}
        last == CHOOSE j \in ends : \A k \in ends : k <= j
    IN  CASE b = "[" -> Elements(w, Skip(w, i + 1), "]", <<>>, <<>>)
          [] b = "{" -> Elements(w, Skip(w, i + 1), "}", <<>>, <<>>)
          [] b = "\"" -> IF q.ok THEN [q EXCEPT !.tree = Tree("string", q.tree, <<>>)] ELSE No
          [] b = "t" -> [ok |-> TRUE, i |-> i + 1, tree |-> Tree("literal", <<>>, <<>>)]
          [] OTHER -> IF ends = {} THEN No
                      ELSE [ok |-> TRUE, i |-> last + 1,
                            tree |-> Tree("number", SubSeq(w, i, last), <<>>)]

\* The elements of an array, or the members of an object, up to the closer.
Elements(w, i, closer, keys, kids) ==
    LET name == Quoted(w, i + 1, <<>>)
        colon == Skip(w, name.i)
        isObject == closer = "}"
        named == isObject => (CharAt(w, i) = "\"" /\ name.ok /\ CharAt(w, colon) = ":")
        e == Element(w, IF isObject THEN Skip(w, colon + 1) ELSE i)
        after == Skip(w, e.i)
        more(j) == Elements(w, j, closer,
                            IF isObject THEN Append(keys, name.tree) ELSE keys,
                            Append(kids, e.tree))
    IN  IF CharAt(w, i) = closer
        THEN [ok |-> TRUE, i |-> i + 1,
              tree |-> Tree(IF isObject THEN "object" ELSE "array", keys, kids)]
        ELSE IF ~named THEN No
        ELSE IF ~e.ok THEN No
        ELSE IF CharAt(w, after) = "," THEN more(Skip(w, after + 1))
        ELSE IF CharAt(w, after) = closer THEN more(after)
        ELSE No

Grammar(w) ==
    LET e == Element(w, Skip(w, 1)) IN
    IF e.ok /\ Skip(w, e.i) = Len(w) + 1 THEN e ELSE No

\* The tree the parser has built below a value.
RECURSIVE Built(_, _)
Built(s, v) ==
    LET n == s.vals[v] IN
    CASE n.type \in {"array", "object"} ->
            Tree(n.type, n.keys, [k \in DOMAIN n.kids |-> Built(s, n.kids[k])])
      [] n.type \in {"integer", "double"} -> Tree("number", n.text, <<>>)
      [] OTHER -> Tree(n.type, n.text, <<>>)

\* The two passes agree on every text: the second writes only inside what
\* the first counted and never fails; the text is accepted exactly when it
\* is in the language, with the tree of the grammar, every value linked once
\* (json_value_free finds all); and a rejected text leaves nothing allocated.
JsonExact ==
    /\ ~js.over
    /\ js.end = "failed" =>
        js.left = 0 /\ js.pass = 1 /\ (js.short \/ ~Grammar(js.input).ok)
    /\ js.end = "parsed" =>
        /\ Grammar(js.input).ok /\ Built(js, js.root) = Grammar(js.input).tree
        /\ Linked(js, js.root) = DOMAIN js.vals
=============================================================================

------------------------------ MODULE DbusJson ------------------------------
(***************************************************************************)
(* D-Bus dictionaries as JSON text and back (lib/dbus-json.c), and the     *)
(* client that makes a call of either kind and prints the reply            *)
(* (client/cam-json.c).                                                    *)
(*                                                                         *)
(* A text is the sequence of its jsmn tokens: [type, size, s, p], with the *)
(* characters of a string and the content of a primitive.  The size of an  *)
(* object is the number of its names.  A number is counted in hundredths.  *)
(***************************************************************************)
EXTENDS Integers, Sequences
LOCAL INSTANCE SequencesExt

CONSTANTS
  Word,        (* numbers in a word: 2^32                                  *)
  Texts,       (* what a parameter file may hold                           *)
  Replies,     (* dictionaries that a server answers with                  *)
  MaxMishaps   (* bound: errors of the operating system or of the server   *)

ASSUME JsonAssumption ==
  /\ Word \in Nat \ {0}
  /\ MaxMishaps \in Nat
  /\ \A r \in Replies : r.t = "dict"

VARIABLES
  call,     (* cam-json: where it is, its options, parameters and reply    *)
  request,  (* what reached the server                                     *)
  stdout,   (* the text it printed                                         *)
  mishaps

jsonVars == <<call, request, stdout, mishaps>>

-----------------------------------------------------------------------------
(* Values by their type: characters s, a number n, a truth value b, a      *)
(* dictionary d, or an array a of values, of which strings and             *)
(* dictionaries are kept by pointer.                                       *)
Text(s) == [t |-> "string", s |-> s]
Number(t, n) == [t |-> t, n |-> n]
Truth(b) == [t |-> "boolean", b |-> b]
Dictionary(d) == [t |-> "dict", d |-> d]
ArrayOf(a) == [t |-> "array", a |-> a]

NoWord == [word |-> "", n |-> 0, float |-> FALSE]
Token(type, size, s, p) == [type |-> type, size |-> size, s |-> s, p |-> p]
StringToken(s) == Token("string", 0, s, NoWord)
WordToken(word) == Token("primitive", 0, <<>>, [NoWord EXCEPT !.word = word])

(* The escapes of quotes, backslashes and control characters.              *)
json_printf_utf8(s) ==
  StringToken(FlattenSeq([i \in DOMAIN s |->
     IF s[i] \in {"\"", "\\"} THEN <<"\\", s[i]>>
     ELSE IF s[i] = "\n" THEN <<"\\", "u", "0", "0", "0", "a">> ELSE <<s[i]>>]))

(* %g keeps six digits, and writes a point or an exponent only when there  *)
(* is a fraction or a million.                                             *)
Significant(n) ==
  LET size == IF n < 0 THEN -n ELSE n
      unit == IF size < 1000000 THEN 1 ELSE IF size < 10000000 THEN 10
              ELSE IF size < 100000000 THEN 100 ELSE 1000
      kept == ((size + unit \div 2) \div unit) * unit
  IN  IF n < 0 THEN -kept ELSE kept
NumberToken(n, float) == Token("primitive", 0, <<>>, [word |-> "", n |-> n, float |-> float])
DoubleToken(n) ==
  LET kept == Significant(n)
  IN  NumberToken(kept, kept % 100 # 0 \/ kept >= 100000000 \/ -kept >= 100000000)

(* An unsigned member of an array is printed as a signed word.             *)
json_printf_arrayval(v) ==
  CASE v.t = "uint"    -> LET n == v.n \div 100
                          IN  NumberToken(100 * (IF n >= Word \div 2 THEN n - Word ELSE n), FALSE)
    [] v.t = "int"     -> NumberToken(v.n, FALSE)
    [] v.t = "double"  -> DoubleToken(v.n)
    [] v.t = "boolean" -> WordToken(IF v.b THEN "true" ELSE "false")

(* Printing an array of strings loses them: the text's value is not a      *)
(* boxed one, and the process dies of the null pointer.                    *)
RECURSIVE Prints(_)
Prints(v) ==
  CASE v.t = "dict"  -> \A name \in DOMAIN v.d : Prints(v.d[name])
    [] v.t = "array" -> \A i \in DOMAIN v.a : v.a[i].t # "string" /\ Prints(v.a[i])
    [] OTHER         -> TRUE

RECURSIVE json_printf_gval(_)
json_printf_dict(d) ==
  LET names == SetToSeq(DOMAIN d)
  IN  <<Token("object", Len(names), <<>>, NoWord)>> \o
      FlattenSeq([i \in DOMAIN names |-> <<json_printf_utf8(names[i])>> \o json_printf_gval(d[names[i]])])
json_printf_array(a) ==
  <<Token("array", Len(a), <<>>, NoWord)>> \o
  FlattenSeq([i \in DOMAIN a |-> IF a[i].t \in {"string", "dict"} THEN json_printf_gval(a[i])
                                 ELSE <<json_printf_arrayval(a[i])>>])
json_printf_gval(v) ==
  CASE v.t = "string"  -> <<json_printf_utf8(v.s)>>
    [] v.t \in {"int", "uint"} -> <<NumberToken(v.n, FALSE)>>
    [] v.t = "double"  -> <<DoubleToken(v.n)>>
    [] v.t = "boolean" -> <<WordToken(IF v.b THEN "true" ELSE "false")>>
    [] v.t = "dict"    -> json_printf_dict(v.d)
    [] v.t = "array"   -> json_printf_array(v.a)
    [] OTHER           -> <<WordToken("null")>>

-----------------------------------------------------------------------------
(* Reading.  Bad: an error; Beyond: a token past the last one was read.    *)
Bad == [t |-> "bad"]
Beyond == [t |-> "beyond"]

(* Where child k of a token begins, each child of an object with its name. *)
RECURSIVE json_token_size(_, _)
ChildAt(toks, i, names) ==
  LET at[k \in 1 .. toks[i].size + 1] ==
        IF k = 1 THEN i + 1 ELSE at[k - 1] + names + json_token_size(toks, at[k - 1] + names)
  IN  at

(* Bug variant: the names are left out of an object's size.                *)
SizeWithoutNames(toks, i) ==
  IF i > Len(toks) THEN 1
  ELSE IF toks[i].type \in {"object", "array"} THEN ChildAt(toks, i, 0)[toks[i].size + 1] - i
  ELSE 1

json_token_size(toks, i) ==
  IF i > Len(toks) THEN 1
  ELSE CASE toks[i].type = "object" -> ChildAt(toks, i, 1)[toks[i].size + 1] - i
         [] toks[i].type = "array"  -> ChildAt(toks, i, 0)[toks[i].size + 1] - i
         [] OTHER                   -> 1

(* Strings are taken as they stand between the quotes; null is false.      *)
Primitive(p) ==
  IF p.word # "" THEN Truth(p.word = "true")
  ELSE Number(IF p.float THEN "double" ELSE IF p.n < 0 THEN "int" ELSE "uint", p.n)

(* json_parse_token and json_parse_object.  An array inside another value  *)
(* is read as if it were an object.                                        *)
RECURSIVE json_parse_token(_, _)
json_parse_object(toks, i) ==
  LET at      == ChildAt(toks, i, 1)
      kids    == 1 .. toks[i].size
      value   == [k \in kids |-> IF at[k] >= Len(toks) THEN Beyond
                                 ELSE IF toks[at[k]].type # "string" THEN Bad
                                 ELSE json_parse_token(toks, at[k] + 1)]
      wrong   == {k \in kids : value[k] \in {Bad, Beyond}}
      name(k) == toks[at[k]].s
  IN  IF wrong # {} THEN value[CHOOSE k \in wrong : \A j \in wrong : k <= j]
      ELSE Dictionary([n \in {name(k) : k \in kids} |->
             value[CHOOSE k \in kids : name(k) = n /\ \A j \in kids : name(j) = n => j <= k]])
json_parse_token(toks, i) ==
  CASE toks[i].type = "string" -> Text(toks[i].s)
    [] toks[i].type \in {"object", "array"} -> json_parse_object(toks, i)
    [] OTHER -> Primitive(toks[i].p)

(* An array by itself takes its type from its first member.                *)
json_parse_array(toks) ==
  LET at   == ChildAt(toks, 1, 0)
      kids == [k \in 1 .. toks[1].size |-> toks[at[k]]]
  IN  IF Len(toks) = 1 THEN Beyond
      ELSE CASE toks[2].type = "string" ->
                  LET strings == SelectSeq(kids, LAMBDA k : k.type = "string")
                  IN  ArrayOf([k \in DOMAIN strings |-> Text(strings[k].s)])
             [] toks[2].type \in {"object", "array"} -> Bad
             [] toks[2].p.word # "" ->
                  ArrayOf([k \in DOMAIN kids |-> Truth(kids[k].p.word = "true")])
             [] OTHER -> ArrayOf([k \in DOMAIN kids |-> Number("double", kids[k].p.n)])

json_parse(toks) ==
  CASE toks = <<>> -> Bad
    [] toks # <<>> /\ toks[1].type = "object" -> json_parse_object(toks, 1)
    [] toks # <<>> /\ toks[1].type = "array"  -> json_parse_array(toks)
    [] OTHER -> Bad

-----------------------------------------------------------------------------
(* cam-json. *)
NoParams == [t |-> "none"]

JsonInit ==
  /\ call = [pc |-> "options", socket |-> FALSE, text |-> <<>>, params |-> NoParams,
             reply |-> NoParams]
  /\ request = <<>>
  /\ stdout = <<>>
  /\ mishaps = 0

Mishap == mishaps < MaxMishaps /\ mishaps' = mishaps + 1
Ends(pc) == call' = [call EXCEPT !.pc = pc]

(* The parameters: the names after --get, or what a file or stdin holds.   *)
(* An empty file means none, but leaves the error code uninitialised; a    *)
(* text that reaches beyond its tokens reads whatever is there.            *)
ReadParams(socket, text) ==
  /\ call.pc = "options"
  /\ LET params == IF text = <<>> THEN NoParams ELSE json_parse(text)
         Go     == call' = [call EXCEPT !.pc = "request", !.socket = socket, !.text = text,
                                           !.params = params]
     IN  \/ params = Bad /\ Ends("failed")
         \/ params = NoParams /\ (Go \/ Ends("failed"))
         \/ params = Beyond /\ (Ends("failed") \/ Ends("crashed"))
         \/ params \notin {Bad, NoParams, Beyond} /\ Go
  /\ UNCHANGED <<request, stdout, mishaps>>

GetParams(socket) ==
  /\ call.pc = "options"
  /\ call' = [call EXCEPT !.pc = "request", !.socket = socket,
                          !.params = ArrayOf(<<Text(<<"a">>)>>)]
  /\ UNCHANGED <<request, stdout, mishaps>>

(* The call goes out over D-Bus, or as JSON-RPC in a datagram.             *)
SendCall ==
  /\ call.pc = "request"
  /\ LET dict == Dictionary([n \in {<<"m">>} |-> Text(<<"g">>)] @@
                            [n \in IF call.params = NoParams THEN {} ELSE {<<"p">>} |-> call.params])
     IN  \/ Mishap /\ Ends("failed") /\ UNCHANGED request
         \/ /\ call.socket /\ ~Prints(dict)
            /\ Ends("crashed")
            /\ UNCHANGED <<request, mishaps>>
         \/ /\ call.socket => Prints(dict)
            /\ request' = IF call.socket THEN json_printf_gval(dict) ELSE <<call.params>>
            /\ Ends("reply")
            /\ UNCHANGED mishaps
  /\ UNCHANGED stdout

(* The reply: a dictionary, an error of D-Bus, or a text that json_parse   *)
(* reads; a server that does not answer keeps cam-json waiting for good.   *)
TakeReply ==
  /\ call.pc = "reply"
  /\ \E reply \in Replies :
       LET h == IF call.socket THEN json_parse(json_printf_gval(reply)) ELSE reply
           Took(pc) == /\ call' = [call EXCEPT !.pc = pc, !.params = h, !.reply = reply]
                       /\ UNCHANGED mishaps
       IN  \/ ~call.socket /\ Mishap /\ Ends("failed")
           \/ h = Bad /\ Took("failed")
           \/ h = Beyond /\ (Took("failed") \/ Took("crashed"))
           \/ h \notin {Bad, Beyond} /\ Took("print")
  /\ UNCHANGED <<request, stdout>>

PrintReply ==
  /\ call.pc = "print"
  /\ stdout' = json_printf_gval(call.params)
  /\ Ends("done")
  /\ UNCHANGED <<request, mishaps>>

JsonNext ==
  \/ \E socket \in BOOLEAN : (\E text \in Texts : ReadParams(socket, text)) \/ GetParams(socket)
  \/ SendCall \/ TakeReply \/ PrintReply

-----------------------------------------------------------------------------
(* A text with no escape in it, no null and no array inside.               *)
Plain(toks) ==
  \A i \in DOMAIN toks :
    /\ toks[i].type # "array"
    /\ \A j \in DOMAIN toks[i].s : toks[i].s[j] # "\\"
    /\ toks[i].p.word # "null"

(* A reply of plain values, nested to any depth, comes out as it was sent, *)
(* over D-Bus and over the socket, where it is read and printed again; so  *)
(* do the parameters on their way to the server.  A number loses its type  *)
(* on the way, never its value past the first printing.                    *)
ReplyComesThrough ==
  /\ call.pc = "done" /\ Plain(json_printf_gval(call.reply)) =>
        stdout = json_printf_gval(call.reply)
  /\ call.pc \in {"failed", "crashed"} /\ call.reply # NoParams =>
        ~Plain(json_printf_gval(call.reply))
  /\ call.pc = "reply" /\ call.text # <<>> /\ Plain(call.text) =>
        json_printf_gval(call.params) = call.text
=============================================================================

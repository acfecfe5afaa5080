---------------------------- MODULE LogFormatter ----------------------------
(***************************************************************************)
(* The pattern parser of fisher::LogFormatter: format_parser (src/util.cpp) *)
(* splits a pattern into (str, fmt, type) tuples, and LogFormatter::init   *)
(* (src/log.cpp) turns them into format items, marking error_ for a       *)
(* directive with no item.  A pattern is a sequence of one-character      *)
(* strings; positions are 0-based as in the code.  Items are records: a   *)
(* StringFormatItem carries its text, the other items their name and the  *)
(* fmt argument; what an item prints for a record is left out.            *)
(***************************************************************************)
EXTENDS Naturals, SequencesExt

(* isalpha in the C locale. *)
Alpha == {"a","b","c","d","e","f","g","h","i","j","k","l","m","n","o","p",
          "q","r","s","t","u","v","w","x","y","z","A","B","C","D","E","F",
          "G","H","I","J","K","L","M","N","O","P","Q","R","S","T","U","V",
          "W","X","Y","Z"}
IsAlpha(c) == c \in Alpha

(* The keys of s_format_items in LogFormatter::init. *)
KnownNames == {<<c>> : c \in {"m","p","r","c","t","n","d","f","l","T","F","N"}}

(* The literal text "<<pattern_error>>", one symbol of the model. *)
PatternErrorText == <<"<<pattern_error>>">>

At(p, x) == p[x + 1]
Substr(p, pos, len) == SubSeq(p, pos + 1, pos + len)
SubstrToEnd(p, pos) == SubSeq(p, pos + 1, Len(p))

(* A tuple of format_parser's vec. *)
Tuple(str, fmt, type) == [str |-> str, fmt |-> fmt, type |-> type]

(* The while loop of format_parser, from position n, for the '%' at i:    *)
(* the name runs over letters and braces up to another character; a '{'  *)
(* ends the name and starts fmt, which a '}' ends.  Reaching the end      *)
(* leaves str as the rest of the pattern if it was still empty.           *)
RECURSIVE ScanDirective(_, _, _, _, _, _, _)
ScanDirective(p, i, n, st, fb, str, fmt) ==
    CASE n >= Len(p) ->
            [n |-> n, status |-> st, str |-> str, fmt |-> fmt]
      [] n < Len(p) /\ st = 0 /\ ~IsAlpha(At(p, n)) /\ At(p, n) \notin {"{", "}"} ->
            [n |-> n, status |-> 0, str |-> Substr(p, i + 1, n - i - 1), fmt |-> fmt]
      [] n < Len(p) /\ st = 0 /\ At(p, n) = "{" ->
            ScanDirective(p, i, n + 1, 1, n, Substr(p, i + 1, n - i - 1), fmt)
      [] n < Len(p) /\ st = 1 /\ At(p, n) = "}" ->
            [n |-> n + 1, status |-> 0, str |-> str,
             fmt |-> Substr(p, fb + 1, n - fb - 1)]
      [] OTHER ->
            ScanDirective(p, i, n + 1, st, fb,
                          IF n + 1 = Len(p) /\ str = <<>>
                          THEN SubstrToEnd(p, i + 1) ELSE str,
                          fmt)

(* The literal text gathered so far, as a tuple, unless it is empty. *)
Flush(nstr) == IF nstr = <<>> THEN <<>> ELSE <<Tuple(nstr, <<>>, 0)>>

(* Mutant: after a directive the loop resumes at n + 1 (i = n), skipping *)
(* the character that ended the name.                                     *)
RECURSIVE ParseFromSkipping(_, _, _, _)
ParseFromSkipping(p, i, nstr, vec) ==
    CASE i >= Len(p) -> vec \o Flush(nstr)
      [] i < Len(p) /\ At(p, i) # "%" ->
            ParseFromSkipping(p, i + 1, Append(nstr, At(p, i)), vec)
      [] i + 1 < Len(p) /\ At(p, i) = "%" /\ At(p, i + 1) = "%" ->
            ParseFromSkipping(p, i + 1, Append(nstr, "%"), vec)
      [] OTHER ->
            LET d == ScanDirective(p, i, i + 1, 0, 0, <<>>, <<>>) IN
            IF d.status = 0
            THEN ParseFromSkipping(p, d.n + 1, <<>>,
                     vec \o Flush(nstr) \o <<Tuple(d.str, d.fmt, 1)>>)
            ELSE ParseFromSkipping(p, i + 1, nstr,
                     Append(vec, Tuple(PatternErrorText, d.fmt, 0)))

(* The for loop of format_parser from position i, with the literal text  *)
(* nstr and the tuples vec so far.  "%%" appends one '%' and the loop    *)
(* goes on at the second '%'.  After a directive the loop goes on at n   *)
(* (i = n - 1, then ++i); an unclosed '{' pushes "<<pattern_error>>"     *)
(* without flushing nstr and goes on at i + 1.                            *)
RECURSIVE ParseFrom(_, _, _, _)
ParseFrom(p, i, nstr, vec) ==
    CASE i >= Len(p) -> vec \o Flush(nstr)
      [] i < Len(p) /\ At(p, i) # "%" ->
            ParseFrom(p, i + 1, Append(nstr, At(p, i)), vec)
      [] i + 1 < Len(p) /\ At(p, i) = "%" /\ At(p, i + 1) = "%" ->
            ParseFrom(p, i + 1, Append(nstr, "%"), vec)
      [] OTHER ->
            LET d == ScanDirective(p, i, i + 1, 0, 0, <<>>, <<>>) IN
            IF d.status = 0
            THEN ParseFrom(p, d.n, <<>>,
                     vec \o Flush(nstr) \o <<Tuple(d.str, d.fmt, 1)>>)
            ELSE ParseFrom(p, i + 1, nstr,
                     Append(vec, Tuple(PatternErrorText, d.fmt, 0)))

format_parser(pattern) == ParseFrom(pattern, 0, <<>>, <<>>)

(* Format items. *)
StringItem(text) == [text |-> text]
NamedItem(name, fmt) == [name |-> name, fmt |-> fmt]
ErrorText(name) == <<"<<error_format %">> \o name \o <<">>">>

(* LogFormatter::init: a literal tuple becomes a StringFormatItem, a      *)
(* directive the item of its name, or the error text with error_ = true. *)
FormatItems(pattern) ==
    LET vec == format_parser(pattern)
        item(e) == CASE e.type = 0 -> StringItem(e.str)
                     [] e.str \in KnownNames -> NamedItem(e.str, e.fmt)
                     [] OTHER -> StringItem(ErrorText(e.str))
    IN  [j \in DOMAIN vec |-> item(vec[j])]

isError(pattern) ==
    LET vec == format_parser(pattern)
    IN  \E j \in DOMAIN vec : vec[j].type = 1 /\ vec[j].str \notin KnownNames

-----------------------------------------------------------------------------
(* The grammar of the comment above LogFormatter::init, "%xxx %xxx{xxx}   *)
(* %%", without its "%%": a pattern is a sequence of tokens, literal     *)
(* characters and directives (a name of letters, with or without a braced *)
(* argument).  Bounded to the tokens below and three tokens per pattern.  *)
LitChars == {":", "m", "{", "}"}
DirNames == {<<"m">>, <<"q">>, <<"m", "d">>}
DirArgs  == {<<>>, <<"%">>, <<":">>, <<"{">>}

Tokens == [kind : {"lit"}, c : LitChars]
          \cup [kind : {"dir"}, name : DirNames, braced : {FALSE}, arg : {<<>>}]
          \cup [kind : {"dir"}, name : DirNames, braced : {TRUE}, arg : DirArgs]

Render(tk) == CASE tk.kind = "lit" -> <<tk.c>>
                [] tk.braced -> <<"%">> \o tk.name \o <<"{">> \o tk.arg \o <<"}">>
                [] OTHER -> <<"%">> \o tk.name

(* A directive without braces ends at the first character that is not a  *)
(* letter or a brace, so a literal letter or brace may not follow it.     *)
Unambiguous(ts) ==
    \A j \in 1..(Len(ts) - 1) :
        ts[j].kind = "dir" /\ ~ts[j].braced /\ ts[j + 1].kind = "lit"
            => ~IsAlpha(ts[j + 1].c) /\ ts[j + 1].c \notin {"{", "}"}

WellFormed == {ts \in BoundedSeq(Tokens, 3) : Unambiguous(ts)}

(* The items the grammar gives: runs of literal characters are one string *)
(* item, a directive its item or the error text.                          *)
RECURSIVE GrammarItems(_, _)
GrammarItems(ts, lit) ==
    LET litItem == IF lit = <<>> THEN <<>> ELSE <<StringItem(lit)>> IN
    CASE ts = <<>> -> litItem
      [] Head(ts).kind = "lit" -> GrammarItems(Tail(ts), Append(lit, Head(ts).c))
      [] Head(ts).name \in KnownNames ->
            litItem \o <<NamedItem(Head(ts).name, Head(ts).arg)>>
                    \o GrammarItems(Tail(ts), <<>>)
      [] OTHER ->
            litItem \o <<StringItem(ErrorText(Head(ts).name))>>
                    \o GrammarItems(Tail(ts), <<>>)

GrammarError(ts) ==
    \E j \in DOMAIN ts : ts[j].kind = "dir" /\ ts[j].name \notin KnownNames

(* format_parser and LogFormatter::init agree with the grammar their      *)
(* comment states: every well-formed pattern gives the grammar's items,   *)
(* in order, and isError() exactly when a directive names no item.  A     *)
(* constant, which TLC evaluates once.                                    *)
ParserMatchesGrammar ==
    \A ts \in WellFormed :
        LET p == FlattenSeq([j \in DOMAIN ts |-> Render(ts[j])]) IN
        /\ FormatItems(p) = GrammarItems(ts, <<>>)
        /\ isError(p) = GrammarError(ts)

=============================================================================

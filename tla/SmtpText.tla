------------------------------- MODULE SmtpText -------------------------------
(***************************************************************************)
(* The lexical parsers of src/mime.c, which every header field and every   *)
(* path is parsed with.                                                    *)
(*                                                                         *)
(* A text m is the sequence of the characters of the client buffer that    *)
(* have arrived, each a string of length one; an index counts from 0, as   *)
(* in the code.  A parser called on m at index i returns what it answers,  *)
(* v: "ok", "parse" (SMTP_ERROR_PARSE), "cont" (SMTP_ERROR_CONTINUE, the   *)
(* text ends too early), "spin" (its loop never ends) or "null" (it        *)
(* follows a null pointer); the index i it leaves and, where something     *)
(* reads it, the value it returns.                                         *)
(*                                                                         *)
(* Left out: running out of memory, bytes above 127 and NUL, the case of   *)
(* keywords, numbers of more than nine digits.                             *)
(***************************************************************************)
EXTENDS Integers, Sequences, SequencesExt, TLC

Ok(i) == [v |-> "ok", i |-> i, val |-> <<>>]
Got(i, x) == [v |-> "ok", i |-> i, val |-> x]
Fail == [v |-> "parse", i |-> 0, val |-> <<>>]
More == [v |-> "cont", i |-> 0, val |-> <<>>]
Spin == [v |-> "spin", i |-> 0, val |-> <<>>]
Null == [v |-> "null", i |-> 0, val |-> <<>>]

\* How parsers are put together: one after the other (s the answer to the
\* later one, or K(i) what it answers at i), an alternative, an optional one.
AndThen(r, s) == IF r.v = "ok" THEN s ELSE r
Then(r, K(_)) == IF r.v = "ok" THEN K(r.i) ELSE r
Else(r, s) == IF r.v = "parse" THEN s ELSE r
Opt(r, i) == Else(r, Ok(i))

\* The value a parser returns, at the index another leaves.
With(r, x) == IF r.v = "ok" THEN Got(r.i, x) ELSE r

Indices(m) == 0..Len(m)
Ch(m, i) == m[i + 1]
Joined(strings) == FoldLeft(LAMBDA s, t : s \o t, "", strings)
Part(m, i, j) == Joined(SubSeq(m, i + 1, j))
At(m, i, set) == i < Len(m) /\ Ch(m, i) \in set
\* The end of the run of characters outside stops that begins at i.
Span(m, i, stops) ==
    CHOOSE j \in i..Len(m) : /\ j < Len(m) => Ch(m, j) \in stops
                             /\ \A k \in i..(j - 1) : Ch(m, k) \notin stops

-----------------------------------------------------------------------------
(***************************************************************************)
(* Loops.  p[j] is what a turn of the loop answers at j: "again" where the *)
(* next turn begins at the index it leaves, with the values it has found;  *)
(* any other answer is the loop's.                                         *)
(***************************************************************************)
Again(i, x) == [v |-> "again", i |-> i, val |-> x]
Before(x, r) == IF r.v = "ok" THEN Got(r.i, x \o r.val) ELSE r

Loop(p, i) ==
    LET run[j \in DOMAIN p] ==
            LET r == p[j] IN IF r.v = "again" THEN Before(r.val, run[r.i]) ELSE r
    IN run[i]

\* A turn at j of a loop that ends at the first refusal, r what is tried in it.
Turn(r, j, x) ==
    CASE r.v = "parse" -> Ok(j)
      [] r.v = "ok" -> IF r.i = j THEN Spin ELSE Again(r.i, x)
      [] OTHER -> r

\* p[j] is what a parser answers at j: the loop around it, the loop that must
\* run, and the one that keeps its values (smtp_struct_multiple_parse).
Many(p, i) == Loop([j \in DOMAIN p |-> LET r == p[j] IN Turn(r, j, <<>>)], i)
Many1(p, i) == Then(p[i], LAMBDA j : Many(p, j))
StructMultiple(p, i) ==
    IF p[i].v = "ok"
    THEN Loop([j \in DOMAIN p |-> LET r == p[j] IN Turn(r, j, <<r.val>>)], i)
    ELSE p[i]

-----------------------------------------------------------------------------
(***************************************************************************)
(* Characters.                                                             *)
(***************************************************************************)
Wsp == {" ", "\t"}
Digits == {"0", "1", "2", "3", "4", "5", "6", "7", "8", "9"}
NotAtext == {" ", "\t", "\n", "\r", "<", ">", ",", "\"", ":", ";"}
NotCtext == {" ", "\t", "\n", "\r", "(", ")", "\\"}
NotQtext == {" ", "\t", "\n", "\r", "\"", "\\"}
NotDtext == {" ", "\t", "\n", "\r", "[", "\\", "]"}
Tspecials == {"(", ")", "<", ">", "@", ",", ";", ":", "\\", "\"", "/", "[", "]", "?",
              "=", "\r"}
NotToken == Tspecials \cup {" "}

-----------------------------------------------------------------------------
(***************************************************************************)
(* Single characters and keywords.                                         *)
(***************************************************************************)
Char(m, i, c) ==
    IF i >= Len(m) THEN More ELSE IF Ch(m, i) = c THEN Ok(i + 1) ELSE Fail

\* smtp_token_case_insensitive_len_parse: More until the keyword's length is there.
Keyword(m, i, word) ==
    IF i + Len(word) > Len(m) THEN More
    ELSE IF Part(m, i, i + Len(word)) = word THEN Ok(i + Len(word)) ELSE Fail

WspChar(m, i) == IF i >= Len(m) THEN More ELSE IF Ch(m, i) \in Wsp THEN Ok(i + 1) ELSE Fail
EachWsp(m) == [j \in Indices(m) |-> WspChar(m, j)]
Wsps(m, i) == Many(EachWsp(m), i)

CrLf(m, i) == Then(Opt(Char(m, i, "\r"), i), LAMBDA j : Char(m, j, "\n"))

\* smtp_str_crlf_parse: past the first CRLF.
StrCrLf(m, i) ==
    LET ends == {j \in i..(Len(m) - 2) : Ch(m, j) = "\r" /\ Ch(m, j + 1) = "\n"}
    IN IF ends = {} THEN More
       ELSE Ok(2 + CHOOSE j \in ends : \A k \in ends : j <= k)

Digit(m, i) ==
    IF i >= Len(m) THEN More
    ELSE IF Ch(m, i) \notin Digits THEN Fail
    ELSE Got(i + 1, <<CHOOSE d \in 0..9 : Ch(m, i) = ToString(d)>>)

\* smtp_number_parse.
Number(m, i) ==
    LET digits == StructMultiple([j \in Indices(m) |-> Digit(m, j)], i)
    IN With(digits, <<FoldLeft(LAMBDA n, d : 10 * n + d[1], 0, digits.val)>>)

\* smtp_custom_string_parse: the longest run of the characters wanted.
CustomString(m, i, stops) ==
    IF i >= Len(m) THEN More
    ELSE LET e == Span(m, i, stops) IN IF e = i THEN Fail ELSE Got(e, <<Part(m, i, e)>>)
Token(m, i) == CustomString(m, i, NotToken)

-----------------------------------------------------------------------------
(***************************************************************************)
(* Folding white space and comments.                                       *)
(***************************************************************************)
\* Mutants: a line break is not folding white space; a line break that has
\* not all arrived is none.
FwsUnfolded(m, i) == Many1(EachWsp(m), i)
FwsSeen(m, i) ==
    Then(Wsps(m, i), LAMBDA j :
      LET folded == Then(CrLf(m, j), LAMBDA k : Many1(EachWsp(m), k))
      IN IF folded.v = "ok" THEN folded ELSE IF j > i THEN Ok(j) ELSE Fail)
\* Mutant: white space that no line break follows asks for one.
FwsBreak(m, i) ==
    Then(Wsps(m, i), LAMBDA j : IF j > i /\ CrLf(m, j).v = "parse" THEN More
                                ELSE Then(CrLf(m, j), LAMBDA k : Wsps(m, k)))
Fws(m, i) ==
    Then(Wsps(m, i), LAMBDA j :
      LET line == CrLf(m, j)
          folded == Wsps(m, line.i)
      IN IF line.v = "parse" \/ (line.v = "ok" /\ folded = Ok(line.i))
         THEN IF j > i THEN Ok(j) ELSE Fail
         ELSE AndThen(line, folded))

QuotedPair(m, i) ==
    IF i + 1 >= Len(m) THEN More
    ELSE IF Ch(m, i) # "\\" THEN Fail ELSE Got(i + 2, <<Ch(m, i + 1)>>)

\* Mutants: comments do not nest; a refused comment is content.
CcontentFlat(m, i, comment) ==
    IF i >= Len(m) THEN More ELSE IF Ch(m, i) \notin NotCtext THEN Ok(i + 1) ELSE QuotedPair(m, i)
CcontentAny(m, i, comment) ==
    IF i >= Len(m) THEN More
    ELSE IF Ch(m, i) \notin NotCtext THEN Ok(i + 1)
    ELSE Else(Else(QuotedPair(m, i), comment), Ok(i))

\* smtp_ccontent_parse, comment what smtp_comment_parse answers there: it
\* returns SMTP_NO_ERROR for every answer but SMTP_ERROR_PARSE, with the index
\* where it was.
Ccontent(m, i, comment) ==
    IF i >= Len(m) THEN More
    ELSE IF Ch(m, i) \notin NotCtext THEN Ok(i + 1)
    ELSE LET r == Else(QuotedPair(m, i), comment) IN
         IF r.v = "cont" THEN Ok(i) ELSE r

\* smtp_comment_parse: inside[j] is its answer from j on, the parenthesis
\* that opened the comment behind it.
Comment(m, i) ==
    LET inside[j \in Indices(m)] ==
            LET white == Opt(Fws(m, j), j)
                Nested(k) == Then(Char(m, k, "("), LAMBDA l : inside[l])
                content == Then(white, LAMBDA k : Ccontent(m, k, Nested(k)))
            IN CASE content.v = "parse" -> Then(white, LAMBDA k : Char(m, k, ")"))
                 [] content.v = "ok" -> IF content.i = j THEN Spin ELSE inside[content.i]
                 [] OTHER -> content
    IN Then(Char(m, i, "("), LAMBDA j : inside[j])

FwsComment(m, i) == Then(Opt(Fws(m, i), i), LAMBDA j : Comment(m, j))

\* smtp_cfws_parse: comments, or white space where there is no comment.
Cfws(m, i) ==
    Then(Many([j \in Indices(m) |-> FwsComment(m, j)], i),
         LAMBDA j : IF j > i THEN Ok(j) ELSE Fws(m, j))

\* smtp_unstrict_char_parse: a character and what may precede it.
UnstrictChar(m, i, c) == Then(Opt(Cfws(m, i), i), LAMBDA j : Char(m, j, c))

\* smtp_unstrict_crlf_parse: the answer about the white space is ignored.
UnstrictCrLf(m, i) ==
    LET r == Cfws(m, i) IN
    IF r.v = "spin" THEN r ELSE CrLf(m, IF r.v = "ok" THEN r.i ELSE i)

-----------------------------------------------------------------------------
(***************************************************************************)
(* Words.                                                                  *)
(***************************************************************************)
\* An atom after the white space ws has answered for.
AtomAfter(m, i, ws) ==
    Then(Opt(ws, i), LAMBDA j :
      IF j >= Len(m) THEN Fail
      ELSE LET e == Span(m, j, NotAtext)
           IN IF e = j THEN Fail ELSE Got(e, <<Part(m, j, e)>>))

Qcontent(m, i) ==
    IF i >= Len(m) THEN More
    ELSE IF Ch(m, i) \notin NotQtext THEN Got(i + 1, <<Ch(m, i)>>) ELSE QuotedPair(m, i)

\* The inside of a quoted string, white space made one space, and its end.
QuotedFrom(m, i) ==
    LET turn == [j \in Indices(m) |->
            LET space == Fws(m, j)
                k == IF space.v = "ok" THEN space.i ELSE j
                blank == IF space.v = "ok" THEN " " ELSE ""
                r == Qcontent(m, k)
            IN IF space.v \notin {"ok", "parse"} THEN space
               ELSE CASE r.v = "ok" -> Again(r.i, <<blank, r.val[1]>>)
                      [] r.v = "parse" -> With(Char(m, k, "\""), <<blank>>)
                      [] OTHER -> r]
        quoted == Loop(turn, i)
    IN With(quoted, <<Joined(quoted.val)>>)
QuotedAfter(m, i, ws) ==
    Then(Then(Opt(ws, i), LAMBDA j : Char(m, j, "\"")), LAMBDA j : QuotedFrom(m, j))

Atom(m, i) == AtomAfter(m, i, Cfws(m, i))
QuotedString(m, i) == QuotedAfter(m, i, Cfws(m, i))
Word(m, i) == Else(Atom(m, i), QuotedString(m, i))
FwsAtom(m, i) == AtomAfter(m, i, Fws(m, i))
FwsQuotedString(m, i) == QuotedAfter(m, i, Fws(m, i))
FwsWord(m, i) == Else(FwsAtom(m, i), FwsQuotedString(m, i))
Phrase(m, i) == Many1([j \in Indices(m) |-> FwsWord(m, j)], i)
WspAtom(m, i) == AtomAfter(m, i, Wsps(m, i))
WspPhrase(m, i) == Many1([j \in Indices(m) |-> WspAtom(m, j)], i)
WspUnstrictChar(m, i, c) == Then(Opt(Wsps(m, i), i), LAMBDA j : Char(m, j, c))
WspUnstrictCrLf(m, i) ==
    LET r == Wsps(m, i) IN CrLf(m, IF r.v = "ok" THEN r.i ELSE i)

Dcontent(m, i) ==
    IF i >= Len(m) THEN More
    ELSE IF Ch(m, i) \notin NotDtext THEN Got(i + 1, <<Ch(m, i)>>) ELSE QuotedPair(m, i)

-----------------------------------------------------------------------------
(***************************************************************************)
(* Lists of values.                                                        *)
(***************************************************************************)
\* smtp_struct_list_parse, p[j] what the values' parser answers at j: a
\* separator with no value after it is left.
StructList(m, i, symbol, p) ==
    LET turn == [j \in Indices(m) |->
            LET sep == UnstrictChar(m, j, symbol)
                r == AndThen(sep, p[sep.i])
            IN Turn(r, j, <<r.val>>)]
        first == p[i]
    IN AndThen(first, Before(<<first.val>>, Loop(turn, first.i)))

-----------------------------------------------------------------------------
(***************************************************************************)
(* Unstructured text and MIME parameters.                                  *)
(***************************************************************************)
\* A turn of the loop of smtp_unstructured_parse on the character c at j, and
\* what it has come to at the end of the text: the end of the line that no line
\* of white space continues.
Scan(at, c, j) ==
    LET next == CASE c = "\r" -> "cr" [] c = "\n" -> "lf" [] OTHER -> "start"
    IN CASE at.state = "start" -> [state |-> next, terminal |-> j]
         [] at.state = "cr" -> [at EXCEPT !.state = IF c = "\n" THEN "lf" ELSE "start"]
         [] at.state = "lf" -> [at EXCEPT !.state = IF c \in Wsp THEN "wsp" ELSE "out"]
         [] at.state = "wsp" -> [at EXCEPT !.state = next]
         [] at.state = "out" -> at
Terminal(m, i) ==
    LET at[j \in Indices(m)] ==
            IF j <= i THEN [state |-> "start", terminal |-> i] ELSE Scan(at[j - 1], Ch(m, j - 1), j - 1)
        end == at[Len(m)]
    IN IF end.state \in {"lf", "out"} THEN Ok(end.terminal) ELSE More

IgnoreUnstructured(m, i) == Terminal(m, i)
Unstructured(m, i) ==
    Then(Wsps(m, i), LAMBDA j :
      LET r == Terminal(m, j)
      IN IF r.v = "ok" THEN Got(r.i, <<Part(m, j, r.i)>>) ELSE r)

MimeValue(m, i) == Else(Token(m, i), QuotedString(m, i))

\* smtp_mime_parameter_parse: attribute "=" value.
MimeParameter(m, i) ==
    LET name == Token(m, i)
        equals == Then(UnstrictChar(m, name.i, "="), LAMBDA j : Opt(Cfws(m, j), j))
        value == MimeValue(m, equals.i)
    IN AndThen(name, AndThen(equals, With(value, <<name.val[1], value.val[1]>>)))
=============================================================================

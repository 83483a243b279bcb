----------------------------- MODULE SmtpContent -----------------------------
(***************************************************************************)
(* The parsers of the MIME fields (src/content-type.c, disposition.c,      *)
(* encoding.c, version.c, language.c, x-token.c) and of dates              *)
(* (src/_time.c).                                                          *)
(***************************************************************************)
EXTENDS SmtpAddress

\* The first keyword of words the text has, answered with its number.  The
\* text must be as long as each one tried.
FirstKeyword(m, i, words) ==
    LET tried == {n \in DOMAIN words : Keyword(m, i, words[n]).v # "parse"}
        n == CHOOSE n \in tried : \A k \in tried : n <= k
    IN IF tried = {} THEN Fail ELSE With(Keyword(m, i, words[n]), <<words[n]>>)

\* A sequence of parameters, each after a semicolon: parms[j] is what their
\* parser answers at j, ends the answers to the semicolon that end it.
Parameters(m, i, ends, parms) ==
    LET turn == [j \in Indices(m) |->
            LET semicolon == UnstrictChar(m, j, ";")
                r == AndThen(semicolon, parms[semicolon.i])
            IN IF semicolon.v \in ends THEN Ok(j) ELSE Turn(r, j, <<r.val>>)]
    IN Loop(turn, i)

-----------------------------------------------------------------------------
(***************************************************************************)
(* Content-Type.  Its value: what the part becomes, its boundary.          *)
(***************************************************************************)
Composite == <<"message", "multipart">>
Discrete == <<"text", "image", "audio", "video", "application">>

CompositeType(m, i) == FirstKeyword(m, i, Composite)
DiscreteType(m, i) ==
    Else(FirstKeyword(m, i, Discrete), With(Token(m, i), <<"extension">>))
MimeType(m, i) == Else(CompositeType(m, i), DiscreteType(m, i))

\* The subtype, or "unknown" where there is no slash.
Subtype(m, i) ==
    LET slash == UnstrictChar(m, i, "/")
        after == Then(slash, LAMBDA j : Opt(Cfws(m, j), j))
    IN IF slash.v = "parse" THEN Got(i, <<"unknown">>) ELSE AndThen(after, Token(m, after.i))

\* smtp_mime_content_type_param_get and smtp_mime_extract_boundary: the boundary,
\* which may be empty, if there is one.
BoundaryOf(parms) ==
    LET named == SelectSeq(parms, LAMBDA p : p[1] = "boundary")
        b == named[1][2]
    IN IF named = <<>> THEN <<>>
       ELSE <<IF b # "" /\ SubSeq(b, 1, 1) = "\"" THEN SubSeq(b, 2, Len(b) - 1) ELSE b>>

\* SMTP_ERROR_BUFFER: a multipart whose boundary is too long is refused.
MaxBoundary == 128
TooLong(type, boundary) ==
    type = "multipart" /\ boundary # <<>> /\ Len(boundary[1]) > MaxBoundary

\* The parameters end at the first semicolon that is not there or not there yet.
ContentParameters(m, i) ==
    Parameters(m, i, {"parse", "cont"},
               [j \in Indices(m) |-> Then(Opt(Cfws(m, j), j), LAMBDA k : MimeParameter(m, k))])

\* What the part becomes, and its boundary if it is a multipart, without the two
\* hyphens the code puts in front of it.
BodyType(type, subtype, boundary) ==
    CASE type = "multipart" /\ boundary # <<>> -> <<"multiple", boundary[1]>>
      [] type = "message" /\ subtype = "rfc822" -> <<"message", "">>
      [] OTHER -> <<"single", "">>

ContentType(m) ==
    LET white == Cfws(m, 0)
        type == IF white.v = "spin" THEN white
                ELSE MimeType(m, IF white.v = "ok" THEN white.i ELSE 0)
        subtype == Subtype(m, type.i)
        parms == ContentParameters(m, subtype.i)
        line == UnstrictCrLf(m, parms.i)
        boundary == BoundaryOf(parms.val)
        body == IF TooLong(type.val[1], boundary) THEN AndThen(line, Fail)
                ELSE With(line, BodyType(type.val[1], subtype.val[1], boundary))
    IN AndThen(type, AndThen(subtype, AndThen(parms, body)))

-----------------------------------------------------------------------------
(***************************************************************************)
(* Content-Disposition.  Its value: the type and the parameters' names.    *)
(***************************************************************************)
Dispositions == <<"inline", "attachment">>
DispositionType(m, i) ==
    Then(Opt(Cfws(m, i), i), LAMBDA j :
         Else(FirstKeyword(m, j, Dispositions),
              With(Token(m, j), <<"extension">>)))

\* A parameter the parser knows: keyword "=" value, with values[j] what the
\* value's parser answers at j.
Known(m, i, word, values) ==
    LET equals == Then(Keyword(m, i, word), LAMBDA j : UnstrictChar(m, j, "="))
        value == values[equals.i]
    IN AndThen(equals, With(value, <<word>>))

\* smtp_mime_disposition_guess_type: the first letter names the parameter.
Guessed(m, i) ==
    LET Date(word) == Known(m, i, word, [j \in Indices(m) |-> QuotedString(m, j)])
    IN IF i >= Len(m) THEN Fail
       ELSE CASE Ch(m, i) = "f" -> Known(m, i, "filename", [j \in Indices(m) |-> MimeValue(m, j)])
              [] Ch(m, i) = "c" -> Date("creation-date")
              [] Ch(m, i) = "m" -> Date("modification-date")
              [] Ch(m, i) = "r" -> Date("read-date")
              [] Ch(m, i) = "s" -> Known(m, i, "size", [j \in Indices(m) |-> Number(m, j)])
              [] OTHER -> Fail
DispositionParm(m, i) ==
    Then(Opt(Cfws(m, i), i), LAMBDA j :
      Else(Guessed(m, j), With(MimeParameter(m, j), <<"parameter">>)))

Disposition(m) ==
    LET type == DispositionType(m, 0)
        parms == Parameters(m, type.i, {"parse"}, [j \in Indices(m) |-> DispositionParm(m, j)])
    IN AndThen(type, Line(m, With(parms, type.val \o FlattenSeq(parms.val))))

-----------------------------------------------------------------------------
(***************************************************************************)
(* Content-Transfer-Encoding, MIME-Version, Content-Language and X-        *)
(* fields.  The last three are built in and not called.                    *)
(***************************************************************************)
Mechanisms == <<"7bit", "8bit", "binary", "quoted-printable", "base64">>
Encoding(m) ==
    Then(Opt(WspChar(m, 0), 0), LAMBDA j :
         Line(m, Else(FirstKeyword(m, j, Mechanisms), Token(m, j))))

Version(m) ==
    LET high == Then(Opt(WspChar(m, 0), 0), LAMBDA j : Number(m, j))
        point == Then(UnstrictChar(m, high.i, "."), LAMBDA j : Opt(Cfws(m, j), j))
        low == Number(m, point.i)
    IN AndThen(high, AndThen(point, Line(m, With(low, high.val \o low.val))))

\* smtp_mime_language_parse: a list in which every tag follows a comma.
Language(m) ==
    LET Tag(j) == Then(UnstrictChar(m, j, ","), LAMBDA k : Atom(m, k))
        turn == [j \in Indices(m) |->
            LET comma == UnstrictChar(m, j, ",")
                tag == Tag(j)
            IN CASE tag.v = "ok" -> Again(tag.i, <<>>)
                 [] tag.v = "parse" -> Ok(IF comma.v = "ok" THEN comma.i ELSE j)
                 [] OTHER -> tag]
    IN Line(m, Loop(turn, 0))

\* smtp_mime_x_token_parse: refused before it has a token, it frees one.
XToken(m) ==
    LET name == Token(m, 0)
        value == Then(UnstrictChar(m, name.i, ":"), LAMBDA j : Unstructured(m, j))
    IN IF name.v # "ok" THEN Null ELSE Line(m, With(value, name.val))

-----------------------------------------------------------------------------
(***************************************************************************)
(* Dates.  A value: day, month, year, hour, minute, second, zone.          *)
(***************************************************************************)
Days == <<"Mon", "Tue", "Wed", "Thu", "Fri", "Sat", "Sun">>
Months == <<"Jan", "Feb", "Mar", "Apr", "May", "Jun", "Jul", "Aug", "Sep", "Oct", "Nov", "Dec">>

\* guess_day_name and guess_month decide on the letters that tell the names
\* apart, and refuse the name when the text ends before them.
Named(m, i, names) ==
    LET Tells(n, k) == \A o \in DOMAIN names :
                          o # n => SubSeq(names[o], 1, k) # SubSeq(names[n], 1, k)
        Letters(n) == CHOOSE k \in 1..3 : Tells(n, k) /\ \A l \in 1..(k - 1) : ~Tells(n, l)
        Seen(n) == /\ i + Letters(n) <= Len(m)
                   /\ Part(m, i, i + Letters(n)) = SubSeq(names[n], 1, Letters(n))
        hits == {n \in DOMAIN names : Seen(n)}
        n == CHOOSE h \in hits : TRUE
    IN IF hits = {} THEN Fail ELSE With(Keyword(m, i, names[n]), <<n>>)
DayOfWeek(m, i) == Then(Opt(Cfws(m, i), i), LAMBDA j : Named(m, j, Days))
MonthName(m, i) == Then(Opt(Cfws(m, i), i), LAMBDA j : Named(m, j, Months))
CfwsNumber(m, i) == Then(Opt(Cfws(m, i), i), LAMBDA j : Number(m, j))
Date(m, i) ==
    LET day == CfwsNumber(m, i)
        month == MonthName(m, day.i)
        year == CfwsNumber(m, month.i)
    IN AndThen(day, AndThen(month, With(year, day.val \o month.val \o year.val)))

TimeOfDay(m, i) ==
    LET hour == Number(m, i)
        colon == UnstrictChar(m, hour.i, ":")
        minute == Number(m, colon.i)
        more == UnstrictChar(m, minute.i, ":")
        second == IF more.v = "ok" THEN Number(m, more.i) ELSE Else(more, Got(minute.i, <<0>>))
    IN AndThen(hour, AndThen(colon, AndThen(minute,
         With(second, hour.val \o minute.val \o second.val))))

\* smtp_zone_parse: a North American zone is looked at once its three letters
\* are there.  ("UT" is compared with one letter, and never met.)
American == [E |-> -5, C |-> -6, M |-> -7, P |-> -8]
Zone(m, i) ==
    LET first == Ch(m, i)
        letters == Part(m, i, i + 3)
        sign == Else(UnstrictChar(m, i, "+"), UnstrictChar(m, i, "-"))
        number == Number(m, IF sign.v = "ok" THEN sign.i ELSE i)
        minus == UnstrictChar(m, i, "+").v = "parse" /\ sign.v = "ok"
        named ==
           CASE letters = "GMT" -> Got(i + 3, <<0>>)
             [] letters = first \o "ST" /\ first # "G" -> Got(i + 3, <<American[first] * 100>>)
             [] letters = first \o "DT" /\ first # "G" -> Got(i + 3, <<(American[first] + 1) * 100>>)
             [] OTHER -> Fail
    IN IF i + 2 < Len(m) /\ first \in {"G"} \cup DOMAIN American THEN named
       ELSE IF sign.v \notin {"ok", "parse"} THEN sign
       ELSE With(number, IF minus THEN <<-number.val[1]>> ELSE number.val)

Time(m, i) ==
    LET clock == Then(Opt(Cfws(m, i), i), LAMBDA j : TimeOfDay(m, j))
        blank == Opt(Fws(m, clock.i), clock.i)
        zone == Else(Zone(m, blank.i), Got(blank.i, <<0>>))
    IN AndThen(clock, AndThen(blank, With(zone, clock.val \o zone.val)))

DateTime(m, i) ==
    LET name == DayOfWeek(m, i)
        start == IF name.v = "ok" THEN UnstrictChar(m, name.i, ",") ELSE Opt(name, i)
        date == Date(m, start.i)
        blank == Fws(m, date.i)
        time == Time(m, blank.i)
    IN AndThen(start, AndThen(date, AndThen(blank, With(time, date.val \o time.val))))

OrigDate(m) ==
    LET date == DateTime(m, 0)
        line == Then(IgnoreUnstructured(m, date.i), LAMBDA j : UnstrictCrLf(m, j))
    IN AndThen(date, With(line, date.val))
ResentDate(m) == Line(m, DateTime(m, 0))

-----------------------------------------------------------------------------
\* Strings have lengths, which the provers do not know.
ASSUME KeywordsAssumption ==
    /\ \A words \in {Composite, Discrete, Dispositions, Mechanisms, Days, Months} :
          \A n \in DOMAIN words : Len(words[n]) \in Nat
    /\ \A word \in {"filename", "creation-date", "modification-date", "read-date", "size"} :
          Len(word) \in Nat
=============================================================================

---------------------------- MODULE MCGuestInput ----------------------------
(* Small instances of GuestInput for TLC: families of requests, each with   *)
(* one part of the request varied.                                         *)
EXTENDS GuestInput

T(words) == [i \in DOMAIN words |-> Plain(words[i])]

Head_(name, values) == [name |-> name, values |-> values]

Base == [method |-> "GET", path |-> T(<<"word">>), params |-> << >>, headers |-> << >>,
         body |-> << >>, peer |-> [ip |-> "ip4", form |-> "with port"], hops |-> 0]

\* One piece of every kind, encoded up to four times, at every place.
Kinds == {"word", "sqli", "xss", "../", "/etc/passwd", "sqlmap", "nul", "crlf", "upset",
          "sjis", "percent"}

Anywhere(s) ==
  {[Base EXCEPT !.path = s], [Base EXCEPT !.body = s],
   [Base EXCEPT !.params = <<[name |-> T(<<"n">>), value |-> s]>>],
   [Base EXCEPT !.params = <<[name |-> s, value |-> T(<<"word">>)],
                             [name |-> T(<<"n">>), value |-> s]>>]}
  \cup {[Base EXCEPT !.headers = <<Head_(n, <<s>>)>>] :
          n \in {"Cookie", "X-App", "Accept", "User-Agent"}}

OnePiece == UNION {Anywhere(<<Piece(k, e)>>) : k \in Kinds, e \in 0 .. 4}

\* Several pieces: neighbours that share a slash, repeated literals, separators
\* that are encoded and others that are not, and texts that look like browsers.
Texts ==
  {T(<<"../", "/etc/passwd">>), T(<<"/etc/passwd", "../", "../">>), T(<<"sqli", "xss", "sqli">>),
   T(<<"upset", "sqli">>), T(<<"nul", "word", "crlf">>),
   <<Plain("word"), Piece("&", 1), Plain("word"), Piece("=", 1), Plain("sqli")>>,
   <<Piece("xss", 2), Plain("percent")>>,
   T(<<"browser", "space", "sqli">>), T(<<"browser", "space", "word", ")", "sqli">>),
   T(<<"browser", ")", "space", "sqli">>), T(<<"browser", "word", "sqli">>),
   T(<<"browser", "space", "upset", "sqli">>)}

Pairs == {[Base EXCEPT !.path = s, !.body = t, !.headers = <<Head_("User-Agent", <<t>>)>>] :
            s, t \in Texts}

\* Parameters with separators in them: encoded ones in names and values, alone and
\* between words, and an = as it is in a value.
Separator == {<<Piece(k, e)>> : k \in {"&", "="}, e \in 1 .. 4}
Between   == {<<Plain("a")>> \o s \o <<Plain("b")>> : s \in Separator}

Parameters ==
  {[Base EXCEPT !.params = <<[name |-> s, value |-> t]>>] :
     s \in Separator \cup Between,
     t \in Separator \cup Between \cup {T(<<"a", "=", "b">>), << >>}}
  \cup {[Base EXCEPT !.params = <<[name |-> s, value |-> t], [name |-> T(<<"n">>), value |-> u]>>] :
          s, t, u \in Separator}

\* Names and values from nothing to more than the buffers hold.
NameList == <<"Cookie", "Accept", "X-App", "Host", "Referer", "X-Other">>

Shapes ==
  {[Base EXCEPT !.method = m,
                !.headers = [i \in 1 .. n |->
                   Head_(NameList[i], IF i = 1 THEN [j \in 1 .. k |-> T(SubSeq(<<"a", "b", "c">>, 1, w))]
                                               ELSE <<T(<<"v">>)>>)]] :
     m \in {"GET", "TRACE"}, n \in 0 .. 6, k \in 0 .. 4, w \in 0 .. 3}

Forms == {"bare", "with port", "bracketed", "bracketed, port", "short port"}

Peers == {[Base EXCEPT !.peer = [ip |-> a, form |-> f], !.hops = h] :
            a \in {"ip4", "ip6"}, f \in Forms, h \in 0 .. 1}

\* Up to three forwarded addresses, in one header or several, with and without
\* X-Real-IP.
Entry == {AddrText("ip4b"), <<Plain("space")>> \o AddrText("ip6b"), T(<<"junk">>)}
Chains == UNION {[1 .. n -> Entry] : n \in 0 .. 3}
Listed(c) == <<FlattenSeq([i \in DOMAIN c |-> IF i = 1 THEN c[i] ELSE <<Plain(",")>> \o c[i]])>>

Proxied ==
  {[Base EXCEPT !.hops = h,
                !.headers = (IF c = << >> THEN << >>
                             ELSE <<Head_("X-Forwarded-For", IF two THEN c ELSE Listed(c))>>)
                              \o (IF r THEN <<Head_("X-Real-Ip", <<AddrText("ip6")>>)>> ELSE << >>)] :
     h \in 0 .. 3, c \in Chains, two \in BOOLEAN, r \in BOOLEAN}

MCRequests == OnePiece \cup Parameters \cup Pairs \cup Shapes \cup Peers \cup Proxied
=============================================================================

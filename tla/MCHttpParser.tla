----------------------------- MODULE MCHttpParser -----------------------------
EXTENDS HttpParser

MCWords == {"CR", "LF", " ", "GET", "POST", "/", "http://h/", "http://h", "HTTP/1.1",
            "Host:", "Content-length", "a"}

Crlf == <<"CR", "LF">>
Good == <<"GET", " ", "/", " ", "HTTP/1.1">>

\* Every way of ending lines, before and after a request line.
Endings == UNION {[1 .. n -> {"CR", "LF", "Host:"}] : n \in 0 .. 5}

\* Request lines: every choice of the three words, and lines cut short.
Lines == {<<m, " ", u, " ", v>> : m \in {"GET", "POST", "/"}, u \in {"/", "http://h/", "http://h"},
                                  v \in {"HTTP/1.1", "/"}}
         \cup {SubSeq(Good, 1, n) : n \in 0 .. 4}
         \cup {<<"GET", " ", " ", "/", " ", " ", "HTTP/1.1">>}

\* A POST with a body, which may hold line ends, and the start of what follows.
Posts == {<<"POST", " ", "/", " ", "HTTP/1.1">> \o Crlf \o <<"Content-length">> \o Crlf \o Crlf \o b :
            b \in UNION {[1 .. n -> {"a", "CR", "LF"}] : n \in 0 .. 4}}

\* Requests around the size of the buffer.
Long == {Good \o Crlf \o [i \in 1 .. n |-> "Host:"] \o Crlf \o Crlf : n \in 3 .. 6}

\* A request and the start of the next, which gives a length.
Pipelined == {Good \o Crlf \o Crlf \o <<"Content-length">> \o e : e \in {<<>>, Crlf}}

MCInputs == Endings \cup {Good \o e : e \in Endings} \cup {l \o Crlf \o Crlf : l \in Lines} \cup Posts \cup Long
            \cup Pipelined
=============================================================================

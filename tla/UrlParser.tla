----------------------------- MODULE UrlParser ------------------------------
(***************************************************************************)
(* The URL of a request, which http_parser.c reads twice: byte by byte as  *)
(* it comes in (parse_url_char in http_parser_execute), and again as a     *)
(* whole after every piece (on_url calls http_parser_parse_url on all it   *)
(* has), which also finds its parts.                                       *)
(*                                                                         *)
(* A byte is one of its class: "a" a letter, "9" a digit, "." what else a  *)
(* host may contain, "ctl" what no URL may.                                *)
(***************************************************************************)
EXTENDS Naturals, Sequences, SequencesExt

CONSTANTS
  OffsetSpan,   \* the number of values of uint16_t, 2^16
  MaxPort,      \* 0xffff
  MaxUrl        \* bound: bytes of a URL

ASSUME UrlAssumption ==
  /\ OffsetSpan \in Nat \ {0, 1}
  /\ MaxPort \in Nat
  /\ MaxUrl \in Nat

VARIABLES
  connect,   \* the method is CONNECT
  scan,      \* the state of http_parser_execute
  url,       \* the bytes read
  handed,    \* the number of them on_url has got
  info,      \* parsed_url_info
  verdict    \* "reading", "complete", "invalid" (refused by execute), or
             \* "refused" (by on_url)

urlVars == <<connect, scan, url, handed, info, verdict>>

-----------------------------------------------------------------------------
(***************************************************************************)
(* parse_url_char.                                                         *)
(***************************************************************************)
Alpha == {"a"}
Num == {"9"}
HostChars == Alpha \union Num \union {"."}
UrlChars == HostChars \union {"/", "*", ":"}
Bytes == UrlChars \union {"?", "#", "ctl"}

\* The bytes that a state takes, by the state they lead to.
UrlMoves ==
  [s_req_schema             |-> [s_req_schema |-> Alpha, s_req_schema_slash |-> {":"}],
   s_req_schema_slash       |-> [s_req_schema_slash_slash |-> {"/"}],
   s_req_schema_slash_slash |-> [s_req_host |-> {"/"}],
   s_req_host               |-> [s_req_host |-> HostChars, s_req_port |-> {":"},
                                 s_req_path |-> {"/"}, s_req_query_string_start |-> {"?"}],
   s_req_port               |-> [s_req_port |-> Num,
                                 s_req_path |-> {"/"}, s_req_query_string_start |-> {"?"}],
   s_req_path               |-> [s_req_path |-> UrlChars,
                                 s_req_query_string_start |-> {"?"}, s_req_fragment_start |-> {"#"}],
   s_req_query_string_start |-> [s_req_query_string |-> UrlChars,
                                 s_req_query_string_start |-> {"?"}, s_req_fragment_start |-> {"#"}],
   s_req_query_string       |-> [s_req_query_string |-> UrlChars \union {"?"},
                                 s_req_fragment_start |-> {"#"}],
   s_req_fragment_start     |-> [s_req_fragment |-> UrlChars \union {"?"},
                                 s_req_fragment_start |-> {"#"}],
   s_req_fragment           |-> [s_req_fragment |-> UrlChars \union {"?", "#"}]]

FirstMoves(isConnect) ==
  IF isConnect THEN [s_req_path |-> {"/", "*"}, s_req_host |-> Alpha \union Num]
               ELSE [s_req_path |-> {"/", "*"}, s_req_schema |-> Alpha]

ParseUrlChar(s, byte, isConnect) ==
  LET moves == IF s = "s_req_spaces_before_url" THEN FirstMoves(isConnect) ELSE UrlMoves[s]
  IN  IF \E t \in DOMAIN moves : byte \in moves[t]
      THEN CHOOSE t \in DOMAIN moves : byte \in moves[t] ELSE "s_dead"

SchemaStates == {"s_req_schema", "s_req_schema_slash", "s_req_schema_slash_slash"}

-----------------------------------------------------------------------------
(***************************************************************************)
(* http_parser_parse_url.                                                  *)
(***************************************************************************)
Fields == {"SCHEMA", "HOST", "PORT", "PATH", "QUERY", "FRAGMENT"}

Field(s) ==
  CASE s \in SchemaStates                                       -> "SCHEMA"
    [] s = "s_req_host"                                         -> "HOST"
    [] s = "s_req_port"                                         -> "PORT"
    [] s = "s_req_path"                                         -> "PATH"
    [] s \in {"s_req_query_string_start", "s_req_query_string"} -> "QUERY"
    [] OTHER                                                    -> "FRAGMENT"

\* 1 for a field whose first byte is its delimiter, and no part of it.
Delimiter(field) == IF field \in {"PORT", "QUERY", "FRAGMENT"} THEN 1 ELSE 0

Offsets == 0..OffsetSpan - 1

\* Mutant: offsets and lengths of any width.
OffsetWide(n) == n

\* What uint16_t keeps of a number.
Offset(n) == n % OffsetSpan

UrlInfo == [set : SUBSET Fields,
            port : 0..MaxPort,
            data : [Fields -> [off : Offsets, len : Offsets]]]

NoInfo == [set |-> {}, port |-> 0, data |-> [f \in Fields |-> [off |-> 0, len |-> 0]]]

\* Mutant: the fields of the URL before stay set.
InfoKept(u) == u

InfoCleared(u) == [u EXCEPT !.set = {}, !.port = 0]

\* The loop's body: p is the place of the byte, field that of the last one.
ParseByte(q, byte, isConnect) ==
  LET s == ParseUrlChar(q.s, byte, isConnect)
      f == Field(s)
      here == IF f = q.field
              THEN [q.info.data[f] EXCEPT !.len = Offset(@ + 1)]
              ELSE [off |-> Offset(q.p + Delimiter(f)), len |-> 1 - Delimiter(f)]
  IN  CASE q.s = "s_dead" -> q
        [] q.s # "s_dead" /\ s = "s_dead" -> [q EXCEPT !.s = s]
        [] OTHER -> [s |-> s, p |-> q.p + 1, field |-> f,
                     info |-> [q.info EXCEPT !.set = @ \union {f}, !.data[f] = here]]

\* strtoul: the number that begins at an offset of the text.
NumberAt(text, off) ==
  LET from == SubSeq(text, off + 1, Len(text))
      digits == SelectInSeq(from, LAMBDA b : b \notin Num)
      run == IF digits = 0 THEN from ELSE SubSeq(from, 1, digits - 1)
  IN  FoldLeft(LAMBDA n, d : 10 * n + 9, 0, run)

\* Mutant: the largest port is refused.
PortTooLargeOrLargest(v) == v >= MaxPort

PortTooLarge(v) == v > MaxPort

\* The loop's outcomes that are an error, after its mutant: a URL that ends
\* in its scheme is one, too.
DeadOrCutShort(q) == q.s \in SchemaStates \union {"s_dead"}

Dead(q) == q.s = "s_dead"

\* u: what the structure held before.
ParseUrl(text, isConnect, u) ==
  LET q == FoldLeft(LAMBDA r, b : ParseByte(r, b, isConnect),
                    [s |-> "s_req_spaces_before_url", p |-> 0, field |-> "none",
                     info |-> InfoCleared(u)],
                    text)
      v == NumberAt(text, q.info.data["PORT"].off)
      numbered == ~Dead(q) /\ "PORT" \in q.info.set
      refused == Dead(q) \/ (numbered /\ PortTooLarge(v))
  IN  [refused |-> refused,
       info |-> IF numbered /\ ~refused THEN [q.info EXCEPT !.port = v] ELSE q.info]

-----------------------------------------------------------------------------
(***************************************************************************)
(* A URL comes in.                                                         *)
(***************************************************************************)

\* on_message_begin leaves parsed_url_info as the last request filled it.
Earlier == <<"a", ":", "/", "/", "a", ":", "9", "/", "?", "a", "#", "a">>

UrlTypeOK ==
  /\ connect \in BOOLEAN
  /\ scan \in DOMAIN UrlMoves \union {"s_req_spaces_before_url"}
  /\ url \in Seq(Bytes)
  /\ handed \in 0..Len(url)
  /\ info \in UrlInfo
  /\ verdict \in {"reading", "complete", "invalid", "refused"}

UrlInit ==
  /\ connect \in BOOLEAN
  /\ scan = "s_req_spaces_before_url"
  /\ url = <<>>
  /\ handed = 0
  /\ info \in {NoInfo, ParseUrl(Earlier, FALSE, NoInfo).info}
  /\ verdict = "reading"

\* Bound: one byte for all that are alike in a state, to both readers.
Offered ==
  CASE scan \in {"s_req_path", "s_req_query_string_start", "s_req_query_string",
                "s_req_fragment_start", "s_req_fragment"} -> {"a", "?", "#", "ctl"}
    [] scan = "s_req_host" /\ ~connect                   -> Bytes \ {"9", "."}
    [] OTHER                                             -> Bytes

UrlByte ==
  /\ verdict = "reading"
  /\ Len(url) < MaxUrl
  /\ \E b \in Offered :
       LET s == ParseUrlChar(scan, b, connect)
       IN  /\ s # "s_dead"
           /\ url' = Append(url, b)
           /\ scan' = s
  /\ UNCHANGED <<connect, handed, info, verdict>>

\* A byte that will not do, or a URL that ends in its scheme.
UrlInvalid ==
  /\ verdict = "reading"
  /\ \/ scan \in SchemaStates
     \/ \E b \in Offered : ParseUrlChar(scan, b, connect) = "s_dead"
  /\ verdict' = "invalid"
  /\ UNCHANGED <<connect, scan, url, handed, info>>

\* on_url, for the bytes it has not got yet; it never asks for CONNECT.
OnUrl(after) ==
  LET parsed == ParseUrl(url, FALSE, info)
  IN  /\ handed' = Len(url)
      /\ info' = parsed.info
      /\ verdict' = IF parsed.refused THEN "refused" ELSE after
      /\ UNCHANGED <<connect, scan, url>>

\* The buffer ends in the middle of the URL.
UrlCut ==
  /\ verdict = "reading"
  /\ Len(url) > handed
  /\ OnUrl("reading")

\* A space, CR or LF; http_parser_execute calls on_url also for no bytes.
UrlEnds ==
  /\ verdict = "reading"
  /\ scan \notin SchemaStates \union {"s_req_spaces_before_url"}
  /\ OnUrl("complete")

UrlNext == UrlByte \/ UrlInvalid \/ UrlCut \/ UrlEnds

UrlSpec == UrlInit /\ [][UrlNext]_urlVars

-----------------------------------------------------------------------------
(***************************************************************************)
(* Properties.                                                             *)
(***************************************************************************)

Prefix(n) == SubSeq(url, 1, n)

Piece(field) == SubSeq(url, info.data[field].off + 1,
                            info.data[field].off + info.data[field].len)

Lead(field) == CASE field = "PORT"     -> <<":">>
                 [] field = "QUERY"    -> <<"?">>
                 [] field = "FRAGMENT" -> <<"#">>
                 [] OTHER              -> <<>>

Delimited(field) == IF field \in info.set THEN Lead(field) \o Piece(field) ELSE <<>>

\* on_url gives the same verdict on a URL wherever its buffers are cut: if it
\* takes the whole, it takes each piece it may see before.
CutsDoNotMatter ==
  verdict = "complete" =>
    \A n \in 1..Len(url) : ~ParseUrl(Prefix(n), FALSE, NoInfo).refused

\* Where a port begins: after a colon that follows the host.
PortFollows(n) ==
  LET scheme == SelectInSeq(url, LAMBDA b : b = ":")
  IN  /\ url[n] = ":"
      /\ 0 < scheme /\ scheme + 2 < n
      /\ \A m \in scheme + 3..n - 1 : url[m] \notin {"/", "?"}

\* on_url refuses a URL that http_parser_execute took in two cases only: the
\* request is CONNECT, whose host and port it takes for a scheme, or the
\* port is too large.  (Of a URL that is too long for its offsets the port is
\* looked for in the wrong place.)
OnlyConnectRefused ==
  (verdict = "refused" /\ Len(url) < OffsetSpan) =>
    \/ connect
    \/ \E n \in 1..Len(url) : PortFollows(n) /\ NumberAt(url, n) > MaxPort

\* The parts that are set when the request is complete make up the URL, with
\* the delimiters left out; none is left of an earlier URL or an earlier
\* piece, and the port is the number its part spells.
PartsMakeUp ==
  (verdict = "complete" /\ Len(url) < OffsetSpan) =>
    /\ \A f \in info.set : info.data[f].off + info.data[f].len <= Len(url)
    /\ url = Delimited("SCHEMA") \o Delimited("HOST") \o Delimited("PORT")
               \o Delimited("PATH") \o Delimited("QUERY") \o Delimited("FRAGMENT")
    /\ "QUERY" \in info.set => ~Contains(Piece("QUERY"), "#")
    /\ "PATH" \in info.set => /\ Head(Piece("PATH")) \in {"/", "*"}
                              /\ ~Contains(Piece("PATH"), "?")
    /\ info.port = IF "PORT" \in info.set THEN NumberAt(Piece("PORT"), 0) ELSE 0
=============================================================================
